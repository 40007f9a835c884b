--------------------------- MODULE RequestOutcomes ---------------------------
(***************************************************************************)
(* What a buyer can rely on about the outcome of a request, whichever      *)
(* handler, loop, deadline or late message writes to it: it is open until  *)
(* it is answered, expires or is given up, each once; status and result    *)
(* change together; what was acknowledged is not called undelivered.  An   *)
(* outcome is replaced only by a pushed result that was let in while the   *)
(* request was open.  The snapshot is at times what the controller tells,  *)
(* and a restart tells what the snapshot has.                              *)
(***************************************************************************)
EXTENDS Integers

CONSTANT Requests

VARIABLES
  told,    \* what the controller says of each request
  saved,   \* what it would say after a restart
  pushes   \* pushed results let in and not applied yet: a request, and which asking of it

Unasked ==
  [asked |-> 0, status |-> "NONE", result |-> "none", acked |-> FALSE, stopped |-> FALSE]

Endings == {<<"SUCCEEDED", "ok">>, <<"FAILED", "error">>, <<"UNVERIFIED", "none">>}

Open(r) == told[r].status = "OPEN"
Over(r) == told[r].status \notin {"NONE", "OPEN"}

Init ==
  /\ told = [r \in Requests |-> Unasked]
  /\ saved = told
  /\ pushes = {}

Becomes(r, x) == told' = [told EXCEPT ![r] = x]

\* Asking again starts anew.
Ask(r) == Becomes(r, [Unasked EXCEPT !.asked = told[r].asked + 1, !.status = "OPEN"])

Acknowledge(r) == Open(r) /\ Becomes(r, [told[r] EXCEPT !.acked = TRUE])

End(r) == \E e \in Endings : Becomes(r, [told[r] EXCEPT !.status = e[1], !.result = e[2]])

Answer(r) == Open(r) /\ End(r)
Override(r) == Over(r) /\ <<r, told[r].asked>> \in pushes /\ End(r)

Expire(r) == Open(r) /\ Becomes(r, [told[r] EXCEPT !.status = "TIMED_OUT"])
Undelivered(r) ==
  Open(r) /\ ~told[r].acked /\ Becomes(r, [told[r] EXCEPT !.status = "UNDELIVERED"])

\* A request prepared again is no longer said to be undelivered, but it stays timed out.
Forget(r) ==
  told[r].status = "UNDELIVERED" /\ Becomes(r, [told[r] EXCEPT !.status = "TIMED_OUT"])

\* Giving up ends an open request.  On one that is over it is noted.
GiveUp(r) ==
  \/ Open(r) /\ Becomes(r, [told[r] EXCEPT !.status = "TIMED_OUT", !.stopped = TRUE])
  \/ Over(r) /\ Becomes(r, [told[r] EXCEPT !.stopped = TRUE])
WaitOn(r) == Becomes(r, [told[r] EXCEPT !.stopped = FALSE])

Move(r) ==
  \/ Ask(r) \/ Acknowledge(r) \/ Answer(r) \/ Override(r) \/ Expire(r) \/ Undelivered(r)
  \/ Forget(r) \/ GiveUp(r) \/ WaitOn(r)

\* One request moves or none does, and the snapshot is taken or not.
Work ==
  /\ UNCHANGED told \/ \E r \in Requests : Move(r)
  /\ saved' \in {saved, told'}
  /\ pushes' \subseteq pushes

LetIn(r) ==
  /\ Open(r)
  /\ pushes' = pushes \cup {<<r, told[r].asked>>}
  /\ UNCHANGED <<told, saved>>

Restart == told' = saved /\ pushes' = {} /\ UNCHANGED saved

Next == Work \/ Restart \/ \E r \in Requests : LetIn(r)

Spec == Init /\ [][Next]_<<told, saved, pushes>>
=============================================================================
