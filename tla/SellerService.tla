---------------------------- MODULE SellerService ----------------------------
(***************************************************************************)
(* What a seller promises about a request, whatever is redelivered, fails  *)
(* or is restarted in between: it executes a request it has recorded, and  *)
(* that once; it answers with an outcome only what it has executed, and    *)
(* with a refusal only what it has not; it reports what is so; and it      *)
(* takes a message only when its request is recorded or was refused.       *)
(* Crashes do not show: what is recorded survives them.                    *)
(***************************************************************************)
EXTENDS Integers

CONSTANTS
  Requests,
  Posted     \* requests that may also be posted by hand, and then executed again

VARIABLES
  recorded,  \* requests the seller will still know after a restart
  executed,  \* how often each was executed
  answers,   \* results sent, with their requests
  reported,  \* what the platform was told of each
  taken      \* requests with a message taken from the mailbox

serviceVars == <<recorded, executed, answers, reported, taken>>

Endings == {"ok", "error", "runtime_error"}
Answered(r, results) == \E res \in results : <<r, res>> \in answers

Init ==
  /\ recorded = {}
  /\ executed = [r \in Requests |-> 0]
  /\ answers = {}
  /\ reported = [r \in Requests |-> {}]
  /\ taken = {}

\* One save may record what several handlers have done.
Record(new) ==
  /\ recorded' = recorded \cup new
  /\ UNCHANGED <<executed, answers, reported, taken>>

Execute(r) ==
  /\ r \in recorded
  /\ executed[r] = 0 \/ r \in Posted
  /\ executed' = [executed EXCEPT ![r] = @ + 1]
  /\ UNCHANGED <<recorded, answers, reported, taken>>

Answer(r, res) ==
  /\ answers' = answers \cup {<<r, res>>}
  /\ UNCHANGED <<recorded, executed, reported, taken>>

AnswerOutcome(r) ==
  /\ r \in recorded /\ executed[r] > 0
  /\ \E res \in Endings : Answer(r, res)

Refuse(r) ==
  /\ executed[r] = 0 \/ r \in Posted
  /\ Answer(r, "rejected")

Tell(r, event) ==
  /\ reported' = [reported EXCEPT ![r] = @ \cup {event}]
  /\ UNCHANGED <<recorded, executed, answers, taken>>

\* The result of a posted request may have nobody to go to.
Report(r) ==
  \/ r \in recorded /\ Tell(r, "ACKED")
  \/ executed[r] > 0 /\ (Answered(r, {"ok"}) \/ r \in Posted) /\ Tell(r, "COMPLETED")
  \/ executed[r] > 0 /\ (Answered(r, Endings \ {"ok"}) \/ r \in Posted) /\ Tell(r, "FAILED")

Take(r) ==
  /\ r \in recorded \/ Answered(r, {"rejected"})
  /\ taken' = taken \cup {r}
  /\ UNCHANGED <<recorded, executed, answers, reported>>

Next ==
  \/ \E new \in SUBSET Requests : Record(new)
  \/ \E r \in Requests : Execute(r) \/ AnswerOutcome(r) \/ Refuse(r) \/ Report(r) \/ Take(r)

Spec == Init /\ [][Next]_serviceVars
=============================================================================
