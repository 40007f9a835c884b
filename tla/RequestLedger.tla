---------------------------- MODULE RequestLedger ----------------------------
(***************************************************************************)
(* What the platform's store says of a request id, whatever happens in     *)
(* between, failing saves and restarts included: the first buyer and       *)
(* subagent it is used with are its own for good, and so is the one        *)
(* display code it gets once it has them.  A save that fails leaves its    *)
(* change to the next one, so several requests may settle in one step.     *)
(***************************************************************************)
EXTENDS Integers

CONSTANTS Requests, Buyers, Subagents

VARIABLES
  owner,  \* the buyer and subagent of each request id, <<>> before its first use
  code    \* the display code of each request id, 0 before it is given out

Init ==
  /\ owner = [r \in Requests |-> <<>>]
  /\ code = [r \in Requests |-> 0]

Settle(r) ==
  /\ owner[r] # <<>> => owner'[r] = owner[r]
  /\ code[r] # 0 => code'[r] = code[r]
  /\ code'[r] # 0 => owner'[r] # <<>>

Next ==
  /\ owner' \in [Requests -> {<<>>} \cup (Buyers \X Subagents)]
  /\ code' \in [Requests -> Nat]
  /\ \A r \in Requests : Settle(r)

Spec == Init /\ [][Next]_<<owner, code>>
=============================================================================
