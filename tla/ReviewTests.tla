---------------------------- MODULE ReviewTests ----------------------------
(***************************************************************************)
(* The platform's review tests: apps/platform-api/src/server.js, POST      *)
(* admin/subagents/:id/review-tests and runReviewTestHarness.  A test is   *)
(* started by a handler that answers at once; its harness goes on without  *)
(* it, sends a task to the seller through the relay, polls the relay for   *)
(* the result until a deadline, and writes the verdict.                    *)
(*                                                                         *)
(* The operator may choose the request id, and choose one again: the id    *)
(* keeps its mailbox and display code, and is bound to the new subagent,   *)
(* while the earlier harness runs on with a record nothing refers to.      *)
(*                                                                         *)
(* A save is synchronous (sqlite).  Nothing restarts a harness.            *)
(***************************************************************************)
EXTENDS Integers

CONSTANTS
  Tests,            \* request ids of review tests
  Tested,           \* subagents that are tested
  MaxRuns,          \* bound: tests ever started
  MaxRelayFaults,   \* bound: calls to the relay that fail
  MaxLostSaves,     \* bound: saves that throw
  MaxExits          \* bound: restarts that are not the platform's own doing

NoRun == 0
Unbound == "unbound"

ASSUME ReviewAssumption ==
  /\ MaxRuns \in Nat \ {0} /\ Unbound \notin Tested
  /\ {MaxRelayFaults, MaxLostSaves, MaxExits} \subseteq Nat

Runs == 1..MaxRuns

VARIABLES
  review,        \* state.reviewTests and state.requests, in memory
  reviewSaved,   \* and as last saved
  harness,       \* where the harness of each run stands
  polled,        \* the result it has taken
  mailbox,       \* results the relay holds for the receiver of a test
  sent,          \* tasks the seller has still to answer
  answered,      \* good results ever given: <<test, subagent>>
  relayFaults, lostSaves, exits

reviewVars ==
  <<review, reviewSaved, harness, polled, mailbox, sent, answered, relayFaults, lostSaves, exits>>

-----------------------------------------------------------------------------

Verdicts == {"none", "pass", "fail"}
Record ==
  [test : Tests \cup {Unbound}, agent : Tested \cup {Unbound},
   status : {"none", "running", "completed"}, verdict : Verdicts]
NoRecord == [test |-> Unbound, agent |-> Unbound, status |-> "none", verdict |-> "none"]

\* latest: the run a test id refers to; bound: what the request of that id is bound to.
Reviews ==
  [latest : [Tests -> {NoRun} \cup Runs], bound : [Tests -> Tested \cup {Unbound}],
   runs : [Runs -> Record]]
NoReviews ==
  [latest |-> [t \in Tests |-> NoRun], bound |-> [t \in Tests |-> Unbound],
   runs |-> [n \in Runs |-> NoRecord]]

Results == [agent : Tested, run : Runs, ok : BOOLEAN]
NoResult == [agent |-> Unbound, run |-> NoRun, ok |-> FALSE]

TestOf(n) == review.runs[n].test

\* What a snapshot keeps of a memory m: runs no test refers to are not in it.
Registered(m) ==
  [m EXCEPT !.runs = [n \in Runs |->
     IF \E t \in Tests : m.latest[t] = n THEN @[n] ELSE NoRecord]]

Saved(m) == reviewSaved' = Registered(m) /\ UNCHANGED lostSaves
SaveLost == lostSaves < MaxLostSaves /\ lostSaves' = lostSaves + 1 /\ UNCHANGED reviewSaved

HarnessAt(n, pc) == harness' = [harness EXCEPT ![n] = pc]

-----------------------------------------------------------------------------
(* The handler                                                             *)

\* A save that throws leaves the test running in memory, and nobody to run it.
StartTest(t, a, n) ==
  LET m == [latest |-> [review.latest EXCEPT ![t] = n],
            bound |-> [review.bound EXCEPT ![t] = a],
            runs |-> [review.runs EXCEPT ![n] =
              [test |-> t, agent |-> a, status |-> "running", verdict |-> "none"]]]
  IN
  /\ harness[n] = "off" /\ \A d \in 1..(n - 1) : harness[d] # "off"
  /\ review' = m
  /\ \/ Saved(m) /\ HarnessAt(n, "send")
     \/ SaveLost /\ HarnessAt(n, "lost")
  /\ UNCHANGED <<polled, mailbox, sent, answered, relayFaults, exits>>

-----------------------------------------------------------------------------
(* The harness                                                             *)

SendTask(n) ==
  /\ harness[n] = "send"
  /\ sent' = sent \cup {[run |-> n, test |-> TestOf(n), agent |-> review.runs[n].agent]}
  /\ HarnessAt(n, "poll")
  /\ UNCHANGED <<review, reviewSaved, polled, mailbox, answered, relayFaults, lostSaves, exits>>

\* A poll takes nothing away; a poll that finds nothing waits and changes nothing.
Poll(n) ==
  /\ harness[n] = "poll"
  /\ \E x \in mailbox[TestOf(n)] : polled' = [polled EXCEPT ![n] = x]
  /\ HarnessAt(n, "ack")
  /\ UNCHANGED <<review, reviewSaved, mailbox, sent, answered, relayFaults, lostSaves, exits>>

Ack(n) ==
  /\ harness[n] = "ack"
  /\ mailbox' = [mailbox EXCEPT ![TestOf(n)] = @ \ {polled[n]}]
  /\ HarnessAt(n, "verify")
  /\ UNCHANGED <<review, reviewSaved, polled, sent, answered, relayFaults, lostSaves, exits>>

\* verifyReviewResult: names and signature are those of the request as it is bound now.
VerifiesStatus(n) == polled[n].ok
Verifies(n) == polled[n].ok /\ polled[n].agent = review.bound[TestOf(n)]

CompleteSwapped(n, verdict) ==
  [review EXCEPT !.runs[n].status = verdict, !.runs[n].verdict = "completed"]
Complete(n, verdict) ==
  [review EXCEPT !.runs[n].status = "completed", !.runs[n].verdict = verdict]

\* The verdict is written, then saved: if that fails, the catch clause goes on.
Conclude(n, verdict, next) ==
  LET m == Complete(n, verdict) IN
  /\ review' = m
  /\ \/ Saved(m) /\ HarnessAt(n, next)
     \/ SaveLost /\ HarnessAt(n, "catch")
  /\ UNCHANGED <<polled, mailbox, sent, answered, relayFaults, exits>>

VerifyPollsOn(n) ==
  /\ harness[n] = "verify"
  /\ Conclude(n, IF Verifies(n) THEN "pass" ELSE "fail", "poll")

Verify(n) ==
  /\ harness[n] = "verify"
  /\ Conclude(n, IF Verifies(n) THEN "pass" ELSE "fail", "audit")

\* The deadline is looked at before a poll.
TimeOutOnResult(n) ==
  /\ harness[n] = "poll" /\ mailbox[TestOf(n)] # {}
  /\ Conclude(n, "fail", "audit")
TimeOut(n) == harness[n] = "poll" /\ Conclude(n, "fail", "audit")

\* The audit event, in a continuation with a save of its own.
Audit(n) == harness[n] = "audit" /\ Conclude(n, review.runs[n].verdict, "done")

\* send, poll or ack throws.
RelayFails(n) ==
  /\ harness[n] \in {"send", "poll", "ack"}
  /\ relayFaults < MaxRelayFaults /\ relayFaults' = relayFaults + 1
  /\ HarnessAt(n, "catch")
  /\ UNCHANGED <<review, reviewSaved, polled, mailbox, sent, answered, lostSaves, exits>>

Reboot(m) ==
  /\ review' = m
  /\ harness' = [n \in Runs |-> IF harness[n] = "off" THEN "off" ELSE "lost"]
  /\ polled' = [n \in Runs |-> NoResult]
  /\ UNCHANGED <<reviewSaved, mailbox, sent, answered, relayFaults>>

\* TRANSPORT_CONNECTION_FAILED; if even this save throws, no one catches it, and the process
\* ends.
Catch(n) ==
  /\ harness[n] = "catch"
  /\ \/ /\ review' = Complete(n, "fail") /\ Saved(review')
        /\ HarnessAt(n, "done")
        /\ UNCHANGED <<polled, mailbox, sent, answered, relayFaults, exits>>
     \/ /\ lostSaves < MaxLostSaves /\ lostSaves' = lostSaves + 1
        /\ Reboot(reviewSaved)
        /\ UNCHANGED exits

HarnessStep(n) == SendTask(n) \/ Poll(n) \/ Ack(n) \/ Verify(n) \/ TimeOut(n) \/ Audit(n) \/ Catch(n)

-----------------------------------------------------------------------------
(* The seller, and the platform's restart                                  *)

SellerAnswers ==
  \E task \in sent, ok \in BOOLEAN :
    /\ sent' = sent \ {task}
    /\ mailbox' = [mailbox EXCEPT ![task.test] =
                     @ \cup {[agent |-> task.agent, run |-> task.run, ok |-> ok]}]
    /\ answered' = IF ok THEN answered \cup {<<task.test, task.agent>>} ELSE answered
    /\ UNCHANGED <<review, reviewSaved, harness, polled, relayFaults, lostSaves, exits>>

PlatformExits ==
  /\ exits < MaxExits /\ exits' = exits + 1
  /\ Reboot(reviewSaved)
  /\ UNCHANGED lostSaves

-----------------------------------------------------------------------------

ReviewInit ==
  /\ review = NoReviews /\ reviewSaved = NoReviews
  /\ harness = [n \in Runs |-> "off"]
  /\ polled = [n \in Runs |-> NoResult]
  /\ mailbox = [t \in Tests |-> {}]
  /\ sent = {} /\ answered = {}
  /\ relayFaults = 0 /\ lostSaves = 0 /\ exits = 0

ReviewNext ==
  \/ \E n \in Runs :
       (\E t \in Tests, a \in Tested : StartTest(t, a, n)) \/ HarnessStep(n) \/ RelayFails(n)
  \/ SellerAnswers
  \/ PlatformExits

ReviewSpec == ReviewInit /\ [][ReviewNext]_reviewVars
FairReviewSpec == ReviewSpec /\ \A n \in Runs : WF_reviewVars(HarnessStep(n))

-----------------------------------------------------------------------------
(* Properties                                                              *)

ReviewTypeOK ==
  /\ review \in Reviews /\ reviewSaved \in Reviews
  /\ harness \in [Runs -> {"off", "send", "poll", "ack", "verify", "audit", "catch", "done", "lost"}]
  /\ polled \in [Runs -> Results \cup {NoResult}]
  /\ mailbox \in [Tests -> SUBSET Results]
  /\ sent \subseteq [run : Runs, test : Tests, agent : Tested]
  /\ answered \subseteq Tests \X Tested
  /\ relayFaults \in 0..MaxRelayFaults /\ lostSaves \in 0..MaxLostSaves /\ exits \in 0..MaxExits

\* A test the admin pages show as passed was passed: the subagent it names gave a good result
\* for it.  The result of another subagent the id was used for before, which comes to the same
\* mailbox, does not pass it.  (verifyReviewResult, and the id bound anew by the handler.)
PassEarned ==
  \A m \in {review, reviewSaved}, t \in Tests :
    LET n == m.latest[t] IN
    n # NoRun /\ m.runs[n].verdict = "pass" => <<t, m.runs[n].agent>> \in answered

\* A pass on record stays: as long as no save fails, no later result, deadline, harness or
\* restart turns it.  (runReviewTestHarness and its continuations.)
PassStands ==
  [][\A t \in Tests : LET n == review.latest[t] IN
       n # NoRun /\ lostSaves' = 0 /\ review'.latest[t] = n /\ review.runs[n].verdict = "pass"
         => review'.runs[n].verdict = "pass"]_reviewVars

\* A test ends: its harness comes to a verdict whatever the seller and the relay do, unless
\* the platform restarts, which nothing makes good.  (the deadline, catch and the return after
\* the verdict in runReviewTestHarness.)
Ended(n) ==
  harness[n] = "lost" \/ (harness[n] = "done" /\ review.runs[n].status = "completed")
TestEnds == \A n \in Runs : []<>(harness[n] = "off" \/ Ended(n))
=============================================================================
