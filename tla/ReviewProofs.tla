---------------------------- MODULE ReviewProofs ----------------------------
(***************************************************************************)
(* ReviewTests for any number of tests, subagents, runs and failures: its  *)
(* types, that a pass was earned, and that a pass on record stays.         *)
(***************************************************************************)
EXTENDS ReviewTests, TLAPS

\* A test refers to a run that has started for it, and its request is bound as that run is.
LatestOK(m, h) ==
  \A t \in Tests : m.latest[t] # NoRun =>
    /\ h[m.latest[t]] # "off"
    /\ m.runs[m.latest[t]].test = t
    /\ m.runs[m.latest[t]].agent = m.bound[t]

\* What a passed test names has given a good result.
Earned(m, good) ==
  \A t \in Tests :
    m.latest[t] # NoRun /\ m.runs[m.latest[t]].verdict = "pass"
      => <<t, m.runs[m.latest[t]].agent>> \in good

\* Good results the relay holds, or a harness has taken, were given.
MailboxEarned == \A t \in Tests : \A x \in mailbox[t] : x.ok => <<t, x.agent>> \in answered
PolledEarned ==
  \A n \in Runs : harness[n] \in {"ack", "verify"} =>
    (polled[n].ok => <<TestOf(n), polled[n].agent>> \in answered)

\* A run at work has a test.
RunsOK ==
  \A n \in Runs : harness[n] \in {"send", "poll", "ack", "verify"} =>
    TestOf(n) \in Tests /\ review.runs[n].agent \in Tested

\* Until a save fails, what is saved is what is in memory, and a verdict is the end of its run.
Faultless ==
  lostSaves = 0 =>
    /\ reviewSaved = Registered(review)
    /\ \A n \in Runs : review.runs[n].verdict # "none" => harness[n] \in {"audit", "done", "lost"}

TestsOK(m, h, good) == m \in Reviews /\ LatestOK(m, h) /\ Earned(m, good)

ReviewInv ==
  /\ ReviewTypeOK
  /\ TestsOK(review, harness, answered) /\ TestsOK(reviewSaved, harness, answered)
  /\ MailboxEarned /\ PolledEarned /\ RunsOK /\ Faultless

-----------------------------------------------------------------------------
(* What the operators do                                                   *)

\* The values that stand for none are none.
LEMMA RunFacts == NoRun \notin Runs /\ Unbound \notin Tested
  BY ReviewAssumption DEF NoRun, Runs

\* Reviews without a test.
LEMMA NoReviewsOK == NoReviews \in Reviews
  BY DEF NoReviews, Reviews, NoRecord, Record, Verdicts

\* A snapshot keeps what a test refers to.
LEMMA RegisteredFacts ==
  ASSUME NEW m \in Reviews
  PROVE  /\ Registered(m) \in Reviews
         /\ Registered(m).latest = m.latest /\ Registered(m).bound = m.bound
         /\ \A n \in Runs : Registered(m).runs[n] =
              IF \E t \in Tests : m.latest[t] = n THEN m.runs[n] ELSE NoRecord
<1> DEFINE kept == [n \in Runs |-> IF \E t \in Tests : m.latest[t] = n THEN m.runs[n] ELSE NoRecord]
<1>1. Registered(m) = [m EXCEPT !.runs = kept]
  BY DEF Registered, Reviews
<1>2. kept \in [Runs -> Record]
  <2>1. NoRecord \in Record
    BY DEF NoRecord, Record, Verdicts
  <2> QED
    BY <2>1 DEF Reviews
<1> HIDE DEF kept
<1>3. [m EXCEPT !.runs = kept] \in Reviews
  BY <1>2 DEF Reviews
<1>4. [m EXCEPT !.runs = kept].latest = m.latest /\ [m EXCEPT !.runs = kept].bound = m.bound
      /\ [m EXCEPT !.runs = kept].runs = kept
  BY DEF Reviews
<1> QED
  BY <1>1, <1>3, <1>4 DEF kept

\* What holds of a memory holds of its snapshot.
LEMMA RegisteredOK ==
  ASSUME NEW m, NEW h, NEW good, TestsOK(m, h, good)
  PROVE  TestsOK(Registered(m), h, good)
<1>1. m \in Reviews
  BY DEF TestsOK
<1>2. \A t \in Tests : m.latest[t] # NoRun =>
        m.latest[t] \in Runs /\ Registered(m).runs[m.latest[t]] = m.runs[m.latest[t]]
  BY <1>1, RegisteredFacts DEF Reviews
<1> QED
  BY <1>1, <1>2, RegisteredFacts DEF TestsOK, LatestOK, Earned

\* Complete writes the verdict of one run.
LEMMA CompleteFacts ==
  ASSUME review \in Reviews, NEW n \in Runs, NEW v \in Verdicts
  PROVE  /\ Complete(n, v) \in Reviews
         /\ Complete(n, v).latest = review.latest /\ Complete(n, v).bound = review.bound
         /\ \A k \in Runs :
              /\ Complete(n, v).runs[k].test = review.runs[k].test
              /\ Complete(n, v).runs[k].agent = review.runs[k].agent
              /\ Complete(n, v).runs[k].verdict = IF k = n THEN v ELSE review.runs[k].verdict
<1>1. review.runs \in [Runs -> Record]
  BY DEF Reviews
<1> DEFINE done == [review.runs EXCEPT ![n] = [@ EXCEPT !.status = "completed", !.verdict = v]]
<1>2. Complete(n, v) = [review EXCEPT !.runs = done]
  BY DEF Complete, Reviews
<1>3. done \in [Runs -> Record]
  <2>1. [review.runs[n] EXCEPT !.status = "completed", !.verdict = v] \in Record
    BY <1>1 DEF Record
  <2> QED
    BY <1>1, <2>1
<1>4. \A k \in Runs :
        /\ done[k].test = review.runs[k].test /\ done[k].agent = review.runs[k].agent
        /\ done[k].verdict = IF k = n THEN v ELSE review.runs[k].verdict
  BY <1>1 DEF Record
<1> HIDE DEF done
<1>5. [review EXCEPT !.runs = done] \in Reviews
  BY <1>3 DEF Reviews
<1>6. [review EXCEPT !.runs = done].latest = review.latest
      /\ [review EXCEPT !.runs = done].bound = review.bound
      /\ [review EXCEPT !.runs = done].runs = done
  BY DEF Reviews
<1> QED
  BY <1>2, <1>4, <1>5, <1>6

\* Runs that have started and results that were given stay so.
LEMMA StateStays ==
  ASSUME NEW m, NEW h, NEW good, NEW h2, NEW good2, TestsOK(m, h, good),
         \A k \in Runs : h[k] # "off" => h2[k] # "off", good \subseteq good2
  PROVE  TestsOK(m, h2, good2)
<1>1. \A t \in Tests : m.latest[t] # NoRun => m.latest[t] \in Runs
  BY DEF TestsOK, Reviews
<1> QED
  BY <1>1 DEF TestsOK, LatestOK, Earned

\* A run that is completed with a verdict that was earned.
LEMMA CompleteOK ==
  ASSUME ReviewInv, NEW n \in Runs, NEW v \in Verdicts,
         v = "pass" /\ TestOf(n) \in Tests /\ review.latest[TestOf(n)] = n =>
           <<TestOf(n), review.runs[n].agent>> \in answered
  PROVE  TestsOK(Complete(n, v), harness, answered)
<1> DEFINE m == Complete(n, v)
<1>1. review \in Reviews /\ TestsOK(review, harness, answered)
  BY DEF ReviewInv, TestsOK
<1>2. /\ m \in Reviews /\ m.latest = review.latest /\ m.bound = review.bound
      /\ \A k \in Runs :
           /\ m.runs[k].test = review.runs[k].test /\ m.runs[k].agent = review.runs[k].agent
           /\ m.runs[k].verdict = IF k = n THEN v ELSE review.runs[k].verdict
  BY <1>1, CompleteFacts
<1>3. \A t \in Tests : review.latest[t] # NoRun => review.latest[t] \in Runs
  BY <1>1 DEF Reviews
<1> HIDE DEF m
<1>4. LatestOK(m, harness)
  BY <1>1, <1>2, <1>3 DEF TestsOK, LatestOK
<1>5. Earned(m, answered)
  <2> SUFFICES ASSUME NEW t \in Tests, m.latest[t] # NoRun, m.runs[m.latest[t]].verdict = "pass"
               PROVE  <<t, m.runs[m.latest[t]].agent>> \in answered
    BY DEF Earned
  <2>1. CASE m.latest[t] = n
    <3>1. TestOf(n) = t
      BY <1>1, <1>2, <2>1 DEF TestsOK, LatestOK, TestOf
    <3> QED
      BY <1>2, <2>1, <3>1
  <2>2. CASE m.latest[t] # n
    BY <1>1, <1>2, <1>3, <2>2 DEF TestsOK, Earned
  <2> QED
    BY <2>1, <2>2
<1> QED
  BY <1>2, <1>4, <1>5 DEF TestsOK, m

\* A verdict, written and saved, or written and not saved.
LEMMA ConcludeStep ==
  ASSUME ReviewInv, NEW n \in Runs, NEW v \in Verdicts, NEW next \in {"audit", "done"},
         harness[n] \in {"poll", "verify", "audit"}, Conclude(n, v, next),
         v = "pass" /\ TestOf(n) \in Tests /\ review.latest[TestOf(n)] = n =>
           <<TestOf(n), review.runs[n].agent>> \in answered
  PROVE  ReviewInv'
<1>0. review \in Reviews /\ ReviewTypeOK
  BY DEF ReviewInv, TestsOK
<1>1. /\ review' = Complete(n, v)
      /\ UNCHANGED <<polled, mailbox, sent, answered, relayFaults, exits>>
  BY DEF Conclude
<1>2. PICK pc \in {next, "catch"} :
        /\ harness' = [harness EXCEPT ![n] = pc]
        /\ pc = next => reviewSaved' = Registered(review') /\ UNCHANGED lostSaves
        /\ pc = "catch" => /\ lostSaves < MaxLostSaves /\ lostSaves' = lostSaves + 1
                           /\ UNCHANGED reviewSaved
  BY DEF Conclude, HarnessAt, Saved, SaveLost
<1>3. \A k \in Runs : harness'[k] = IF k = n THEN pc ELSE harness[k]
  BY <1>0, <1>2 DEF ReviewTypeOK
<1>4. TestsOK(review', harness, answered)
  BY <1>1, CompleteOK
<1>5. TestsOK(review', harness', answered')
  BY <1>1, <1>3, <1>4, StateStays
<1>6. TestsOK(reviewSaved', harness', answered')
  <2>1. CASE pc = next
    BY <1>2, <1>5, <2>1, RegisteredOK
  <2>2. CASE pc = "catch"
    <3>1. TestsOK(reviewSaved, harness, answered)
      BY DEF ReviewInv
    <3>2. \A k \in Runs : harness[k] # "off" => harness'[k] # "off"
      BY <1>3
    <3>3. TestsOK(reviewSaved, harness', answered')
      BY <1>1, <3>1, <3>2, StateStays
    <3> QED
      BY <1>2, <2>2, <3>3
  <2> QED
    BY <2>1, <2>2
<1>7. ReviewTypeOK'
  <2>1. review' \in Reviews /\ reviewSaved' \in Reviews
    BY <1>5, <1>6 DEF TestsOK
  <2>2. lostSaves' \in 0..MaxLostSaves
    BY <1>0, <1>2, ReviewAssumption DEF ReviewTypeOK
  <2> QED
    BY <1>0, <1>1, <1>2, <2>1, <2>2 DEF ReviewTypeOK
<1>8. \A k \in Runs :
        /\ review'.runs[k].test = review.runs[k].test
        /\ review'.runs[k].agent = review.runs[k].agent
        /\ review'.runs[k].verdict = IF k = n THEN v ELSE review.runs[k].verdict
  BY <1>0, <1>1, CompleteFacts
<1>9. MailboxEarned' /\ PolledEarned' /\ RunsOK'
  BY <1>1, <1>3, <1>8 DEF ReviewInv, MailboxEarned, PolledEarned, RunsOK, TestOf
<1>10. Faultless'
  <2> SUFFICES ASSUME lostSaves' = 0
               PROVE  /\ reviewSaved' = Registered(review')
                      /\ \A k \in Runs : review'.runs[k].verdict # "none" =>
                           harness'[k] \in {"audit", "done", "lost"}
    BY DEF Faultless, Registered
  <2>1. pc = next /\ lostSaves = 0
    BY <1>0, <1>2 DEF ReviewTypeOK
  <2> QED
    BY <1>2, <1>3, <1>8, <2>1 DEF ReviewInv, Faultless
<1> QED
  BY <1>5, <1>6, <1>7, <1>9, <1>10 DEF ReviewInv

\* What TestsOK says of memory and snapshot is kept by a step that leaves both alone.
LEMMA StatesStay ==
  ASSUME ReviewInv, UNCHANGED <<review, reviewSaved>>, answered \subseteq answered',
         \A k \in Runs : harness[k] # "off" => harness'[k] # "off"
  PROVE  TestsOK(review', harness', answered') /\ TestsOK(reviewSaved', harness', answered')
<1>1. TestsOK(review, harness, answered) /\ TestsOK(reviewSaved, harness, answered)
  BY DEF ReviewInv
<1>2. TestsOK(review, harness', answered') /\ TestsOK(reviewSaved, harness', answered')
  BY <1>1, StateStays
<1> QED
  BY <1>2

\* Starting a test.
LEMMA StartTestStep ==
  ASSUME ReviewInv, NEW t \in Tests, NEW a \in Tested, NEW n \in Runs, StartTest(t, a, n)
  PROVE  ReviewInv'
<1> DEFINE run == [test |-> t, agent |-> a, status |-> "running", verdict |-> "none"]
           m == [latest |-> [review.latest EXCEPT ![t] = n],
                 bound |-> [review.bound EXCEPT ![t] = a],
                 runs |-> [review.runs EXCEPT ![n] = run]]
<1>0. ReviewTypeOK /\ review \in Reviews
  BY DEF ReviewInv, TestsOK
<1>1. harness[n] = "off" /\ review' = m
      /\ UNCHANGED <<polled, mailbox, sent, answered, relayFaults, exits>>
  BY DEF StartTest
<1>2. PICK pc \in {"send", "lost"} :
        /\ harness' = [harness EXCEPT ![n] = pc]
        /\ pc = "send" => reviewSaved' = Registered(review') /\ UNCHANGED lostSaves
        /\ pc = "lost" => /\ lostSaves < MaxLostSaves /\ lostSaves' = lostSaves + 1
                          /\ UNCHANGED reviewSaved
  BY DEF StartTest, HarnessAt, Saved, SaveLost
<1>3. \A k \in Runs : harness'[k] = IF k = n THEN pc ELSE harness[k]
  BY <1>0, <1>2 DEF ReviewTypeOK
<1>4. /\ m.latest = [review.latest EXCEPT ![t] = n] /\ m.bound = [review.bound EXCEPT ![t] = a]
      /\ m.runs = [review.runs EXCEPT ![n] = run]
  OBVIOUS
<1>5. run \in Record
  BY DEF Record, Verdicts
<1>6. m \in Reviews
  BY <1>0, <1>5 DEF Reviews
<1>7. \A k \in Runs : m.runs[k] = IF k = n THEN run ELSE review.runs[k]
  BY <1>0, <1>4 DEF Reviews
<1>8. \A u \in Tests : /\ m.latest[u] = IF u = t THEN n ELSE review.latest[u]
                       /\ m.bound[u] = IF u = t THEN a ELSE review.bound[u]
  BY <1>0, <1>4 DEF Reviews
<1>9. run.test = t /\ run.agent = a /\ run.verdict = "none"
  OBVIOUS
<1> HIDE DEF m, run
\* No test refers to the new run yet.
<1>10. \A u \in Tests : review.latest[u] # NoRun => review.latest[u] \in Runs \ {n}
  BY <1>0, <1>1 DEF ReviewInv, TestsOK, LatestOK, Reviews
<1>11. TestsOK(review', harness', answered')
  <2>1. LatestOK(m, harness')
    BY <1>3, <1>7, <1>8, <1>9, <1>10 DEF ReviewInv, TestsOK, LatestOK
  <2>2. Earned(m, answered)
    BY <1>7, <1>8, <1>9, <1>10 DEF ReviewInv, TestsOK, Earned
  <2> QED
    BY <1>1, <1>6, <2>1, <2>2 DEF TestsOK
<1>12. TestsOK(reviewSaved', harness', answered')
  <2>1. CASE pc = "send"
    BY <1>2, <1>11, <2>1, RegisteredOK
  <2>2. CASE pc = "lost"
    <3>1. \A k \in Runs : harness[k] # "off" => harness'[k] # "off"
      BY <1>1, <1>3
    <3>2. TestsOK(reviewSaved, harness', answered')
      BY <1>1, <3>1, StateStays DEF ReviewInv
    <3> QED
      BY <1>2, <2>2, <3>2
  <2> QED
    BY <2>1, <2>2
<1>13. ReviewTypeOK'
  <2>1. review' \in Reviews /\ reviewSaved' \in Reviews
    BY <1>11, <1>12 DEF TestsOK
  <2>2. lostSaves' \in 0..MaxLostSaves
    BY <1>0, <1>2, ReviewAssumption DEF ReviewTypeOK
  <2> QED
    BY <1>0, <1>1, <1>2, <2>1, <2>2 DEF ReviewTypeOK
<1>14. MailboxEarned' /\ PolledEarned' /\ RunsOK'
  BY <1>1, <1>3, <1>7, <1>9 DEF ReviewInv, MailboxEarned, PolledEarned, RunsOK, TestOf
<1>15. Faultless'
  <2> SUFFICES ASSUME lostSaves' = 0
               PROVE  /\ reviewSaved' = Registered(review')
                      /\ \A k \in Runs : review'.runs[k].verdict # "none" =>
                           harness'[k] \in {"audit", "done", "lost"}
    BY DEF Faultless, Registered
  <2>1. pc = "send" /\ lostSaves = 0
    BY <1>0, <1>2 DEF ReviewTypeOK
  <2> QED
    BY <1>1, <1>2, <1>3, <1>7, <1>9, <2>1 DEF ReviewInv, Faultless
<1> QED
  BY <1>11, <1>12, <1>13, <1>14, <1>15 DEF ReviewInv

\* The platform starts again with what is saved, and no harness.
LEMMA RebootStep ==
  ASSUME ReviewInv, Reboot(reviewSaved), lostSaves' \in {lostSaves, lostSaves + 1},
         lostSaves' \in 0..MaxLostSaves, exits' \in 0..MaxExits
  PROVE  ReviewInv'
<1>0. ReviewTypeOK /\ reviewSaved \in Reviews
  BY DEF ReviewInv, TestsOK
<1>1. /\ review' = reviewSaved
      /\ UNCHANGED <<reviewSaved, mailbox, sent, answered, relayFaults>>
      /\ harness' = [k \in Runs |-> IF harness[k] = "off" THEN "off" ELSE "lost"]
      /\ polled' = [k \in Runs |-> NoResult]
  BY DEF Reboot
<1>2. \A k \in Runs : harness'[k] = IF harness[k] = "off" THEN "off" ELSE "lost"
  BY <1>1
<1>3. TestsOK(reviewSaved, harness', answered')
  BY <1>1, <1>2, StateStays DEF ReviewInv
<1>4. ReviewTypeOK'
  BY <1>0, <1>1 DEF ReviewTypeOK
<1>5. MailboxEarned' /\ PolledEarned' /\ RunsOK'
  BY <1>1, <1>2 DEF ReviewInv, MailboxEarned, PolledEarned, RunsOK, TestOf
<1>6. Faultless'
  <2> SUFFICES ASSUME lostSaves' = 0
               PROVE  /\ reviewSaved = Registered(reviewSaved)
                      /\ \A k \in Runs : reviewSaved.runs[k].verdict # "none" =>
                           harness'[k] \in {"audit", "done", "lost"}
    BY <1>1 DEF Faultless, Registered
  <2>1. lostSaves = 0 /\ reviewSaved = Registered(review)
    BY <1>0 DEF ReviewTypeOK, ReviewInv, Faultless
  <2>2. Registered(Registered(review)) = Registered(review)
    BY <1>0 DEF ReviewTypeOK, Registered, Reviews
  <2>3. \A k \in Runs : reviewSaved.runs[k].verdict # "none" =>
                          review.runs[k].verdict # "none"
    BY <1>0, <2>1, RegisteredFacts DEF ReviewTypeOK, NoRecord
  <2> QED
    BY <1>2, <2>1, <2>2, <2>3 DEF ReviewInv, Faultless
<1> QED
  BY <1>1, <1>3, <1>4, <1>5, <1>6 DEF ReviewInv

-----------------------------------------------------------------------------
(* The inductive invariant                                                 *)

\* The invariant holds at first.
LEMMA ReviewInvInit == ReviewInit => ReviewInv
<1> SUFFICES ASSUME ReviewInit PROVE ReviewInv
  OBVIOUS
<1>1. review = NoReviews /\ reviewSaved = NoReviews
  BY DEF ReviewInit
<1>2. TestsOK(NoReviews, harness, answered)
  BY NoReviewsOK, RunFacts DEF TestsOK, LatestOK, Earned, NoReviews
<1>3. ReviewTypeOK
  BY <1>1, NoReviewsOK, ReviewAssumption DEF ReviewInit, ReviewTypeOK
<1>4. MailboxEarned /\ PolledEarned /\ RunsOK
  BY DEF ReviewInit, MailboxEarned, PolledEarned, RunsOK
<1>5. Faultless
  <2>1. Registered(NoReviews) = NoReviews
    BY DEF Registered, NoReviews
  <2> QED
    BY <1>1, <2>1 DEF Faultless, NoReviews, NoRecord
<1> QED
  BY <1>1, <1>2, <1>3, <1>4, <1>5 DEF ReviewInv

\* Every step keeps the invariant.
LEMMA ReviewInvStep == ReviewInv /\ [ReviewNext]_reviewVars => ReviewInv'
<1> SUFFICES ASSUME ReviewInv, [ReviewNext]_reviewVars PROVE ReviewInv'
  OBVIOUS
<1>0. ReviewTypeOK
  BY DEF ReviewInv
<1>1. ASSUME NEW n \in Runs, NEW t \in Tests, NEW a \in Tested, StartTest(t, a, n) PROVE ReviewInv'
  BY <1>1, StartTestStep
<1>2. ASSUME NEW n \in Runs, SendTask(n) PROVE ReviewInv'
  <2>1. TestOf(n) \in Tests /\ review.runs[n].agent \in Tested
    BY <1>2 DEF ReviewInv, RunsOK, SendTask
  <2>2. \A k \in Runs : harness'[k] = IF k = n THEN "poll" ELSE harness[k]
    BY <1>0, <1>2 DEF ReviewTypeOK, SendTask, HarnessAt
  <2>3. TestsOK(review', harness', answered') /\ TestsOK(reviewSaved', harness', answered')
    BY <1>2, <2>2, StatesStay DEF SendTask
  <2>4. ReviewTypeOK'
    BY <1>0, <1>2, <2>1 DEF ReviewTypeOK, SendTask, HarnessAt
  <2> QED
    BY <1>2, <2>1, <2>2, <2>3, <2>4
    DEF ReviewInv, SendTask, MailboxEarned, PolledEarned, RunsOK, TestOf, Faultless, Registered
<1>3. ASSUME NEW n \in Runs, Poll(n) PROVE ReviewInv'
  <2>1. TestOf(n) \in Tests
    BY <1>3 DEF ReviewInv, RunsOK, Poll
  <2>2. PICK x \in mailbox[TestOf(n)] : polled' = [polled EXCEPT ![n] = x]
    BY <1>3 DEF Poll
  <2>3. x \in Results /\ (x.ok => <<TestOf(n), x.agent>> \in answered)
    BY <1>0, <2>1 DEF ReviewTypeOK, ReviewInv, MailboxEarned
  <2>4. \A k \in Runs : /\ harness'[k] = IF k = n THEN "ack" ELSE harness[k]
                        /\ polled'[k] = IF k = n THEN x ELSE polled[k]
    BY <1>0, <1>3, <2>2 DEF ReviewTypeOK, Poll, HarnessAt
  <2>5. TestsOK(review', harness', answered') /\ TestsOK(reviewSaved', harness', answered')
    BY <1>3, <2>4, StatesStay DEF Poll
  <2>6. ReviewTypeOK'
    BY <1>0, <1>3, <2>2, <2>3 DEF ReviewTypeOK, Poll, HarnessAt
  <2>7. MailboxEarned' /\ PolledEarned' /\ RunsOK'
    BY <1>3, <2>1, <2>3, <2>4 DEF ReviewInv, Poll, MailboxEarned, PolledEarned, RunsOK, TestOf
  <2> QED
    BY <1>3, <2>4, <2>5, <2>6, <2>7 DEF ReviewInv, Poll, Faultless, Registered
<1>4. ASSUME NEW n \in Runs, Ack(n) PROVE ReviewInv'
  <2>1. TestOf(n) \in Tests
    BY <1>4 DEF ReviewInv, RunsOK, Ack
  <2>2. \A k \in Runs : harness'[k] = IF k = n THEN "verify" ELSE harness[k]
    BY <1>0, <1>4 DEF ReviewTypeOK, Ack, HarnessAt
  <2>3. \A u \in Tests : mailbox'[u] \subseteq mailbox[u]
    BY <1>0, <1>4, <2>1 DEF ReviewTypeOK, Ack
  <2>4. TestsOK(review', harness', answered') /\ TestsOK(reviewSaved', harness', answered')
    BY <1>4, <2>2, StatesStay DEF Ack
  <2>5. ReviewTypeOK'
    BY <1>0, <1>4, <2>1 DEF ReviewTypeOK, Ack, HarnessAt
  <2>6. MailboxEarned' /\ PolledEarned' /\ RunsOK'
    BY <1>4, <2>2, <2>3 DEF ReviewInv, Ack, MailboxEarned, PolledEarned, RunsOK, TestOf
  <2> QED
    BY <1>4, <2>2, <2>4, <2>5, <2>6 DEF ReviewInv, Ack, Faultless, Registered
<1>5. ASSUME NEW n \in Runs, Verify(n) PROVE ReviewInv'
  \* The latest run of its test is bound as the request is: the result is its own subagent's.
  <2>1. TestOf(n) \in Tests /\ review.latest[TestOf(n)] = n /\ Verifies(n) =>
          <<TestOf(n), review.runs[n].agent>> \in answered
    BY <1>5, RunFacts DEF ReviewInv, TestsOK, LatestOK, PolledEarned, Verify, Verifies
  <2>2. CASE Verifies(n)
    BY <1>5, <2>1, <2>2, ConcludeStep DEF Verify, Verdicts
  <2>3. CASE ~Verifies(n)
    BY <1>5, <2>3, ConcludeStep DEF Verify, Verdicts
  <2> QED
    BY <2>2, <2>3
<1>6. ASSUME NEW n \in Runs, TimeOut(n) PROVE ReviewInv'
  BY <1>6, ConcludeStep DEF TimeOut, Verdicts
<1>7. ASSUME NEW n \in Runs, Audit(n) PROVE ReviewInv'
  <2>1. review.runs[n].verdict \in Verdicts
    BY <1>0 DEF ReviewTypeOK, Reviews, Record
  <2>2. TestOf(n) \in Tests /\ review.latest[TestOf(n)] = n /\ review.runs[n].verdict = "pass" =>
          <<TestOf(n), review.runs[n].agent>> \in answered
    BY RunFacts DEF ReviewInv, TestsOK, Earned
  <2> QED
    BY <1>7, <2>1, <2>2, ConcludeStep DEF Audit
<1>8. ASSUME NEW n \in Runs, Catch(n) PROVE ReviewInv'
  <2>1. CASE /\ review' = Complete(n, "fail") /\ Saved(review') /\ HarnessAt(n, "done")
             /\ UNCHANGED <<polled, mailbox, sent, answered, relayFaults, exits>>
    <3>1. "fail" \in Verdicts
      BY DEF Verdicts
    <3>2. TestsOK(review', harness, answered)
      BY <2>1, <3>1, CompleteOK
    <3>3. \A k \in Runs : harness'[k] = IF k = n THEN "done" ELSE harness[k]
      BY <1>0, <2>1 DEF ReviewTypeOK, HarnessAt
    <3>4. TestsOK(review', harness', answered')
      BY <2>1, <3>2, <3>3, StateStays
    <3>5. TestsOK(reviewSaved', harness', answered')
      BY <2>1, <3>4, RegisteredOK DEF Saved
    <3>6. ReviewTypeOK'
      BY <1>0, <2>1, <3>4, <3>5 DEF ReviewTypeOK, HarnessAt, Saved, TestsOK
    <3>7. \A k \in Runs :
            /\ review'.runs[k].test = review.runs[k].test
            /\ review'.runs[k].agent = review.runs[k].agent
            /\ review'.runs[k].verdict = IF k = n THEN "fail" ELSE review.runs[k].verdict
      BY <1>0, <2>1, <3>1, CompleteFacts DEF ReviewTypeOK
    <3>8. MailboxEarned' /\ PolledEarned' /\ RunsOK'
      BY <2>1, <3>3, <3>7 DEF ReviewInv, MailboxEarned, PolledEarned, RunsOK, TestOf
    <3>9. Faultless'
      BY <2>1, <3>3, <3>7 DEF ReviewInv, Faultless, Saved, Registered
    <3> QED
      BY <3>4, <3>5, <3>6, <3>8, <3>9 DEF ReviewInv
  <2>2. CASE /\ lostSaves < MaxLostSaves /\ lostSaves' = lostSaves + 1
             /\ Reboot(reviewSaved) /\ UNCHANGED exits
    BY <1>0, <2>2, RebootStep, ReviewAssumption DEF ReviewTypeOK
  <2> QED
    BY <1>8, <2>1, <2>2 DEF Catch
<1>9. ASSUME NEW n \in Runs, RelayFails(n) PROVE ReviewInv'
  <2>1. \A k \in Runs : harness'[k] = IF k = n THEN "catch" ELSE harness[k]
    BY <1>0, <1>9 DEF ReviewTypeOK, RelayFails, HarnessAt
  <2>2. TestsOK(review', harness', answered') /\ TestsOK(reviewSaved', harness', answered')
    BY <1>9, <2>1, StatesStay DEF RelayFails
  <2>3. ReviewTypeOK'
    BY <1>0, <1>9, ReviewAssumption DEF ReviewTypeOK, RelayFails, HarnessAt
  <2> QED
    BY <1>9, <2>1, <2>2, <2>3
    DEF ReviewInv, RelayFails, MailboxEarned, PolledEarned, RunsOK, TestOf, Faultless, Registered
<1>10. CASE SellerAnswers
  <2>1. PICK task \in sent, ok \in BOOLEAN :
          /\ mailbox' = [mailbox EXCEPT ![task.test] =
                           @ \cup {[agent |-> task.agent, run |-> task.run, ok |-> ok]}]
          /\ answered' = IF ok THEN answered \cup {<<task.test, task.agent>>} ELSE answered
          /\ sent' = sent \ {task}
          /\ UNCHANGED <<review, reviewSaved, harness, polled, relayFaults, lostSaves, exits>>
    BY <1>10 DEF SellerAnswers
  <2>2. task.test \in Tests /\ task.agent \in Tested /\ task.run \in Runs
    BY <1>0 DEF ReviewTypeOK
  <2> DEFINE result == [agent |-> task.agent, run |-> task.run, ok |-> ok]
  <2>3. result \in Results /\ result.agent = task.agent /\ result.ok = ok
    BY <2>2 DEF Results
  <2>4. \A u \in Tests : mailbox'[u] = IF u = task.test THEN mailbox[u] \cup {result} ELSE mailbox[u]
    BY <1>0, <2>1 DEF ReviewTypeOK
  <2> HIDE DEF result
  <2>5. TestsOK(review', harness', answered') /\ TestsOK(reviewSaved', harness', answered')
    BY <2>1, StatesStay
  <2>6. mailbox' \in [Tests -> SUBSET Results]
    BY <1>0, <2>1, <2>2, <2>3 DEF ReviewTypeOK, result
  <2>7. ReviewTypeOK'
    BY <1>0, <2>1, <2>2, <2>6 DEF ReviewTypeOK
  <2>8. MailboxEarned' /\ PolledEarned' /\ RunsOK'
    BY <2>1, <2>2, <2>3, <2>4 DEF ReviewInv, MailboxEarned, PolledEarned, RunsOK, TestOf
  <2> QED
    BY <2>1, <2>5, <2>7, <2>8 DEF ReviewInv, Faultless, Registered
<1>11. CASE PlatformExits
  BY <1>0, <1>11, RebootStep, ReviewAssumption DEF PlatformExits, ReviewTypeOK
<1>12. CASE UNCHANGED reviewVars
  <2>1. TestsOK(review', harness', answered') /\ TestsOK(reviewSaved', harness', answered')
    BY <1>12, StatesStay DEF reviewVars
  <2> QED
    BY <1>12, <2>1
    DEF ReviewInv, reviewVars, ReviewTypeOK, MailboxEarned, PolledEarned, RunsOK, TestOf, Faultless,
        Registered
<1> QED
  BY <1>1, <1>2, <1>3, <1>4, <1>5, <1>6, <1>7, <1>8, <1>9, <1>10, <1>11, <1>12
  DEF ReviewNext, HarnessStep

\* It holds throughout.
LEMMA ReviewInvariant == ReviewSpec => []ReviewInv
  BY ReviewInvInit, ReviewInvStep, PTL DEF ReviewSpec

-----------------------------------------------------------------------------
(* The results                                                             *)

\* The model of the review tests keeps its types.
THEOREM ReviewTypes == ReviewSpec => []ReviewTypeOK
<1>1. ReviewInv => ReviewTypeOK
  BY DEF ReviewInv
<1> QED
  BY ReviewInvariant, <1>1, PTL

\* A test that is shown as passed was passed by the subagent it names, however often its
\* request id is used again, for whichever subagents, and whatever fails or restarts.
THEOREM VerdictsEarned == ReviewSpec => []PassEarned
<1>1. ReviewInv => PassEarned
  BY DEF ReviewInv, TestsOK, Earned, PassEarned
<1> QED
  BY ReviewInvariant, <1>1, PTL

\* Until a save fails, no step of a harness, a handler or a restart turns a pass on record.
THEOREM VerdictsStand == ReviewSpec => PassStands
<1> DEFINE Stands ==
      \A t \in Tests : LET n == review.latest[t] IN
        n # NoRun /\ lostSaves' = 0 /\ review'.latest[t] = n /\ review.runs[n].verdict = "pass"
          => review'.runs[n].verdict = "pass"
<1>1. ReviewInv /\ [ReviewNext]_reviewVars => [Stands]_reviewVars
  <2> SUFFICES ASSUME ReviewInv, ReviewNext, NEW t \in Tests,
                      review.latest[t] # NoRun, lostSaves' = 0,
                      review'.latest[t] = review.latest[t],
                      review.runs[review.latest[t]].verdict = "pass"
               PROVE  review'.runs[review.latest[t]].verdict = "pass"
    OBVIOUS
  <2> DEFINE n == review.latest[t]
  <2>0. /\ ReviewTypeOK /\ review \in Reviews
        /\ n \in Runs /\ harness[n] # "off"
    BY DEF ReviewInv, TestsOK, LatestOK, Reviews
  <2> HIDE DEF n
  <2>1. lostSaves = 0 => harness[n] \in {"audit", "done", "lost"}
    BY <2>0 DEF ReviewInv, Faultless, n
  <2>2. ASSUME NEW k \in Runs, NEW v \in Verdicts, NEW next, Conclude(k, v, next), k = n => v = "pass"
        PROVE  review'.runs[n].verdict = "pass"
    BY <2>0, <2>2, CompleteFacts DEF Conclude, n
  <2>3. ASSUME NEW k \in Runs, NEW u \in Tests, NEW a \in Tested, StartTest(u, a, k)
        PROVE  review'.runs[n].verdict = "pass"
    BY <2>0, <2>3 DEF StartTest, Reviews, n
  <2>4. lostSaves = 0
    <3>1. ReviewNext => lostSaves' \in {lostSaves, lostSaves + 1}
      <4>1. ASSUME NEW k \in Runs, NEW v, NEW next
            PROVE  Conclude(k, v, next) => lostSaves' \in {lostSaves, lostSaves + 1}
        BY DEF Conclude, Saved, SaveLost
      <4>2. \A k \in Runs : HarnessStep(k) => lostSaves' \in {lostSaves, lostSaves + 1}
        BY <4>1 DEF HarnessStep, SendTask, Poll, Ack, Verify, TimeOut, Audit, Catch, Saved
      <4>3. \A u \in Tests, a \in Tested, k \in Runs :
              StartTest(u, a, k) => lostSaves' \in {lostSaves, lostSaves + 1}
        BY DEF StartTest, Saved, SaveLost
      <4> QED
        BY <4>2, <4>3 DEF ReviewNext, RelayFails, SellerAnswers, PlatformExits
    <3> QED
      BY <2>0, <3>1 DEF ReviewTypeOK
  <2>5. ASSUME NEW k \in Runs, HarnessStep(k) PROVE review'.runs[n].verdict = "pass"
    <3>1. CASE SendTask(k) \/ Poll(k) \/ Ack(k)
      BY <3>1 DEF SendTask, Poll, Ack, n
    <3>2. CASE Verify(k)
      BY <2>1, <2>2, <2>4, <3>2 DEF Verify, Verdicts
    <3>3. CASE TimeOut(k)
      BY <2>1, <2>2, <2>4, <3>3 DEF TimeOut, Verdicts
    <3>4. CASE Audit(k)
      <4>1. review.runs[k].verdict \in Verdicts
        BY <2>0 DEF Reviews, Record
      <4> QED
        BY <2>2, <3>4, <4>1 DEF Audit, n
    <3>5. CASE Catch(k)
      <4>1. k # n /\ review' = Complete(k, "fail")
        BY <2>1, <2>4, <3>5 DEF Catch
      <4> QED
        BY <2>0, <4>1, CompleteFacts DEF n, Verdicts
    <3> QED
      BY <2>5, <3>1, <3>2, <3>3, <3>4, <3>5 DEF HarnessStep
  <2>6. CASE PlatformExits
    <3>1. review' = Registered(review)
      BY <2>4, <2>6 DEF PlatformExits, Reboot, ReviewInv, Faultless
    <3> QED
      BY <2>0, <3>1, RegisteredFacts DEF n
  <2>7. ASSUME NEW k \in Runs, RelayFails(k) PROVE review'.runs[n].verdict = "pass"
    BY <2>7 DEF RelayFails, n
  <2>8. CASE SellerAnswers
    BY <2>8 DEF SellerAnswers, n
  <2> QED
    BY <2>3, <2>5, <2>6, <2>7, <2>8 DEF ReviewNext, n
<1> QED
  BY ReviewInvariant, <1>1, PTL DEF ReviewSpec, PassStands
=============================================================================
