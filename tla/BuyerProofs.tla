----------------------------- MODULE BuyerProofs -----------------------------
(***************************************************************************)
(* Theorems about BuyerController, for every number of requests, handlers, *)
(* loops, messages, faults and crashes.                                    *)
(***************************************************************************)
EXTENDS BuyerController, SequenceTheorems, TLAPS

-----------------------------------------------------------------------------
(* Records                                                                 *)

\* One record tells one story.  An unfinished record has no result: a result that is
\* applied ends the request.  Only a record that was never created has no status, and one
\* that was acknowledged is not declared undelivered.
Sound(x) ==
  /\ x.status = "SUCCEEDED" <=> x.result = "ok"
  /\ x.status = "FAILED" <=> x.result = "error"
  /\ x.status \in Active \cup {"NONE", "TIMED_OUT"} => x.result = "none"
  /\ x.status \in Active \cup {"SUCCEEDED"} => x.code = "none"
  /\ x.decision = "stop_wait" => IsTerminal(x)
  /\ x.status = "NONE" <=> x.gen = 0
  /\ x.acknowledged => x.code # "delivery"

\* What every write does to the record object it has at hand.
Evolves(x, y) ==
  /\ y \in Record
  /\ y.gen = x.gen
  /\ Sound(x) => Sound(y)
  /\ IsTerminal(x) => IsTerminal(y)
  /\ x.status = "NONE" <=> y.status = "NONE"
  /\ x.acknowledged => y.acknowledged

\* What every write but the one of POST result does.
Advances(x, y) ==
  /\ Evolves(x, y)
  /\ IsTerminal(x) => y.status = x.status /\ y.result = x.result

\* A record just created.
LEMMA FreshSound ==
  ASSUME NEW gen \in Nat \ {0}
  PROVE  /\ FreshRecord(gen) \in Record /\ Sound(FreshRecord(gen)) /\ FreshRecord(gen).gen = gen
         /\ FreshRecord(gen).status = "CREATED"
  BY DEF FreshRecord, Record, Sound, IsTerminal, Active, Terminal, Decisions, Codes

\* The record of a request that was never created.
LEMMA NoRecordSound ==
  NoRecord \in Record /\ Sound(NoRecord) /\ NoRecord.gen = 0 /\ ~IsTerminal(NoRecord)
  BY DEF NoRecord, FreshRecord, Record, Sound, IsTerminal, Active, Terminal, Decisions, Codes

\* A record that stays.
LEMMA SelfAdvances ==
  ASSUME NEW x \in Record
  PROVE  Advances(x, x)
  BY DEF Advances, Evolves

\* setSentState.
LEMMA SentAdvances ==
  ASSUME NEW x \in Record, x.status # "NONE"
  PROVE  /\ ~IsTerminal(x) => Advances(x, Sent(x))
         /\ Advances(x, AfterSend(x))
<1>1. ASSUME ~IsTerminal(x) PROVE Advances(x, Sent(x))
  BY <1>1 DEF Advances, Evolves, Sent, Record, Sound, IsTerminal, Active, Terminal, Codes
<1> QED  BY <1>1, SelfAdvances DEF AfterSend

\* The ack of the seller.
LEMMA AckedAdvances ==
  ASSUME NEW x \in Record, ~IsTerminal(x), x.status # "NONE"
  PROVE  Advances(x, Acked(x))
  BY DEF Advances, Evolves, Acked, Record, Sound, IsTerminal, Active, Terminal, Codes

\* applyPlatformEventsToRequest.
LEMMA EventsAdvance ==
  ASSUME NEW x \in Record, NEW seen, x.status # "NONE"
  PROVE  Advances(x, ApplyEvents(x, seen))
  BY AckedAdvances, SelfAdvances DEF ApplyEvents

\* applyResultPackage.
LEMMA ResultEvolves ==
  ASSUME NEW x \in Record, NEW package \in {"ok", "error", "invalid"}, x.status # "NONE"
  PROVE  /\ Evolves(x, ApplyResult(x, package)) /\ IsTerminal(ApplyResult(x, package))
         /\ ~IsTerminal(x) => Advances(x, ApplyResult(x, package))
<1> DEFINE y == ApplyResult(x, package)
<1>1. y \in Record
  BY DEF ApplyResult, Record, Active, Terminal, Codes, PackageKinds
<1>2. /\ y.gen = x.gen /\ y.result = package /\ y.acknowledged = x.acknowledged
      /\ y.decision = x.decision
      /\ y.status \in {"SUCCEEDED", "FAILED", "UNVERIFIED"}
      /\ y.status = "SUCCEEDED" <=> package = "ok"
      /\ y.status = "FAILED" <=> package = "error"
      /\ y.code \in {"none", "exec", "unverified"} /\ (package = "ok" => y.code = "none")
  BY DEF ApplyResult, Record
<1> HIDE DEF y
<1>3. IsTerminal(y) /\ y.status # "NONE"
  BY <1>2 DEF IsTerminal, Terminal
<1>4. Sound(x) => Sound(y)
  BY <1>2, <1>3 DEF Sound, Active
<1>5. Evolves(x, y) /\ IsTerminal(y)
  BY <1>1, <1>2, <1>3, <1>4 DEF Evolves
<1> QED  BY <1>5 DEF Advances, y

\* A result that is not JSON.
LEMMA GarbledAdvances ==
  ASSUME NEW x \in Record, ~IsTerminal(x), x.status # "NONE"
  PROVE  Advances(x, Garbled(x)) /\ IsTerminal(Garbled(x))
  BY DEF Advances, Evolves, Garbled, Record, Sound, IsTerminal, Active, Terminal, Codes

\* prepare clears the error code.
LEMMA PreparedAdvances ==
  ASSUME NEW x \in Record
  PROVE  Advances(x, Prepared(x))
  BY DEF Advances, Evolves, Prepared, Record, Sound, IsTerminal, Active, Terminal, Codes

\* evaluateTimeouts.
LEMMA TimeoutsAdvance ==
  ASSUME NEW x \in Record, NEW d
  PROVE  Advances(x, EvaluateTimeouts(x, d))
<1>1. /\ Advances(x, AskToWait(x, d)) /\ AskToWait(x, d).status = x.status
  BY DEF AskToWait, Advances, Evolves, Record, Sound, IsTerminal, Active, Terminal, Codes
<1>2. ASSUME NEW y \in Record, NEW code \in {"delivery", "hard"}, y.status \in Active,
             Advances(x, y), x.status \in Active, code = "hard" \/ ~y.acknowledged
      PROVE  Advances(x, TimedOut(y, code))
  <2>1. ~IsTerminal(x) /\ x.status # "NONE"
    BY <1>2 DEF IsTerminal, Active, Terminal
  <2>2. TimedOut(y, code) \in Record
    BY <1>2 DEF TimedOut, Record, Terminal, Active, Codes
  <2>3. /\ TimedOut(y, code).gen = y.gen /\ TimedOut(y, code).status = "TIMED_OUT"
        /\ TimedOut(y, code).code = code /\ TimedOut(y, code).result = y.result
        /\ TimedOut(y, code).acknowledged = y.acknowledged
        /\ TimedOut(y, code).decision = y.decision
    BY <1>2 DEF TimedOut, Record
  <2>4. Sound(y) => Sound(TimedOut(y, code))
    BY <1>2, <2>3 DEF Sound, IsTerminal, Active, Terminal
  <2> QED  BY <1>2, <2>1, <2>2, <2>3, <2>4 DEF Advances, Evolves, IsTerminal, Terminal
<1>3. CASE IsTerminal(x)
  BY <1>3, SelfAdvances DEF EvaluateTimeouts
<1>4. CASE ~IsTerminal(x) /\ AckExpired(x, d)
  BY <1>2, <1>4, SelfAdvances DEF EvaluateTimeouts, AckExpired, Active
<1>5. CASE ~IsTerminal(x) /\ ~AckExpired(x, d) /\ HardExpired(x, d)
  <2>1. AskToWait(x, d) \in Record /\ x.status \in Active
    BY <1>1, <1>5 DEF HardExpired, Advances, Evolves
  <2> QED  BY <1>1, <1>2, <1>5, <2>1 DEF EvaluateTimeouts
<1>6. CASE ~IsTerminal(x) /\ ~AckExpired(x, d) /\ ~HardExpired(x, d)
  BY <1>1, <1>6 DEF EvaluateTimeouts
<1> QED  BY <1>3, <1>4, <1>5, <1>6

\* The user's decision.
LEMMA DecisionsAdvance ==
  ASSUME NEW x \in Record, x.status # "NONE"
  PROVE  /\ Advances(x, StopWaiting(x))
         /\ Advances(x, [x EXCEPT !.decision = "continue_wait", !.confirm = FALSE])
<1>1. CASE IsTerminal(x)
  BY <1>1 DEF StopWaiting, Advances, Evolves, Record, Sound, IsTerminal, Active, Terminal, Codes,
              Decisions
<1>2. CASE ~IsTerminal(x)
  BY <1>2 DEF StopWaiting, TimedOut, Advances, Evolves, Record, Sound, IsTerminal, Active,
              Terminal, Codes, Decisions
<1>3. Advances(x, [x EXCEPT !.decision = "continue_wait", !.confirm = FALSE])
  BY DEF Advances, Evolves, Record, Sound, IsTerminal, Active, Terminal, Codes, Decisions
<1> QED  BY <1>1, <1>2, <1>3

-----------------------------------------------------------------------------
(* What a step does to the records                                         *)

\* A handler in progress is about a request, and one for POST result has a package that
\* parses.
HandlersFormed ==
  \A s \in Slots :
    /\ op[s].step # "none" => op[s].req \in Requests
    /\ op[s].step = "body" => op[s].package \in {"ok", "error", "invalid"}

\* A poll that is about to ack has the envelope it acks.
AcksHeld == \A p \in Pollers : poll[p].step = "ack" => poll[p].batch # <<>>

\* Whoever holds a record, or is about to write to one, holds one that was created: a handler
\* in progress, and the requests a run of the event sync has asked about.
HandlersKnown ==
  \A s \in Slots : op[s].step # "none" => Req(s) \in Requests /\ Exists(Req(s))
SyncKnown ==
  /\ \A h \in sync.targets : Exists(h.req)
  /\ \A x \in sync.seen : Exists(x.held.req)
  /\ sync.step \in {"each", "applyOne"} => \A h \in sync.todo : Exists(h.req)
KnownOK == HandlersKnown /\ SyncKnown

\* What may become of a record in a step: POST result alone overrides an outcome.
Written(r) ==
  \/ Advances(rec[r], rec'[r])
  \/ Evolves(rec[r], rec'[r]) /\ PushesResult(r)
  \/ rec'[r] = FreshRecord(rec[r].gen + 1)

\* The records move forward or are created anew.
RecordsWritten == rec' \in [Requests -> Record] /\ \A r \in Requests : Written(r)

\* The snapshot stays, or is what the memory is after the step.
Saved == disk' = disk \/ disk' = rec'

\* The memory is what the snapshot says.
Restarted == rec' = disk /\ disk' = disk

\* One record is replaced.
LEMMA ReplaceWrites ==
  ASSUME rec \in [Requests -> Record], NEW r \in Requests, NEW x, Replace(r, x),
         Advances(rec[r], x) \/ (Evolves(rec[r], x) /\ PushesResult(r))
  PROVE  RecordsWritten
<1>1. x \in Record
  BY DEF Evolves, Advances
<1>2. rec' \in [Requests -> Record] /\ rec'[r] = x
  BY <1>1 DEF Replace
<1>3. ASSUME NEW q \in Requests, q # r PROVE Advances(rec[q], rec'[q])
  <2>1. rec'[q] = rec[q] /\ rec[q] \in Record
    BY <1>3 DEF Replace
  <2> QED  BY <2>1, SelfAdvances
<1> QED  BY <1>2, <1>3 DEF RecordsWritten, Written

\* No record is.
LEMMA UnchangedWrites ==
  ASSUME rec \in [Requests -> Record], rec' = rec
  PROVE  RecordsWritten
  BY SelfAdvances DEF RecordsWritten, Written

\* createRequestRecord.
LEMMA CreateWrites ==
  ASSUME rec \in [Requests -> Record], NEW r \in Requests, Create(r)
  PROVE  RecordsWritten
<1>1. rec[r].gen \in Nat /\ rec[r].gen + 1 \in Nat \ {0}
  BY DEF Record
<1>2. FreshRecord(rec[r].gen + 1) \in Record
  BY <1>1, FreshSound
<1>3. rec' \in [Requests -> Record]
  BY <1>2 DEF Create, Replace
<1>4. ASSUME NEW q \in Requests PROVE Written(q)
  BY SelfAdvances DEF Create, Replace, Written
<1> QED  BY <1>3, <1>4 DEF RecordsWritten

\* A handler writes to the record it holds, or to one nobody reads.
LEMMA HandlerWrites ==
  ASSUME rec \in [Requests -> Record], NEW s \in Slots, NEW x, Write(s, x),
         Req(s) \in Requests =>
           Advances(rec[Req(s)], x) \/ (Evolves(rec[Req(s)], x) /\ PushesResult(Req(s)))
  PROVE  RecordsWritten
<1>1. CASE Holds(s) /\ Req(s) \in Requests
  BY <1>1, ReplaceWrites DEF Write
<1>2. CASE Holds(s) /\ Req(s) \notin Requests
  BY <1>2, UnchangedWrites DEF Write, Replace
<1>3. CASE ~Holds(s)
  BY <1>3, UnchangedWrites DEF Write
<1> QED  BY <1>1, <1>2, <1>3

\* A poll that has an envelope has a well-formed one.
LEMMA EnvelopeType ==
  ASSUME poll \in [Pollers -> PollRun], NEW p \in Pollers, poll[p].batch # <<>>
  PROVE  /\ Envelope(p) \in Envelopes /\ Envelope(p).req \in Requests
         /\ Tail(poll[p].batch) \in Seq(Envelopes)
<1>1. poll[p].batch \in Seq(Envelopes) /\ poll[p].batch # <<>>
  BY DEF PollRun
<1>2. Envelope(p) \in Envelopes /\ Tail(poll[p].batch) \in Seq(Envelopes)
  BY <1>1, HeadTailProperties DEF Envelope
<1> QED  BY <1>2 DEF Envelopes

\* Every step but a crash writes the records forward and saves them or not.
LEMMA RecordsStep ==
  ASSUME TypeOK, HandlersFormed, KnownOK, Next
  PROVE  (RecordsWritten /\ Saved) \/ (Restarted /\ Crash)
<1> USE DEF TypeOK
<1>1. ASSUME NEW r \in Requests, Handlers(r) PROVE RecordsWritten /\ Saved
  <2> rec[r] \in Record
    OBVIOUS
  <2>1. CASE CreateRequest(r)
    BY <2>1, CreateWrites DEF CreateRequest, Save, Saved
  <2>2. CASE GetRequest(r)
    BY <2>2, TimeoutsAdvance, ReplaceWrites DEF GetRequest, Saved
  <2>3. CASE MarkSent(r)
    BY <2>3, SentAdvances, ReplaceWrites DEF MarkSent, Save, Saved, Exists
  <2>4. CASE Ack(r)
    BY <2>4, AckedAdvances, ReplaceWrites, UnchangedWrites DEF Ack, Saved, Exists
  <2>5. CASE DecideStop(r)
    BY <2>5, DecisionsAdvance, ReplaceWrites DEF DecideStop, Saved, Exists
  <2>6. CASE DecideContinue(r)
    BY <2>6, DecisionsAdvance, ReplaceWrites DEF DecideContinue, Save, Saved, Exists
  <2> QED  BY <1>1, <2>1, <2>2, <2>3, <2>4, <2>5, <2>6 DEF Handlers
<1>2. ASSUME NEW r \in Requests, World(r) PROVE RecordsWritten /\ Saved
  BY <1>2, UnchangedWrites DEF World, PlatformAcks, DeliverResult, Tick, stateVars, Saved
<1>3. ASSUME NEW s \in Slots, NEW r \in Requests, StartHandler(s, r) PROVE RecordsWritten /\ Saved
  <2>1. CASE StartRemoteRequest(s, r)
    BY <2>1, CreateWrites DEF StartRemoteRequest, Saved
  <2>2. CASE StartPrepare(s, r)
    BY <2>2, UnchangedWrites DEF StartPrepare, Saved
  <2>3. CASE StartDispatch(s, r)
    BY <2>3, UnchangedWrites DEF StartDispatch, stateVars, Saved
  <2>4. CASE StartSyncEvents(s, r)
    BY <2>4, UnchangedWrites DEF StartSyncEvents, stateVars, Saved
  <2>5. CASE \E package \in Packages \ {"garbled", "blank"} : StartPushResult(s, r, package)
    BY <2>5, UnchangedWrites DEF StartPushResult, stateVars, Saved
  <2> QED  BY <1>3, <2>1, <2>2, <2>3, <2>4, <2>5 DEF StartHandler
<1>4. ASSUME NEW s \in Slots, HandlerStep(s) PROVE RecordsWritten /\ Saved
  <2> DEFINE x == rec[Req(s)]
  <2>0. op[s].step # "none" => Req(s) \in Requests /\ x \in Record /\ x.status # "NONE"
    BY DEF KnownOK, HandlersKnown, Exists
  <2>a. At(s, "meta") \/ At(s, "sent") \/ At(s, "apply") \/ At(s, "body") => op[s].step # "none"
    BY DEF At
  <2>1. CASE ReceiveToken(s)
    BY <2>1, UnchangedWrites DEF ReceiveToken, stateVars, Saved
  <2>2. CASE RefuseDeliveryMeta(s)
    BY <2>2, UnchangedWrites DEF RefuseDeliveryMeta, stateVars, Saved
  <2>3. CASE FinishPrepare(s)
    BY <2>0, <2>a, <2>3, PreparedAdvances, HandlerWrites DEF FinishPrepare, Save, Saved
  <2>4. CASE SendPrepared(s)
    BY <2>0, <2>a, <2>4, PreparedAdvances, HandlerWrites DEF SendPrepared, Saved
  <2>5. CASE FinishSend(s)
    BY <2>0, <2>a, <2>5, SentAdvances, HandlerWrites DEF FinishSend, Saved
  <2>6. CASE AnswerEvents(s)
    BY <2>6, UnchangedWrites DEF AnswerEvents, stateVars, Saved
  <2>7. CASE ApplyAnswer(s)
    BY <2>0, <2>a, <2>7, EventsAdvance, HandlerWrites DEF ApplyAnswer, Save, Saved
  <2>8. CASE PushResult(s)
    <3>1. op[s].package \in {"ok", "error", "invalid"} /\ PushesResult(Req(s))
      BY <2>8 DEF PushResult, HandlersFormed, At, PushesResult, End
    <3>2. Evolves(x, ApplyResult(x, op[s].package))
      BY <2>0, <2>a, <2>8, <3>1, ResultEvolves DEF PushResult
    <3> QED  BY <2>8, <3>1, <3>2, HandlerWrites DEF PushResult, Saved
  <2> QED  BY <1>4, <2>1, <2>2, <2>3, <2>4, <2>5, <2>6, <2>7, <2>8 DEF HandlerStep
<1>5. ASSUME FinishTail PROVE RecordsWritten /\ Saved
  BY <1>5, UnchangedWrites DEF FinishTail, stateVars, Saved
<1>6. ASSUME NEW p \in Pollers, PollStep(p) PROVE RecordsWritten /\ Saved
  <2>1. CASE PollInbox(p)
    BY <2>1, UnchangedWrites DEF PollInbox, stateVars, Saved
  <2>2. CASE SkipEnvelope(p)
    BY <2>2, UnchangedWrites DEF SkipEnvelope, stateVars, Saved
  <2>3. CASE HandleGarbled(p)
    <3>1. Envelope(p).req \in Requests
      BY <2>3, EnvelopeType DEF HandleGarbled, HasEnvelope
    <3> QED  BY <3>1, <2>3, GarbledAdvances, ReplaceWrites, UnchangedWrites
             DEF HandleGarbled, Exists, Saved
  <2>4. CASE ApplyEnvelope(p)
    <3>1. Envelope(p).req \in Requests
      BY <2>4, EnvelopeType DEF ApplyEnvelope, Carries, HasEnvelope
    <3> QED  BY <3>1, <2>4, ResultEvolves, ReplaceWrites
             DEF ApplyEnvelope, Carries, Exists, Saved
  <2>5. CASE AckApplied(p)
    BY <2>5, UnchangedWrites DEF AckApplied, stateVars, Saved
  <2>6. CASE AckLateResult(p)
    BY <2>6, UnchangedWrites DEF AckLateResult, stateVars, Saved
  <2>7. CASE EndPoll(p)
    BY <2>7, UnchangedWrites DEF EndPoll, stateVars, Saved
  <2> QED  BY <1>6, <2>1, <2>2, <2>3, <2>4, <2>5, <2>6, <2>7 DEF PollStep
<1>7. ASSUME SyncStep PROVE RecordsWritten /\ Saved
  <2>0. ASSUME NEW x \in sync.seen, ApplySeen(x) PROVE RecordsWritten
    <3>1. x.held.req \in Requests
      BY <2>0 DEF SyncRun, HeldRecord
    <3>2. rec[x.held.req] \in Record /\ rec[x.held.req].status # "NONE"
      BY <3>1, <2>0 DEF KnownOK, SyncKnown, Exists
    <3> QED  BY <2>0, <3>1, <3>2, EventsAdvance, ReplaceWrites, UnchangedWrites DEF ApplySeen
  <2>1. CASE StartSync
    BY <2>1, UnchangedWrites DEF StartSync, stateVars, Saved
  <2>2. CASE AnswerBatch
    BY <2>2, UnchangedWrites DEF AnswerBatch, stateVars, Saved
  <2>3. CASE ApplyBatch
    BY <2>0, <2>3 DEF ApplyBatch, Saved
  <2>4. CASE FetchOne
    BY <2>4, UnchangedWrites DEF FetchOne, stateVars, Saved
  <2>5. CASE ApplyOne
    BY <2>0, <2>5 DEF ApplyOne, Saved
  <2>6. CASE AllFetched
    BY <2>6, UnchangedWrites DEF AllFetched, stateVars, Saved
  <2>7. CASE EvaluateOne
    <3>1. PICK h \in sync.todo :
            Replace(h.req, IF Exists(h.req) THEN EvaluateTimeouts(rec[h.req], due[h.req])
                           ELSE rec[h.req])
      BY <2>7 DEF EvaluateOne
    <3>2. h.req \in Requests
      BY DEF SyncRun, HeldRecord
    <3>3. rec[h.req] \in Record
      BY <3>2
    <3>4. RecordsWritten
      BY <3>1, <3>2, <3>3, TimeoutsAdvance, SelfAdvances, ReplaceWrites
    <3> QED  BY <2>7, <3>4 DEF EvaluateOne, Saved
  <2>8. CASE EndSync
    BY <2>8, UnchangedWrites DEF EndSync, stateVars, Saved
  <2> QED  BY <1>7, <2>1, <2>2, <2>3, <2>4, <2>5, <2>6, <2>7, <2>8 DEF SyncStep
<1>8. ASSUME Crash PROVE Restarted /\ Crash
  BY <1>8 DEF Crash, Restarted
<1> QED  BY <1>1, <1>2, <1>3, <1>4, <1>5, <1>6, <1>7, <1>8 DEF Next

-----------------------------------------------------------------------------
(* Type correctness                                                        *)

\* Taking a message out leaves a queue of such messages.
LEMMA RemoveType ==
  ASSUME NEW S, mailbox \in Seq(S), NEW m
  PROVE  RemoveMessage(m) \in Seq(S)
<1> DEFINE i == CHOOSE j \in DOMAIN mailbox : mailbox[j] = m
           a == SubSeq(mailbox, 1, i - 1)
           b == SubSeq(mailbox, i + 1, Len(mailbox))
<1>1. CASE \E j \in DOMAIN mailbox : mailbox[j] = m
  <2>1. i \in 1..Len(mailbox) /\ Len(mailbox) \in Nat
    BY <1>1
  <2> HIDE DEF i
  <2>2. a \in Seq(S) /\ b \in Seq(S)
    <3>1. \A j \in 1..Len(mailbox) : mailbox[j] \in S
      BY ElementOfSeq
    <3> QED  BY <2>1, <3>1, SubSeqProperties
  <2> HIDE DEF a, b
  <2>3. a \o b \in Seq(S)
    BY <2>2, ConcatProperties
  <2> QED  BY <1>1, <2>3 DEF RemoveMessage, a, b, i
<1>2. CASE ~\E j \in DOMAIN mailbox : mailbox[j] = m
  BY <1>2 DEF RemoveMessage
<1> QED  BY <1>1, <1>2

\* What a poll returns is a queue of such messages.
LEMMA BatchType ==
  ASSUME NEW S, mailbox \in Seq(S)
  PROVE  SubSeq(mailbox, 1, IF Limit < Len(mailbox) THEN Limit ELSE Len(mailbox)) \in Seq(S)
<1> DEFINE n == IF Limit < Len(mailbox) THEN Limit ELSE Len(mailbox)
<1>1. n \in Nat /\ n <= Len(mailbox) /\ Len(mailbox) \in Nat
  BY BuyerAssumption
<1>2. \A j \in 1..n : mailbox[j] \in S
  BY <1>1, ElementOfSeq
<1> HIDE DEF n
<1>3. SubSeq(mailbox, 1, n) \in Seq(S)
  BY <1>1, <1>2, SubSeqProperties
<1> QED  BY <1>3 DEF n

\* The types hold at first.
LEMMA InitTypes == Init => TypeOK /\ HandlersFormed /\ AcksHeld /\ KnownOK
<1> SUFFICES ASSUME Init PROVE TypeOK /\ HandlersFormed /\ AcksHeld /\ KnownOK
  OBVIOUS
<1>1. rec \in [Requests -> Record] /\ disk \in [Requests -> Record]
  BY NoRecordSound DEF Init
<1>2. Idle \in Handler /\ PollIdle \in PollRun /\ SyncIdle \in SyncRun
  BY DEF Idle, Handler, PollIdle, PollRun, SyncIdle, SyncRun, PackageKinds
<1>3. 0 \in 0..MaxTails /\ 0 \in 0..MaxMessages /\ 0 \in 0..MaxSends
  BY BuyerAssumption
<1>4. HandlersFormed /\ AcksHeld
  BY DEF Init, HandlersFormed, AcksHeld, Idle, PollIdle
<1>5. KnownOK
  BY DEF Init, KnownOK, HandlersKnown, SyncKnown, Idle, SyncIdle
<1> QED  BY <1>1, <1>2, <1>3, <1>4, <1>5 DEF Init, TypeOK

\* The conjuncts of TypeOK that are not about records, and HandlersFormed.
OthersTyped ==
  /\ due \in [Requests -> SUBSET Deadlines]
  /\ auth \in SUBSET Requests
  /\ op \in [Slots -> Handler] /\ HandlersFormed /\ AcksHeld
  /\ tails \in 0..MaxTails
  /\ poll \in [Pollers -> PollRun]
  /\ sync \in SyncRun
  /\ mailbox \in Seq(Envelopes) /\ delivered \in 0..MaxMessages
  /\ events \in [Requests -> SUBSET Events]
  /\ sends \in [Requests -> 0..MaxSends]
  /\ consumed \in SUBSET Requests
  /\ faults \in Nat /\ crashes \in Nat

\* A call that may fail.
LEMMA AttemptType ==
  ASSUME faults \in Nat, NEW c, NEW o, Attempt(c, o)
  PROVE  faults' \in Nat
  BY DEF Attempt

\* A handler that waits for its last call.
LEMMA TailType ==
  ASSUME tails \in 0..MaxTails, AwaitTail
  PROVE  tails' \in 0..MaxTails
  BY BuyerAssumption DEF AwaitTail

\* The handlers that start and end, and those that move on.
LEMMA HandlerTypes ==
  ASSUME op \in [Slots -> Handler], HandlersFormed, NEW s \in Slots
  PROVE  /\ End(s) => op' \in [Slots -> Handler] /\ HandlersFormed'
         /\ \A step \in {"meta", "sent"} :
              op[s].step # "none" /\ Step(s, step) => op' \in [Slots -> Handler] /\ HandlersFormed'
         /\ \A kind \in OpKinds, r \in Requests, gen \in Nat, step \in {"token", "sent", "events"} :
              Begin(s, kind, r, gen, step) => op' \in [Slots -> Handler] /\ HandlersFormed'
<1>1. ASSUME NEW h \in Handler, op' = [op EXCEPT ![s] = h],
             h.step # "none" => h.req \in Requests,
             h.step = "body" => h.package \in {"ok", "error", "invalid"}
      PROVE  op' \in [Slots -> Handler] /\ HandlersFormed'
  BY <1>1 DEF HandlersFormed
<1>2. Idle \in Handler /\ Idle.step = "none"
  BY DEF Idle, Handler
<1>3. ASSUME NEW step \in {"meta", "sent"}, op[s].step # "none", Step(s, step)
      PROVE  op' \in [Slots -> Handler] /\ HandlersFormed'
  <2> DEFINE h == [op[s] EXCEPT !.step = step]
  <2>1. h \in Handler /\ h.step # "body" /\ op' = [op EXCEPT ![s] = h] /\ h.req \in Requests
    BY <1>3 DEF Handler, Step, HandlersFormed
  <2> QED  BY <2>1, <1>1
<1>4. ASSUME NEW kind \in OpKinds, NEW r \in Requests, NEW gen \in Nat,
             NEW step \in {"token", "sent", "events"}, Begin(s, kind, r, gen, step)
      PROVE  op' \in [Slots -> Handler] /\ HandlersFormed'
  <2> DEFINE h == [Idle EXCEPT !.kind = kind, !.req = r, !.gen = gen, !.step = step]
  <2>1. h \in Handler /\ h.step # "body" /\ h.req = r
    BY DEF Idle, Handler
  <2>2. op' = [op EXCEPT ![s] = h]
    BY <1>4 DEF Begin
  <2> QED  BY <2>1, <2>2, <1>1
<1> QED  BY <1>1, <1>2, <1>3, <1>4 DEF End

\* A poll that moves on, and one that is aborted.
LEMMA PollTypes ==
  ASSUME poll \in [Pollers -> PollRun], AcksHeld, NEW p \in Pollers
  PROVE  /\ \A h \in PollRun :
              poll' = [poll EXCEPT ![p] = h] /\ (h.step = "ack" => h.batch # <<>>)
                => poll' \in [Pollers -> PollRun] /\ AcksHeld'
         /\ AbortPoll(p) => poll' \in [Pollers -> PollRun] /\ AcksHeld'
         /\ \A mutated \in BOOLEAN :
              poll[p].batch # <<>> /\ NextEnvelope(p, mutated)
                => poll' \in [Pollers -> PollRun] /\ AcksHeld'
<1>1. ASSUME NEW h \in PollRun, poll' = [poll EXCEPT ![p] = h], h.step = "ack" => h.batch # <<>>
      PROVE  poll' \in [Pollers -> PollRun] /\ AcksHeld'
  BY <1>1 DEF AcksHeld
<1>2. PollIdle \in PollRun /\ PollIdle.step = "idle"
  BY DEF PollIdle, PollRun
<1>3. ASSUME NEW mutated \in BOOLEAN, poll[p].batch # <<>>, NextEnvelope(p, mutated)
      PROVE  poll' \in [Pollers -> PollRun] /\ AcksHeld'
  <2> DEFINE h == [step |-> "next", batch |-> Tail(poll[p].batch), mutated |-> mutated]
  <2>1. h \in PollRun /\ h.step = "next"
    BY <1>3, EnvelopeType DEF PollRun
  <2>2. poll' = [poll EXCEPT ![p] = h]
    BY <1>3 DEF NextEnvelope
  <2> QED  BY <2>1, <2>2, <1>1
<1> QED  BY <1>1, <1>2, <1>3 DEF AbortPoll

\* A poll that acknowledges an envelope.
LEMMA AckTypes ==
  ASSUME poll \in [Pollers -> PollRun], AcksHeld, mailbox \in Seq(Envelopes),
         consumed \in SUBSET Requests, faults \in Nat,
         NEW p \in Pollers, NEW mutated \in BOOLEAN, poll[p].batch # <<>>, AckEnvelope(p, mutated)
  PROVE  /\ poll' \in [Pollers -> PollRun] /\ AcksHeld'
         /\ mailbox' \in Seq(Envelopes) /\ consumed' \in SUBSET Requests /\ faults' \in Nat
<1>1. mailbox' \in Seq(Envelopes)
  BY RemoveType DEF AckEnvelope
<1>2. consumed' \in SUBSET Requests
  BY EnvelopeType DEF AckEnvelope
<1>3. faults' \in Nat
  BY AttemptType DEF AckEnvelope
<1>4. poll' \in [Pollers -> PollRun] /\ AcksHeld'
  BY PollTypes DEF AckEnvelope
<1> QED  BY <1>1, <1>2, <1>3, <1>4

\* The batch sync.
LEMMA SyncTypes ==
  ASSUME TypeOK, SyncStep
  PROVE  sync' \in SyncRun
<1> USE DEF TypeOK
<1>1. SyncIdle \in SyncRun
  BY DEF SyncIdle, SyncRun
<1>2. ASSUME NEW r \in Requests PROVE Held(r) \in HeldRecord
  BY DEF Held, HeldRecord, Record
<1>3. ASSUME NEW mutated \in BOOLEAN, EvaluateAll(mutated) PROVE sync' \in SyncRun
  <2> DEFINE all == {Held(r) : r \in Requests}
  <2>1. all \in SUBSET HeldRecord
    BY <1>2
  <2> HIDE DEF all
  <2>2. sync' = [SyncIdle EXCEPT !.step = "timeouts", !.todo = all, !.mutated = mutated]
    BY <1>3 DEF EvaluateAll, all
  <2> QED  BY <2>1, <2>2 DEF SyncIdle, SyncRun
<1>4. CASE StartSync
  <2>1. SyncTargets \in SUBSET HeldRecord
    BY <1>2 DEF SyncTargets
  <2>2. CASE sync' = [SyncIdle EXCEPT !.step = "batch", !.targets = SyncTargets]
    BY <2>1, <2>2 DEF SyncIdle, SyncRun
  <2> QED  BY <1>3, <1>4, <2>2 DEF StartSync
<1>5. ASSUME NEW h \in HeldRecord
      PROVE  Seen(h) \in [held : HeldRecord, events : SUBSET Events]
  BY DEF Seen, HeldRecord
<1>6. CASE AnswerBatch
  <2> DEFINE seen == {Seen(h) : h \in {g \in sync.targets : events[g.req] # {}}}
  <2>1. seen \in SUBSET [held : HeldRecord, events : SUBSET Events]
    BY <1>5 DEF SyncRun
  <2> HIDE DEF seen
  <2>2. CASE sync' = [sync EXCEPT !.step = "apply", !.seen = seen]
    BY <2>1, <2>2 DEF SyncRun
  <2>3. CASE sync' = [sync EXCEPT !.step = "each", !.todo = sync.targets]
    BY <2>3 DEF SyncRun
  <2> QED  BY <1>6, <2>2, <2>3 DEF AnswerBatch, seen
<1>7. CASE ApplyBatch
  <2>1. PICK x \in sync.seen :
          \/ sync' = [sync EXCEPT !.seen = @ \ {x}, !.mutated = TRUE]
          \/ sync' = [sync EXCEPT !.step = "each", !.todo = sync.targets, !.seen = {}]
    BY <1>7 DEF ApplyBatch
  <2>2. sync.seen \ {x} \in SUBSET [held : HeldRecord, events : SUBSET Events]
    BY DEF SyncRun
  <2> QED  BY <2>1, <2>2 DEF SyncRun
<1>8. CASE FetchOne
  <2>1. PICK h \in sync.todo :
          \/ sync' = [sync EXCEPT !.step = "applyOne", !.todo = @ \ {h}, !.seen = {Seen(h)}]
          \/ sync' = [sync EXCEPT !.todo = @ \ {h}]
    BY <1>8 DEF FetchOne
  <2>2. h \in HeldRecord
    BY DEF SyncRun
  <2>3. {Seen(h)} \in SUBSET [held : HeldRecord, events : SUBSET Events]
    BY <2>2, <1>5
  <2> QED  BY <2>1, <2>3 DEF SyncRun
<1>9. CASE ApplyOne
  BY <1>9 DEF ApplyOne, SyncRun
<1>10. CASE AllFetched
  BY <1>3, <1>10 DEF AllFetched, SyncRun
<1>11. CASE EvaluateOne
  <2>1. PICK h \in sync.todo :
          \/ \E late \in BOOLEAN : sync' = [sync EXCEPT !.todo = @ \ {h}, !.mutated = @ \/ late]
          \/ sync' = SyncIdle
    <3> DEFINE Late(h) == TimesOut(rec[h.req], due[h.req])
    <3>1. \A h \in sync.todo : Late(h) \in BOOLEAN
      BY DEF TimesOut
    <3>2. PICK h \in sync.todo :
            sync' \in {[sync EXCEPT !.todo = @ \ {h}, !.mutated = @ \/ Late(h)], SyncIdle}
      BY <1>11 DEF EvaluateOne
    <3> HIDE DEF Late
    <3> QED  BY <3>1, <3>2
  <2>2. sync.todo \ {h} \in SUBSET HeldRecord
    BY DEF SyncRun
  <2> QED  BY <1>1, <2>1, <2>2 DEF SyncRun
<1>12. CASE EndSync
  BY <1>1, <1>12 DEF EndSync
<1> QED  BY <1>4, <1>6, <1>7, <1>8, <1>9, <1>10, <1>11, <1>12 DEF SyncStep

\* The variables other than the records keep their types in every step.
LEMMA OthersStep ==
  ASSUME TypeOK, HandlersFormed, AcksHeld, Next
  PROVE  OthersTyped'
<1> USE DEF TypeOK
<1>a. op' = op => HandlersFormed'
  BY DEF HandlersFormed
<1>b. poll' = poll => AcksHeld'
  BY DEF AcksHeld
<1>1. ASSUME NEW r \in Requests, Handlers(r) PROVE OthersTyped'
  <2> UNCHANGED <<op, poll, sync, netVars, faults, crashes, auth>>
    BY <1>1 DEF Handlers, CreateRequest, GetRequest, MarkSent, Ack, DecideStop, DecideContinue
  <2>1. tails' \in 0..MaxTails
    BY <1>1, TailType DEF Handlers, CreateRequest, GetRequest, MarkSent, Ack, DecideStop, DecideContinue
  <2>2. due' \in [Requests -> SUBSET Deadlines]
    BY <1>1 DEF Handlers, CreateRequest, Create, GetRequest, MarkSent, Ack, DecideStop, DecideContinue
  <2> QED  BY <1>a, <1>b, <2>1, <2>2 DEF OthersTyped, netVars
<1>2. ASSUME NEW r \in Requests, World(r) PROVE OthersTyped'
  <2>1. CASE PlatformAcks(r)
    BY <1>a, <1>b, <2>1 DEF PlatformAcks, OthersTyped, stateVars, Events
  <2>2. CASE \E package \in Packages : DeliverResult(r, package)
    <3>1. PICK package \in Packages : DeliverResult(r, package)
      BY <2>2
    <3>2. [id |-> delivered + 1, req |-> r, package |-> package] \in Envelopes
      BY BuyerAssumption DEF Envelopes
    <3>3. mailbox' \in Seq(Envelopes)
      BY <3>1, <3>2, AppendProperties DEF DeliverResult
    <3>4. delivered' \in 0..MaxMessages
      BY <3>1, BuyerAssumption DEF DeliverResult
    <3> QED  BY <1>a, <1>b, <3>1, <3>3, <3>4 DEF DeliverResult, OthersTyped, stateVars
  <2>3. CASE \E d \in Deadlines : Tick(r, d)
    BY <1>a, <1>b, <2>3 DEF Tick, OthersTyped, netVars
  <2> QED  BY <1>2, <2>1, <2>2, <2>3 DEF World
<1>3. ASSUME NEW s \in Slots, NEW r \in Requests, StartHandler(s, r) PROVE OthersTyped'
  <2>0. rec[r].gen \in Nat /\ rec[r].gen + 1 \in Nat
    BY DEF Record
  <2>1. CASE StartRemoteRequest(s, r)
    <3>1. op' \in [Slots -> Handler] /\ HandlersFormed'
      BY <2>0, <2>1, HandlerTypes DEF StartRemoteRequest, OpKinds
    <3>2. due' \in [Requests -> SUBSET Deadlines] /\ auth' \in SUBSET Requests
      BY <2>1 DEF StartRemoteRequest, Create
    <3> QED  BY <1>a, <1>b, <2>1, <3>1, <3>2 DEF StartRemoteRequest, OthersTyped, netVars
  <2>2. CASE StartPrepare(s, r)
    <3>1. op' \in [Slots -> Handler] /\ HandlersFormed'
      BY <2>0, <2>2, HandlerTypes DEF StartPrepare, OpKinds
    <3> QED  BY <1>a, <1>b, <2>2, <3>1 DEF StartPrepare, OthersTyped, netVars
  <2>3. CASE StartDispatch(s, r)
    <3>1. op' \in [Slots -> Handler] /\ HandlersFormed'
      BY <2>0, <2>3, HandlerTypes DEF StartDispatch, OpKinds, HandlersFormed
    <3>2. faults' \in Nat /\ sends' \in [Requests -> 0..MaxSends]
      BY <2>3, AttemptType, BuyerAssumption DEF StartDispatch, SendEnvelope
    <3> QED  BY <1>a, <1>b, <2>3, <3>1, <3>2 DEF StartDispatch, OthersTyped, stateVars
  <2>4. CASE StartSyncEvents(s, r)
    <3>1. op' \in [Slots -> Handler] /\ HandlersFormed'
      BY <2>0, <2>4, HandlerTypes DEF StartSyncEvents, OpKinds
    <3> QED  BY <1>a, <1>b, <2>4, <3>1 DEF StartSyncEvents, OthersTyped, netVars, stateVars
  <2>5. CASE \E package \in Packages \ {"garbled", "blank"} : StartPushResult(s, r, package)
    <3>1. PICK package \in Packages \ {"garbled", "blank"} : StartPushResult(s, r, package)
      BY <2>5
    <3> DEFINE h == [Idle EXCEPT !.kind = "push", !.req = r, !.gen = rec[r].gen,
                                 !.step = "body", !.package = package]
    <3>2. package \in {"ok", "error", "invalid"}
      BY BuyerAssumption DEF PackageKinds
    <3>3. h \in Handler /\ h.package = package /\ h.req = r
      BY <2>0, <3>2 DEF Idle, Handler, OpKinds, PackageKinds
    <3>4. op' = [op EXCEPT ![s] = h]
      BY <3>1 DEF StartPushResult
    <3> HIDE DEF h
    <3>5. op' \in [Slots -> Handler] /\ HandlersFormed'
      BY <3>2, <3>3, <3>4 DEF HandlersFormed
    <3> QED  BY <1>a, <1>b, <3>1, <3>5 DEF StartPushResult, OthersTyped, netVars, stateVars
  <2> QED  BY <1>3, <2>1, <2>2, <2>3, <2>4, <2>5 DEF StartHandler
<1>4. ASSUME NEW s \in Slots, HandlerStep(s) PROVE OthersTyped'
  <2>1. CASE ReceiveToken(s)
    <3>1. op' \in [Slots -> Handler] /\ HandlersFormed'
      BY <2>1, HandlerTypes DEF ReceiveToken, At
    <3>2. faults' \in Nat /\ events' \in [Requests -> SUBSET Events]
      BY <2>1, AttemptType DEF ReceiveToken, Events
    <3> QED  BY <1>a, <1>b, <2>1, <3>1, <3>2 DEF ReceiveToken, OthersTyped, stateVars
  <2>2. CASE RefuseDeliveryMeta(s)
    <3>1. op' \in [Slots -> Handler] /\ HandlersFormed'
      BY <2>2, HandlerTypes DEF RefuseDeliveryMeta
    <3>2. faults' \in Nat
      BY <2>2, AttemptType DEF RefuseDeliveryMeta
    <3> QED  BY <1>a, <1>b, <2>2, <3>1, <3>2 DEF RefuseDeliveryMeta, OthersTyped, stateVars, netVars
  <2>3. CASE FinishPrepare(s)
    <3>1. op' \in [Slots -> Handler] /\ HandlersFormed'
      BY <2>3, HandlerTypes DEF FinishPrepare
    <3> QED  BY <1>a, <1>b, <2>3, <3>1 DEF FinishPrepare, OthersTyped, netVars
  <2>4. CASE SendPrepared(s)
    <3>1. op' \in [Slots -> Handler] /\ HandlersFormed'
      BY <2>4, HandlerTypes DEF SendPrepared, At
    <3>2. Req(s) \in Requests
      BY <2>4 DEF SendPrepared, At, Req, HandlersFormed
    <3>3. faults' \in Nat /\ sends' \in [Requests -> 0..MaxSends]
      BY <2>4, <3>2, AttemptType, BuyerAssumption DEF SendPrepared, SendEnvelope
    <3> QED  BY <1>a, <1>b, <2>4, <3>1, <3>3 DEF SendPrepared, OthersTyped
  <2>5. CASE FinishSend(s)
    <3>1. op' \in [Slots -> Handler] /\ HandlersFormed'
      BY <2>5, HandlerTypes DEF FinishSend
    <3>2. due' \in [Requests -> SUBSET Deadlines]
      BY <2>5 DEF FinishSend
    <3> QED  BY <1>a, <1>b, <2>5, <3>1, <3>2, TailType DEF FinishSend, OthersTyped, netVars
  <2>6. CASE AnswerEvents(s)
    <3>1. Req(s) \in Requests /\ events[Req(s)] \in SUBSET Events
      BY <2>6 DEF AnswerEvents, At, Req, HandlersFormed
    <3> DEFINE h == [op[s] EXCEPT !.step = "apply", !.seen = events[Req(s)]]
    <3>2. ASSUME op' = [op EXCEPT ![s] = h] PROVE op' \in [Slots -> Handler] /\ HandlersFormed'
      <4>1. h \in Handler /\ h.step # "body" /\ h.req = Req(s)
        BY <3>1 DEF Handler, Req
      <4> HIDE DEF h
      <4> QED  BY <3>1, <3>2, <4>1 DEF HandlersFormed
    <3>3. op' = [op EXCEPT ![s] = h] \/ End(s)
      BY <2>6 DEF AnswerEvents
    <3>4. op' \in [Slots -> Handler] /\ HandlersFormed'
      BY <3>2, <3>3, HandlerTypes
    <3>5. faults' \in Nat
      BY <2>6, AttemptType DEF AnswerEvents
    <3> QED  BY <1>a, <1>b, <2>6, <3>4, <3>5 DEF AnswerEvents, OthersTyped, stateVars, netVars
  <2>7. CASE ApplyAnswer(s)
    <3>1. op' \in [Slots -> Handler] /\ HandlersFormed'
      BY <2>7, HandlerTypes DEF ApplyAnswer
    <3> QED  BY <1>a, <1>b, <2>7, <3>1, TailType DEF ApplyAnswer, OthersTyped, netVars
  <2>8. CASE PushResult(s)
    <3>1. op' \in [Slots -> Handler] /\ HandlersFormed'
      BY <2>8, HandlerTypes DEF PushResult
    <3> QED  BY <1>a, <1>b, <2>8, <3>1, TailType DEF PushResult, OthersTyped, netVars
  <2> QED  BY <1>4, <2>1, <2>2, <2>3, <2>4, <2>5, <2>6, <2>7, <2>8 DEF HandlerStep
<1>5. ASSUME FinishTail PROVE OthersTyped'
  <2>1. faults' \in Nat /\ tails' \in 0..MaxTails
    BY <1>5, AttemptType, BuyerAssumption DEF FinishTail
  <2> QED  BY <1>a, <1>b, <1>5, <2>1 DEF FinishTail, OthersTyped, stateVars, netVars
<1>6. ASSUME NEW p \in Pollers, PollStep(p) PROVE OthersTyped'
  <2>1. CASE PollInbox(p)
    <3> DEFINE b == SubSeq(mailbox, 1, IF Limit < Len(mailbox) THEN Limit ELSE Len(mailbox))
    <3>1. b \in Seq(Envelopes)
      BY BatchType
    <3> HIDE DEF b
    <3>2. [step |-> "next", mutated |-> FALSE, batch |-> b] \in PollRun
      BY <3>1 DEF PollRun
    <3>3. poll' \in [Pollers -> PollRun] /\ AcksHeld'
      BY <2>1, <3>2, PollTypes DEF PollInbox, b
    <3> QED  BY <1>a, <1>b, <2>1, <3>3 DEF PollInbox, OthersTyped, stateVars, netVars
  <2>2. CASE SkipEnvelope(p)
    <3>1. poll[p].mutated \in BOOLEAN /\ poll[p].batch # <<>>
      BY <2>2 DEF SkipEnvelope, HasEnvelope, PollRun
    <3>2. poll' \in [Pollers -> PollRun] /\ AcksHeld'
      BY <2>2, <3>1, PollTypes DEF SkipEnvelope
    <3> QED  BY <1>a, <1>b, <2>2, <3>2 DEF SkipEnvelope, OthersTyped, stateVars, netVars
  <2>3. CASE HandleGarbled(p)
    <3>1. \E mutated \in BOOLEAN : AckEnvelope(p, mutated)
      BY <2>3 DEF HandleGarbled, PollRun
    <3>2. poll[p].batch # <<>>
      BY <2>3 DEF HandleGarbled, HasEnvelope
    <3> QED  BY <1>a, <1>b, <2>3, <3>1, <3>2, AckTypes DEF HandleGarbled, OthersTyped, AckEnvelope
  <2>4. CASE ApplyEnvelope(p)
    <3>1. faults' \in Nat
      BY <2>4, AttemptType DEF ApplyEnvelope
    <3> DEFINE h == [poll[p] EXCEPT !.step = "ack"]
    <3>2. h \in PollRun /\ h.batch # <<>>
      BY <2>4 DEF ApplyEnvelope, Carries, HasEnvelope, PollRun
    <3>3. poll' = [poll EXCEPT ![p] = h] \/ AbortPoll(p)
      BY <2>4 DEF ApplyEnvelope
    <3> HIDE DEF h
    <3>4. poll' \in [Pollers -> PollRun] /\ AcksHeld'
      BY <3>2, <3>3, PollTypes
    <3> QED  BY <1>a, <1>b, <2>4, <3>1, <3>4 DEF ApplyEnvelope, OthersTyped, netVars
  <2>5. CASE AckApplied(p)
    <3>1. poll[p].batch # <<>>
      BY <2>5 DEF AckApplied, AcksHeld
    <3> QED  BY <1>a, <1>b, <2>5, <3>1, AckTypes DEF AckApplied, OthersTyped, stateVars, AckEnvelope
  <2>6. CASE AckLateResult(p)
    <3>1. poll[p].batch # <<>> /\ poll[p].mutated \in BOOLEAN
      BY <2>6 DEF AckLateResult, Carries, HasEnvelope, PollRun
    <3> QED  BY <1>a, <1>b, <2>6, <3>1, AckTypes DEF AckLateResult, OthersTyped, stateVars, AckEnvelope
  <2>7. CASE EndPoll(p)
    BY <1>a, <1>b, <2>7, PollTypes DEF EndPoll, OthersTyped, stateVars, netVars
  <2> QED  BY <1>6, <2>1, <2>2, <2>3, <2>4, <2>5, <2>6, <2>7 DEF PollStep
<1>7. ASSUME SyncStep PROVE OthersTyped'
  <2>0. UNCHANGED <<due, auth, op, tails, poll, netVars, crashes>>
    BY <1>7 DEF SyncStep, StartSync, AnswerBatch, ApplyBatch, FetchOne, ApplyOne, AllFetched,
                EvaluateOne, EndSync, stateVars
  <2>1. faults' \in Nat
    BY <1>7, AttemptType DEF SyncStep, StartSync, AnswerBatch, ApplyBatch, FetchOne, ApplyOne,
                             AllFetched, EvaluateOne, EndSync
  <2>2. sync' \in SyncRun
    BY <1>7, SyncTypes
  <2> QED  BY <1>a, <1>b, <2>0, <2>1, <2>2 DEF OthersTyped, netVars
<1>8. ASSUME Crash PROVE OthersTyped'
  <2>1. Idle \in Handler /\ PollIdle \in PollRun /\ SyncIdle \in SyncRun /\ Idle.step = "none"
    BY DEF Idle, Handler, PollIdle, PollRun, SyncIdle, SyncRun, PackageKinds
  <2>2. op' \in [Slots -> Handler] /\ HandlersFormed'
    BY <1>8, <2>1 DEF Crash, HandlersFormed
  <2>3. 0 \in 0..MaxTails
    BY BuyerAssumption
  <2>4. poll' \in [Pollers -> PollRun] /\ AcksHeld'
    BY <1>8, <2>1 DEF Crash, AcksHeld, PollIdle
  <2> QED  BY <1>8, <2>1, <2>2, <2>3, <2>4 DEF Crash, OthersTyped, netVars
<1> QED  BY <1>1, <1>2, <1>3, <1>4, <1>5, <1>6, <1>7, <1>8 DEF Next

\* A step that is no crash forgets no request that was created.
LEMMA ExistsKept ==
  ASSUME TypeOK, RecordsWritten, NEW r \in Requests, Exists(r)
  PROVE  Exists(r)'
<1>1. rec[r].gen + 1 \in Nat \ {0}
  BY DEF TypeOK, Record
<1> QED  BY <1>1, FreshSound DEF RecordsWritten, Written, Advances, Evolves, Exists

\* Who starts about a request finds it created, or creates it.
LEMMA StartKnown ==
  ASSUME TypeOK, HandlersKnown, RecordsWritten, NEW s \in Slots, NEW r \in Requests,
         StartHandler(s, r)
  PROVE  HandlersKnown'
<1>1. op' = op \/ \E h : op' = [op EXCEPT ![s] = h] /\ h.req = r
  <2>1. ASSUME NEW kind, NEW gen, NEW step, Begin(s, kind, r, gen, step)
        PROVE  \E h : op' = [op EXCEPT ![s] = h] /\ h.req = r
    <3>1. [Idle EXCEPT !.kind = kind, !.req = r, !.gen = gen, !.step = step].req = r
      BY DEF Idle
    <3> QED  BY <2>1, <3>1 DEF Begin
  <2>2. ASSUME NEW package, StartPushResult(s, r, package)
        PROVE  \E h : op' = [op EXCEPT ![s] = h] /\ h.req = r
    <3> DEFINE h == [Idle EXCEPT !.kind = "push", !.req = r, !.gen = rec[r].gen,
                                 !.step = "body", !.package = package]
    <3>1. h.req = r
      BY DEF Idle
    <3>2. op' = [op EXCEPT ![s] = h]
      BY <2>2 DEF StartPushResult
    <3> HIDE DEF h
    <3> QED  BY <3>1, <3>2
  <2>3. \/ op' = op
        \/ \E kind, gen, step : Begin(s, kind, r, gen, step)
        \/ \E package : StartPushResult(s, r, package)
    BY DEF StartHandler, StartRemoteRequest, StartPrepare, StartDispatch, StartSyncEvents
  <2> QED  BY <2>1, <2>2, <2>3
<1>2. Exists(r)'
  <2>1. rec[r].gen + 1 \in Nat \ {0}
    BY DEF TypeOK, Record
  <2>2. CASE Create(r)
    BY <2>1, <2>2, FreshSound DEF Create, Replace, Exists, TypeOK
  <2>3. CASE Exists(r)
    BY <2>3, ExistsKept
  <2> QED  BY <2>2, <2>3 DEF StartHandler, StartRemoteRequest, StartPrepare, StartDispatch,
                             StartSyncEvents, StartPushResult
<1>3. ASSUME NEW q \in Slots, op'[q].step # "none"
      PROVE  op'[q].req \in Requests /\ rec'[op'[q].req].status # "NONE"
  <2>1. CASE op'[q] = op[q]
    BY <1>3, <2>1, ExistsKept DEF HandlersKnown, Req, Exists
  <2>2. CASE op'[q] # op[q]
    <3>1. op'[q].req = r
      BY <1>1, <2>2 DEF TypeOK
    <3> QED  BY <1>2, <3>1 DEF Exists
  <2> QED  BY <2>1, <2>2
<1> QED  BY <1>3 DEF HandlersKnown, Req, Exists

\* Who goes on is still about it.
LEMMA HandlersGoOn ==
  ASSUME TypeOK, HandlersKnown, RecordsWritten,
         \A q \in Slots : \/ op'[q].step = "none"
                          \/ op'[q].req = op[q].req /\ op[q].step # "none"
  PROVE  HandlersKnown'
<1>1. ASSUME NEW q \in Slots, op'[q].step # "none"
      PROVE  op'[q].req \in Requests /\ rec'[op'[q].req].status # "NONE"
  <2>1. op'[q].req = op[q].req /\ op[q].req \in Requests /\ Exists(op[q].req)
    BY <1>1 DEF HandlersKnown, Req
  <2> QED  BY <2>1, ExistsKept DEF Exists
<1> QED  BY <1>1 DEF HandlersKnown, Req, Exists

\* The sync asks about requests that are active, and applies what it asked about.
LEMMA SyncKnownStep ==
  ASSUME TypeOK, SyncKnown, RecordsWritten, SyncStep
  PROVE  SyncKnown'
<1> DEFINE Met(h) == h.req \in Requests /\ Exists(h.req)
<1>1. ASSUME NEW h, Met(h) PROVE Exists(h.req)'
  BY <1>1, ExistsKept
<1>2. ASSUME \A h \in sync'.targets : Met(h), \A x \in sync'.seen : Met(x.held),
             sync'.step \in {"each", "applyOne"} => \A h \in sync'.todo : Met(h)
      PROVE  SyncKnown'
  BY <1>1, <1>2 DEF SyncKnown
<1>3. /\ \A h \in sync.targets : Met(h)
      /\ \A x \in sync.seen : Met(x.held)
      /\ sync.step \in {"each", "applyOne"} => \A h \in sync.todo : Met(h)
  BY DEF SyncKnown, TypeOK, SyncRun, HeldRecord
<1>4. ASSUME NEW mutated, EvaluateAll(mutated) PROVE SyncKnown'
  BY <1>2, <1>4 DEF EvaluateAll, SyncIdle
<1>5. CASE StartSync
  <2>1. \A h \in SyncTargets : Met(h)
    BY DEF SyncTargets, Held, Exists, Active
  <2>2. CASE sync' = [SyncIdle EXCEPT !.step = "batch", !.targets = SyncTargets]
    <3> HIDE DEF Met
    <3> QED  BY <1>2, <2>1, <2>2 DEF SyncIdle
  <2> QED  BY <1>4, <1>5, <2>2 DEF StartSync
<1>a. sync \in SyncRun
  BY DEF TypeOK
<1>6. CASE AnswerBatch
  <2> DEFINE seen == {Seen(h) : h \in {g \in sync.targets : events[g.req] # {}}}
  <2>1. \A x \in seen : Met(x.held)
    BY <1>3 DEF Seen
  <2>2. \/ sync' = [sync EXCEPT !.step = "apply", !.seen = seen]
        \/ sync' = [sync EXCEPT !.step = "each", !.todo = sync.targets]
    BY <1>6 DEF AnswerBatch
  <2> HIDE DEF Met, seen
  <2> QED  BY <1>2, <1>3, <1>a, <2>1, <2>2 DEF SyncRun
<1>7. CASE ApplyBatch
  <2>1. PICK x \in sync.seen :
          \/ sync' = [sync EXCEPT !.seen = @ \ {x}, !.mutated = TRUE]
          \/ sync' = [sync EXCEPT !.step = "each", !.todo = sync.targets, !.seen = {}]
    BY <1>7 DEF ApplyBatch
  <2> HIDE DEF Met
  <2>2. sync.step = "apply"
    BY <1>7 DEF ApplyBatch, SyncAt
  <2> QED  BY <1>2, <1>3, <1>a, <2>1, <2>2 DEF SyncRun
<1>8. CASE FetchOne
  <2>1. PICK h \in sync.todo :
          \/ sync' = [sync EXCEPT !.step = "applyOne", !.todo = @ \ {h}, !.seen = {Seen(h)}]
          \/ sync' = [sync EXCEPT !.todo = @ \ {h}]
    BY <1>8 DEF FetchOne
  <2>2. sync.step = "each" /\ Seen(h).held = h
    BY <1>8 DEF FetchOne, SyncAt, Seen
  <2> DEFINE one == Seen(h)
  <2>3. Met(one.held)
    BY <1>3, <2>2
  <2> HIDE DEF Met, one
  <2>4. \/ sync' = [sync EXCEPT !.step = "applyOne", !.todo = @ \ {h}, !.seen = {one}]
        \/ sync' = [sync EXCEPT !.todo = @ \ {h}]
    BY <2>1 DEF one
  <2>5. CASE sync' = [sync EXCEPT !.step = "applyOne", !.todo = @ \ {h}, !.seen = {one}]
    <3>1. /\ sync'.targets = sync.targets /\ sync'.todo = sync.todo \ {h} /\ sync'.seen = {one}
      BY <1>a, <2>5 DEF SyncRun
    <3> QED  BY <1>2, <1>3, <2>2, <2>3, <3>1
  <2>6. CASE sync' = [sync EXCEPT !.todo = @ \ {h}]
    <3>1. /\ sync'.targets = sync.targets /\ sync'.todo = sync.todo \ {h}
          /\ sync'.seen = sync.seen /\ sync'.step = sync.step
      BY <1>a, <2>6 DEF SyncRun
    <3> QED  BY <1>2, <1>3, <2>2, <3>1
  <2> QED  BY <2>4, <2>5, <2>6
<1>9. CASE ApplyOne
  <2>1. \E mutated : sync' = [sync EXCEPT !.step = "each", !.seen = {}, !.mutated = mutated]
    BY <1>9 DEF ApplyOne
  <2>2. sync.step = "applyOne"
    BY <1>9 DEF ApplyOne, SyncAt
  <2> HIDE DEF Met
  <2> QED  BY <1>2, <1>3, <1>a, <2>1, <2>2 DEF SyncRun
<1>10. CASE AllFetched
  BY <1>4, <1>10 DEF AllFetched
<1>11. CASE EvaluateOne
  <2>1. \/ \E h, mutated : sync' = [sync EXCEPT !.todo = @ \ {h}, !.mutated = mutated]
        \/ sync' = SyncIdle
    BY <1>11 DEF EvaluateOne
  <2>2. sync.step = "timeouts"
    BY <1>11 DEF EvaluateOne, SyncAt
  <2> HIDE DEF Met
  <2>3. CASE sync' = SyncIdle
    BY <1>2, <2>3 DEF SyncIdle
  <2>4. ASSUME NEW h, NEW mutated, sync' = [sync EXCEPT !.todo = @ \ {h}, !.mutated = mutated]
        PROVE  SyncKnown'
    <3>1. sync'.targets = sync.targets /\ sync'.seen = sync.seen /\ sync'.step = "timeouts"
      BY <1>a, <2>2, <2>4 DEF SyncRun
    <3> QED  BY <1>2, <1>3, <3>1
  <2> QED  BY <2>1, <2>3, <2>4
<1>12. CASE EndSync
  BY <1>2, <1>12 DEF EndSync, SyncIdle
<1> QED  BY <1>5, <1>6, <1>7, <1>8, <1>9, <1>10, <1>11, <1>12 DEF SyncStep

\* No step leaves anybody with a record that was never created.
LEMMA KnownStep ==
  ASSUME TypeOK, HandlersFormed, KnownOK, Next
  PROVE  KnownOK'
<1>1. CASE Crash
  BY <1>1 DEF Crash, KnownOK, HandlersKnown, SyncKnown, Idle, SyncIdle
<1>2. CASE ~Crash
  <2>1. RecordsWritten
    BY <1>2, RecordsStep
  <2>2. SyncKnown'
    <3>1. CASE SyncStep
      BY <2>1, <3>1, SyncKnownStep DEF KnownOK
    <3>2. CASE UNCHANGED sync
      BY <2>1, <3>2, ExistsKept DEF KnownOK, SyncKnown, TypeOK, SyncRun, HeldRecord
    <3>3. SyncStep \/ UNCHANGED sync
      BY <1>2 DEF Next, Handlers, CreateRequest, GetRequest, MarkSent, Ack, DecideStop,
                  DecideContinue, World, PlatformAcks, DeliverResult, Tick, StartHandler,
                  StartRemoteRequest, StartPrepare, StartDispatch, StartSyncEvents,
                  StartPushResult, HandlerStep, ReceiveToken, RefuseDeliveryMeta, FinishPrepare,
                  SendPrepared, FinishSend, AnswerEvents, ApplyAnswer, PushResult, FinishTail,
                  PollStep, PollInbox, SkipEnvelope, HandleGarbled, ApplyEnvelope, AckApplied,
                  AckLateResult, EndPoll
    <3> QED  BY <3>1, <3>2, <3>3
  <2>3. HandlersKnown'
    <3>1. ASSUME NEW s \in Slots, NEW r \in Requests, StartHandler(s, r) PROVE HandlersKnown'
      BY <2>1, <3>1, StartKnown DEF KnownOK
    <3>2. ASSUME NEW s \in Slots, HandlerStep(s) PROVE HandlersKnown'
      <4>1. op[s].step # "none"
        BY <3>2 DEF HandlerStep, ReceiveToken, RefuseDeliveryMeta, FinishPrepare, SendPrepared,
                    FinishSend, AnswerEvents, ApplyAnswer, PushResult, At
      <4>2. \/ \E step : Step(s, step)
            \/ op' = [op EXCEPT ![s].step = "apply", ![s].seen = events[Req(s)]]
            \/ End(s)
        BY <3>2 DEF HandlerStep, ReceiveToken, RefuseDeliveryMeta, FinishPrepare, SendPrepared,
                    FinishSend, AnswerEvents, ApplyAnswer, PushResult
      <4>3. op[s] \in Handler /\ op \in [Slots -> Handler]
        BY DEF TypeOK
      <4>4. op'[s].step = "none" \/ op'[s].req = op[s].req
        BY <4>2, <4>3 DEF Step, End, Idle, Handler
      <4>5. \A q \in Slots : q # s => op'[q] = op[q]
        BY <4>2, <4>3 DEF Step, End
      <4> QED  BY <2>1, <4>1, <4>4, <4>5, HandlersGoOn DEF KnownOK
    <3>3. CASE UNCHANGED op
      BY <2>1, <3>3, HandlersGoOn DEF KnownOK
    <3>4. \/ UNCHANGED op
          \/ \E s \in Slots, r \in Requests : StartHandler(s, r)
          \/ \E s \in Slots : HandlerStep(s)
      BY <1>2 DEF Next, Handlers, CreateRequest, GetRequest, MarkSent, Ack, DecideStop,
                  DecideContinue, World, PlatformAcks, DeliverResult, Tick, FinishTail,
                  PollStep, PollInbox, SkipEnvelope, HandleGarbled, ApplyEnvelope, AckApplied,
                  AckLateResult, EndPoll, SyncStep, StartSync, AnswerBatch, ApplyBatch, FetchOne,
                  ApplyOne, AllFetched, EvaluateOne, EndSync
    <3> QED  BY <3>1, <3>2, <3>3, <3>4
  <2> QED  BY <2>2, <2>3 DEF KnownOK
<1> QED  BY <1>1, <1>2

\* The types and what goes with them.
Formed == TypeOK /\ HandlersFormed /\ AcksHeld /\ KnownOK

\* The records' part and the others' part of a step.
LEMMA TypeStep == Formed /\ [Next]_vars => Formed'
<1> SUFFICES ASSUME Formed, [Next]_vars PROVE Formed'
  OBVIOUS
<1> USE DEF Formed
<1>1. CASE Next
  <2>1. rec' \in [Requests -> Record] /\ disk' \in [Requests -> Record]
    BY <1>1, RecordsStep DEF RecordsWritten, Saved, Restarted, TypeOK
  <2>2. OthersTyped'
    BY <1>1, OthersStep
  <2>3. KnownOK'
    BY <1>1, KnownStep
  <2> QED  BY <2>1, <2>2, <2>3 DEF TypeOK, OthersTyped
<1>2. CASE UNCHANGED vars
  BY <1>2 DEF vars, stateVars, netVars, TypeOK, HandlersFormed, AcksHeld, KnownOK, HandlersKnown,
              SyncKnown, Exists, Req
<1> QED  BY <1>1, <1>2

\* They hold in every reachable state.
LEMMA AlwaysFormed == Spec => []Formed
<1>1. Init => Formed
  BY InitTypes DEF Formed
<1> QED  BY <1>1, TypeStep, PTL DEF Spec

\* Every variable of the buyer controller stays in its range: createRequestRecord, the
\* handlers and both loops write only statuses, codes and results the record may have.
THEOREM TypeCorrect == Spec => []TypeOK
<1>1. Formed => TypeOK
  BY DEF Formed
<1> QED  BY <1>1, AlwaysFormed, PTL

-----------------------------------------------------------------------------
(* Outcomes                                                                *)

\* Every record is sound, in memory and on disk.
AllSound == \A r \in Requests : Sound(rec[r]) /\ Sound(disk[r])

\* The disk is never ahead of the memory, and holds an outcome only for a creation of the
\* request that is over in memory too.
DiskBehind ==
  \A r \in Requests :
    /\ disk[r].gen <= rec[r].gen
    /\ disk[r].gen = rec[r].gen /\ IsTerminal(disk[r]) => IsTerminal(rec[r])

OutcomeInv == AllSound /\ DiskBehind

\* The records are sound at first.
LEMMA OutcomeInit == Init => OutcomeInv
  BY NoRecordSound DEF Init, OutcomeInv, AllSound, DiskBehind

\* Every step keeps them sound, and the disk behind the memory.
LEMMA OutcomeStep ==
  ASSUME Formed, OutcomeInv, [Next]_vars
  PROVE  OutcomeInv'
<1>1. CASE Next
  <2>1. CASE RecordsWritten /\ Saved
    <3> SUFFICES ASSUME NEW r \in Requests
                 PROVE  /\ Sound(rec'[r]) /\ Sound(disk'[r])
                        /\ disk'[r].gen <= rec'[r].gen
                        /\ disk'[r].gen = rec'[r].gen /\ IsTerminal(disk'[r])
                             => IsTerminal(rec'[r])
      BY DEF OutcomeInv, AllSound, DiskBehind
    <3>1. /\ rec[r].gen \in Nat /\ disk[r].gen \in Nat /\ rec'[r].gen \in Nat
          /\ rec[r].gen + 1 \in Nat \ {0}
      BY <2>1 DEF Formed, TypeOK, RecordsWritten, Record
    <3>2. Sound(rec'[r]) /\ rec'[r].gen \in {rec[r].gen, rec[r].gen + 1}
      BY <2>1, <3>1, FreshSound DEF RecordsWritten, Written, Advances, Evolves, OutcomeInv, AllSound
    <3>3. rec'[r].gen = rec[r].gen /\ IsTerminal(rec[r]) => IsTerminal(rec'[r])
      BY <2>1, <3>1, FreshSound DEF RecordsWritten, Written, Advances, Evolves
    <3>4. CASE disk' = disk
      BY <3>1, <3>2, <3>3, <3>4 DEF OutcomeInv, AllSound, DiskBehind
    <3>5. CASE disk' = rec'
      BY <3>1, <3>2, <3>5
    <3> QED  BY <2>1, <3>4, <3>5 DEF Saved
  <2>2. CASE Restarted
    BY <2>2 DEF Restarted, OutcomeInv, AllSound, DiskBehind, Formed, TypeOK, Record
  <2> QED  BY <1>1, <2>1, <2>2, RecordsStep DEF Formed
<1>2. CASE UNCHANGED vars
  BY <1>2 DEF vars, stateVars, OutcomeInv, AllSound, DiskBehind, IsTerminal, Sound
<1> QED  BY <1>1, <1>2

\* Records are sound in memory and on disk, and the disk is never ahead, in every behaviour.
THEOREM OutcomeInvariant == Spec => []OutcomeInv
<1>1. Formed /\ OutcomeInv /\ [Next]_vars => OutcomeInv'
  BY OutcomeStep
<1> QED  BY <1>1, OutcomeInit, AlwaysFormed, PTL DEF Spec

\* Whatever order results, timeouts and pushes come in, the status, the stored package and
\* the error code of a record tell the same story (applyResultPackage and evaluateTimeouts
\* write all three).
THEOREM Consistent == Spec => []OutcomeConsistent
<1>1. OutcomeInv => OutcomeConsistent
  BY DEF OutcomeInv, AllSound, Sound, OutcomeConsistent, StopIsFinal
<1> QED  BY <1>1, OutcomeInvariant, PTL

\* After stop_wait the request is over, whatever send, ack or event was under way.
THEOREM StopFinal == Spec => []StopIsFinal
<1>1. OutcomeInv => StopIsFinal
  BY DEF OutcomeInv, AllSound, Sound, StopIsFinal
<1> QED  BY <1>1, OutcomeInvariant, PTL

\* No save and no restart takes an outcome off the disk: a save writes a record that has
\* moved on since the last one, and what moved on from a finished record is finished.
THEOREM OutcomeDurable == Spec => DurableOutcome
<1>1. Formed /\ OutcomeInv /\ [Next]_vars
        => [\A r \in Requests :
              IsTerminal(disk[r]) /\ disk'[r].gen = disk[r].gen => IsTerminal(disk'[r])]_vars
  <2> SUFFICES ASSUME Formed, OutcomeInv, Next, NEW r \in Requests,
                      IsTerminal(disk[r]), disk'[r].gen = disk[r].gen
               PROVE  IsTerminal(disk'[r])
    OBVIOUS
  <2>1. rec[r].gen \in Nat /\ disk[r].gen \in Nat /\ rec[r].gen + 1 \in Nat \ {0}
    BY DEF Formed, TypeOK, Record
  <2>2. CASE RecordsWritten /\ disk' = rec'
    BY <2>1, <2>2, FreshSound DEF RecordsWritten, Written, Advances, Evolves,
                                         OutcomeInv, DiskBehind
  <2>3. CASE disk' = disk
    BY <2>3
  <2> QED  BY <2>2, <2>3, RecordsStep DEF Formed, Saved, Restarted
<1> QED  BY <1>1, OutcomeInvariant, AlwaysFormed, PTL DEF Spec, DurableOutcome

\* What a step makes of a record that it replaces neither by creating the id again nor by a
\* restart.
LEMMA SameRecordStep ==
  ASSUME Formed, Next, NEW r \in Requests, SameRecord(r)
  PROVE  Advances(rec[r], rec'[r]) \/ (Evolves(rec[r], rec'[r]) /\ PushesResult(r))
<1>1. ~Crash
  BY DEF Crash, SameRecord, Formed, TypeOK
<1>2. rec[r].gen + 1 \in Nat \ {0} /\ rec[r].gen + 1 # rec[r].gen
  BY DEF Formed, TypeOK, Record
<1>3. rec'[r] # FreshRecord(rec[r].gen + 1)
  BY <1>2, FreshSound DEF SameRecord
<1> QED  BY <1>1, <1>3, RecordsStep DEF Formed, RecordsWritten, Written

\* A request that is over keeps its status and its result: the handlers of sends, acks,
\* decisions and events, both loops and every late message look at the status before they write,
\* and only POST result, which looked before it read the body, can overwrite it.
THEOREM OnlyPush == Spec => OnlyPushOverwrites
<1>1. Formed /\ [Next]_vars
        => [\A r \in Requests :
              IsTerminal(rec[r]) /\ SameRecord(r) /\ ~PushesResult(r)
                => rec'[r].status = rec[r].status /\ rec'[r].result = rec[r].result]_vars
  BY SameRecordStep DEF Advances
<1> QED  BY <1>1, AlwaysFormed, PTL DEF Spec, OnlyPushOverwrites

\* An ack is never forgotten, and a request that was acknowledged is never declared undelivered:
\* setSentState keeps acknowledged_at, and evaluateTimeouts looks at it.
THEOREM NoFalseTimeout == Spec => NoFalseDeliveryTimeout
<1>1. Formed /\ OutcomeInv /\ [Next]_vars
        => [\A r \in Requests :
              rec[r].acknowledged /\ SameRecord(r)
                => rec'[r].acknowledged /\ rec'[r].code # "delivery"]_vars
  <2> SUFFICES ASSUME Formed, OutcomeInv, Next, NEW r \in Requests,
                      rec[r].acknowledged, SameRecord(r)
               PROVE  rec'[r].acknowledged /\ rec'[r].code # "delivery"
    OBVIOUS
  <2>1. Evolves(rec[r], rec'[r])
    BY SameRecordStep DEF Advances
  <2> QED  BY <2>1 DEF Evolves, Sound, OutcomeInv, AllSound
<1> QED  BY <1>1, OutcomeInvariant, AlwaysFormed, PTL DEF Spec, NoFalseDeliveryTimeout

-----------------------------------------------------------------------------
(* No result is lost                                                       *)

\* The envelopes of requests that were sent.
SentFor == {m \in Envelopes : sends[m.req] > 0}

\* Results come only for what was sent, and they are all about it until they are taken out.
ResultsSent ==
  /\ mailbox \in Seq(SentFor)
  /\ \A p \in Pollers : poll[p].batch \in Seq(SentFor)

\* A request created once is over.
Settled(r) == Exists(r) /\ (rec[r].gen = 1 => IsTerminal(rec[r]))

\* Without a crash what was sent is known, what is about to be acked has been applied, and what
\* was taken out has been applied.
LostInv ==
  /\ ResultsSent
  /\ crashes = 0 =>
       /\ \A r \in Requests : sends[r] > 0 => Exists(r)
       /\ \A p \in Pollers : poll[p].step = "ack" => Settled(Envelope(p).req)
       /\ \A r \in consumed : Settled(r)

\* A step that is no crash leaves settled what is settled.
LEMMA SettledKept ==
  ASSUME Formed, OutcomeInv, RecordsWritten, NEW r \in Requests, Settled(r)
  PROVE  Settled(r)'
<1>1. rec[r].gen \in Nat \ {0}
  BY DEF Formed, TypeOK, Record, OutcomeInv, AllSound, Sound, Settled, Exists
<1>2. Exists(r)'
  BY ExistsKept DEF Settled, Formed
<1>3. CASE Evolves(rec[r], rec'[r])
  BY <1>2, <1>3 DEF Settled, Evolves
<1>4. CASE rec'[r] = FreshRecord(rec[r].gen + 1)
  <2>1. rec'[r].gen = rec[r].gen + 1 /\ rec[r].gen + 1 # 1
    BY <1>1, <1>4, FreshSound
  <2> QED  BY <1>2, <2>1 DEF Settled
<1> QED  BY <1>3, <1>4 DEF RecordsWritten, Written, Advances

\* What is sent stays sent.
LEMMA SendsGrow ==
  ASSUME Formed, Next
  PROVE  SentFor \subseteq SentFor' /\ \A r \in Requests : sends[r] > 0 => sends'[r] > 0
<1>0. sends \in [Requests -> Nat]
  BY BuyerAssumption DEF Formed, TypeOK
<1>1. sends' = sends \/ \E r : sends' = [sends EXCEPT ![r] = @ + 1]
  BY DEF Next, Handlers, CreateRequest, GetRequest, MarkSent, Ack, DecideStop, DecideContinue,
         World, PlatformAcks, DeliverResult, Tick, StartHandler, StartRemoteRequest,
         StartPrepare, StartDispatch, StartSyncEvents, StartPushResult, HandlerStep,
         ReceiveToken, RefuseDeliveryMeta, FinishPrepare, SendPrepared, FinishSend, AnswerEvents,
         ApplyAnswer, PushResult, FinishTail, PollStep, PollInbox, SkipEnvelope, HandleGarbled,
         ApplyEnvelope, AckApplied, AckLateResult, EndPoll, AckEnvelope, SendEnvelope, Crash,
         SyncStep, StartSync, AnswerBatch, ApplyBatch, FetchOne, ApplyOne, AllFetched,
         EvaluateOne, EndSync, netVars
<1>2. \A r \in Requests : sends[r] > 0 => sends'[r] > 0
  BY <1>0, <1>1
<1> QED  BY <1>2 DEF SentFor, Envelopes

\* A batch gets shorter, is dropped, or is a part of the mailbox; the mailbox gets shorter, or
\* gets a result of a request that was sent.
LEMMA ResultsSentStep ==
  ASSUME Formed, ResultsSent, Next
  PROVE  ResultsSent'
<1> USE DEF ResultsSent
<1>0. poll \in [Pollers -> PollRun]
  BY DEF Formed, TypeOK
<1>1. ASSUME mailbox' \in Seq(SentFor), \A p \in Pollers : poll'[p].batch \in Seq(SentFor)
      PROVE  ResultsSent'
  BY <1>1, SendsGrow, SeqMonotonic
<1>2. ASSUME NEW p \in Pollers, NEW x, x.batch \in Seq(SentFor), mailbox' \in Seq(SentFor),
             poll' = [poll EXCEPT ![p] = x]
      PROVE  ResultsSent'
  BY <1>0, <1>1, <1>2
<1>a. ASSUME NEW p \in Pollers, AbortPoll(p), mailbox' \in Seq(SentFor) PROVE ResultsSent'
  <2>1. PollIdle.batch \in Seq(SentFor)
    BY DEF PollIdle
  <2> QED  BY <1>2, <1>a, <2>1 DEF AbortPoll
<1>b. ASSUME NEW p \in Pollers, NEW mutated, poll[p].batch # <<>>, NextEnvelope(p, mutated),
             mailbox' \in Seq(SentFor)
      PROVE  ResultsSent'
  <2> DEFINE x == [step |-> "next", batch |-> Tail(poll[p].batch), mutated |-> mutated]
  <2>1. x.batch \in Seq(SentFor)
    BY <1>b, HeadTailProperties
  <2>2. poll' = [poll EXCEPT ![p] = x]
    BY <1>b DEF NextEnvelope
  <2> HIDE DEF x
  <2> QED  BY <1>2, <1>b, <2>1, <2>2
<1>c. ASSUME NEW p \in Pollers, NEW mutated, poll[p].batch # <<>>, AckEnvelope(p, mutated)
      PROVE  ResultsSent'
  <2>1. mailbox' \in Seq(SentFor)
    BY <1>c, RemoveType DEF AckEnvelope
  <2> QED  BY <1>a, <1>b, <1>c, <2>1 DEF AckEnvelope
<1>3. ASSUME NEW p \in Pollers, PollStep(p) PROVE ResultsSent'
  <2>1. CASE PollInbox(p)
    <3> DEFINE b == SubSeq(mailbox, 1, IF Limit < Len(mailbox) THEN Limit ELSE Len(mailbox))
               x == [step |-> "next", mutated |-> FALSE, batch |-> b]
    <3>1. b \in Seq(SentFor)
      BY BatchType
    <3> HIDE DEF b
    <3>2. x.batch \in Seq(SentFor)
      BY <3>1
    <3>3. poll' = [poll EXCEPT ![p] = x] /\ mailbox' = mailbox
      BY <2>1 DEF PollInbox, netVars, b
    <3> HIDE DEF x
    <3> QED  BY <1>2, <3>2, <3>3
  <2>2. CASE SkipEnvelope(p)
    BY <1>b, <2>2 DEF SkipEnvelope, HasEnvelope, netVars
  <2>3. CASE HandleGarbled(p)
    BY <1>c, <2>3 DEF HandleGarbled, HasEnvelope
  <2>4. CASE ApplyEnvelope(p)
    <3> DEFINE x == [poll[p] EXCEPT !.step = "ack"]
    <3>1. x.batch \in Seq(SentFor)
      BY <1>0 DEF PollRun
    <3>2. poll' = [poll EXCEPT ![p] = x] \/ AbortPoll(p)
      BY <2>4 DEF ApplyEnvelope
    <3>3. mailbox' = mailbox
      BY <2>4 DEF ApplyEnvelope, netVars
    <3> HIDE DEF x
    <3> QED  BY <1>2, <1>a, <3>1, <3>2, <3>3
  <2>5. CASE AckApplied(p)
    BY <1>c, <2>5 DEF AckApplied, Formed, AcksHeld
  <2>6. CASE AckLateResult(p)
    BY <1>c, <2>6 DEF AckLateResult, Carries, HasEnvelope
  <2>7. CASE EndPoll(p)
    BY <1>a, <2>7 DEF EndPoll, netVars
  <2> QED  BY <1>3, <2>1, <2>2, <2>3, <2>4, <2>5, <2>6, <2>7 DEF PollStep
<1>4. ASSUME NEW r \in Requests, NEW package \in Packages, DeliverResult(r, package)
      PROVE  ResultsSent'
  <2> DEFINE m == [id |-> delivered + 1, req |-> r, package |-> package]
  <2>1. m \in SentFor
    BY <1>4, BuyerAssumption DEF DeliverResult, SentFor, Envelopes, Formed, TypeOK
  <2>2. mailbox' = Append(mailbox, m) /\ poll' = poll
    BY <1>4 DEF DeliverResult
  <2> HIDE DEF m
  <2> QED  BY <1>1, <2>1, <2>2, AppendProperties
<1>5. CASE Crash
  <2>1. mailbox' = mailbox /\ \A p \in Pollers : poll'[p].batch = <<>>
    BY <1>5 DEF Crash, PollIdle, netVars
  <2>2. <<>> \in Seq(SentFor)
    OBVIOUS
  <2>3. \A p \in Pollers : poll'[p].batch \in Seq(SentFor)
    BY <2>1, <2>2
  <2> QED  BY <1>1, <2>1, <2>3
<1>6. CASE UNCHANGED <<mailbox, poll>>
  BY <1>1, <1>6
<1>7. \/ UNCHANGED <<mailbox, poll>>
      \/ \E p \in Pollers : PollStep(p)
      \/ \E r \in Requests, package \in Packages : DeliverResult(r, package)
      \/ Crash
  BY DEF Next, Handlers, CreateRequest, GetRequest, MarkSent, Ack, DecideStop, DecideContinue,
         World, PlatformAcks, Tick, StartHandler, StartRemoteRequest, StartPrepare,
         StartDispatch, StartSyncEvents, StartPushResult, HandlerStep, ReceiveToken,
         RefuseDeliveryMeta, FinishPrepare, SendPrepared, FinishSend, AnswerEvents, ApplyAnswer,
         PushResult, FinishTail, SyncStep, StartSync, AnswerBatch, ApplyBatch, FetchOne,
         ApplyOne, AllFetched, EvaluateOne, EndSync, netVars
<1> QED  BY <1>3, <1>4, <1>5, <1>6, <1>7

\* A poll with an envelope has one of a request that was sent.
LEMMA EnvelopeSent ==
  ASSUME Formed, ResultsSent, NEW p \in Pollers, poll[p].batch # <<>>
  PROVE  Envelope(p).req \in Requests /\ sends[Envelope(p).req] > 0
<1>1. Envelope(p) \in SentFor
  BY HeadTailProperties DEF ResultsSent, Envelope
<1> QED  BY <1>1 DEF SentFor, Envelopes

\* What one step sends: a handler sends for the request it is about.
LEMMA SendsKnown ==
  ASSUME Formed, RecordsWritten, Next, NEW r \in Requests, sends'[r] > 0, ~Exists(r)'
  PROVE  sends[r] > 0
<1>0. sends \in [Requests -> Nat]
  BY BuyerAssumption DEF Formed, TypeOK
<1>1. ~Exists(r)
  BY ExistsKept DEF Formed
<1>2. ASSUME NEW s, NEW q, NEW o, SendEnvelope(s, q, o), q # r PROVE sends[r] > 0
  BY <1>0, <1>2 DEF SendEnvelope
<1>3. ASSUME NEW s \in Slots, SendPrepared(s) PROVE sends[r] > 0
  <2>1. Req(s) # r
    BY <1>1, <1>3 DEF SendPrepared, At, Formed, KnownOK, HandlersKnown
  <2> QED  BY <1>2, <1>3, <2>1 DEF SendPrepared
<1>4. ASSUME NEW s \in Slots, NEW q \in Requests, StartDispatch(s, q) PROVE sends[r] > 0
  BY <1>1, <1>2, <1>4 DEF StartDispatch
<1>5. CASE UNCHANGED sends
  BY <1>5
<1>6. \/ UNCHANGED sends
      \/ \E s \in Slots : SendPrepared(s)
      \/ \E s \in Slots, q \in Requests : StartDispatch(s, q)
  BY DEF Next, Handlers, CreateRequest, GetRequest, MarkSent, Ack, DecideStop, DecideContinue,
         World, PlatformAcks, DeliverResult, Tick, StartHandler, StartRemoteRequest,
         StartPrepare, StartSyncEvents, StartPushResult, HandlerStep,
         ReceiveToken, RefuseDeliveryMeta, FinishPrepare, FinishSend, AnswerEvents,
         ApplyAnswer, PushResult, FinishTail, PollStep, PollInbox, SkipEnvelope, HandleGarbled,
         ApplyEnvelope, AckApplied, AckLateResult, EndPoll, AckEnvelope, Crash,
         SyncStep, StartSync, AnswerBatch, ApplyBatch, FetchOne, ApplyOne, AllFetched,
         EvaluateOne, EndSync, netVars
<1> QED  BY <1>3, <1>4, <1>5, <1>6

\* An envelope is taken out only for a request that is over, and a poll that goes on to the ack
\* has just applied the result: r is the request of the envelope the poll has before the step.
LEMMA PollSettles ==
  ASSUME Formed, LostInv, crashes = 0, RecordsWritten, NEW p \in Pollers, PollStep(p),
         poll[p].batch # <<>>, NEW r \in Requests, r = Envelope(p).req
  PROVE  /\ consumed' = consumed \/ (consumed' = consumed \cup {r} /\ Settled(r)')
         /\ poll'[p].step = "ack" => Settled(r)' /\ poll'[p].batch = poll[p].batch
<1>0. poll \in [Pollers -> PollRun] /\ rec \in [Requests -> Record]
  BY DEF Formed, TypeOK
<1>a. Exists(r)
  BY EnvelopeSent DEF LostInv
<1>c. Exists(r)'
  BY <1>a, ExistsKept DEF Formed
<1>b. ASSUME NEW mutated, AckEnvelope(p, mutated)
      PROVE  /\ consumed' = consumed \/ consumed' = consumed \cup {r}
             /\ poll'[p].step # "ack"
  BY <1>0, <1>b DEF AckEnvelope, NextEnvelope, AbortPoll, PollIdle
<1>1. CASE HandleGarbled(p)
  <2>2. IsTerminal(rec'[r])
    <3>1. CASE IsTerminal(rec[r])
      <4>1. rec' = rec
        BY <1>1, <3>1 DEF HandleGarbled
      <4> QED  BY <3>1, <4>1
    <3>2. CASE ~IsTerminal(rec[r])
      <4>1. Replace(r, Garbled(rec[r]))
        BY <1>1, <1>a, <3>2 DEF HandleGarbled
      <4> QED  BY <1>0, <1>a, <3>2, <4>1, GarbledAdvances DEF Replace, Exists
    <3> QED  BY <3>1, <3>2
  <2>3. Settled(r)'
    BY <1>c, <2>2 DEF Settled
  <2>4. \E mutated : AckEnvelope(p, mutated)
    BY <1>1 DEF HandleGarbled
  <2> QED  BY <1>b, <2>3, <2>4
<1>2. CASE ApplyEnvelope(p)
  <2>2. Replace(r, ApplyResult(rec[r], Envelope(p).package)) /\ consumed' = consumed
        /\ Envelope(p).package \in {"ok", "error", "invalid"}
    BY <1>2 DEF ApplyEnvelope, Carries, netVars
  <2>3. IsTerminal(rec'[r])
    BY <1>0, <1>a, <2>2, ResultEvolves DEF Replace, Exists
  <2>4. poll'[p].step = "ack" => poll'[p].batch = poll[p].batch
    BY <1>0, <1>2 DEF ApplyEnvelope, AbortPoll, PollIdle, PollRun
  <2>5. Settled(r)'
    BY <1>c, <2>3 DEF Settled
  <2> QED  BY <2>2, <2>4, <2>5
<1>3. CASE AckApplied(p)
  <2>1. poll[p].step = "ack" /\ rec' = rec
    BY <1>3 DEF AckApplied, stateVars
  <2>2. Settled(r)
    BY <2>1 DEF LostInv
  <2>3. Settled(r)'
    BY <1>c, <2>1, <2>2 DEF Settled, Exists
  <2>4. \E mutated : AckEnvelope(p, mutated)
    BY <1>3 DEF AckApplied
  <2> QED  BY <1>b, <2>3, <2>4
<1>4. CASE AckLateResult(p)
  <2>1. IsTerminal(rec[r]) /\ rec' = rec
    BY <1>4 DEF AckLateResult, stateVars
  <2>2. Settled(r)'
    BY <1>c, <2>1 DEF Settled
  <2>4. \E mutated : AckEnvelope(p, mutated)
    BY <1>4 DEF AckLateResult
  <2> QED  BY <1>b, <2>2, <2>4
<1>5. CASE PollInbox(p) \/ SkipEnvelope(p) \/ EndPoll(p)
  BY <1>0, <1>5 DEF PollInbox, SkipEnvelope, EndPoll, NextEnvelope, AbortPoll, PollIdle, netVars
<1> QED  BY <1>1, <1>2, <1>3, <1>4, <1>5 DEF PollStep

\* A poll that has no envelope takes none out of the mailbox and has none to acknowledge.
LEMMA EmptyPoll ==
  ASSUME Formed, NEW p \in Pollers, PollStep(p), poll[p].batch = <<>>
  PROVE  consumed' = consumed /\ poll'[p].step # "ack"
<1>0. poll \in [Pollers -> PollRun]
  BY DEF Formed, TypeOK
<1>1. PollInbox(p) \/ EndPoll(p)
  BY DEF PollStep, SkipEnvelope, HandleGarbled, ApplyEnvelope, AckApplied, AckLateResult,
         Carries, HasEnvelope, Formed, AcksHeld
<1> QED  BY <1>0, <1>1 DEF PollInbox, EndPoll, AbortPoll, PollIdle, netVars

\* Every step loses no result.
LEMMA LostStep ==
  ASSUME Formed, OutcomeInv, LostInv, Next
  PROVE  LostInv'
<1>1. ResultsSent'
  BY ResultsSentStep DEF LostInv
<1>2. SUFFICES ASSUME crashes' = 0
               PROVE  /\ \A r \in Requests : sends'[r] > 0 => Exists(r)'
                      /\ \A p \in Pollers : poll'[p].step = "ack" => Settled(Envelope(p).req)'
                      /\ \A r \in consumed' : Settled(r)'
  BY <1>1 DEF LostInv
<1>3. crashes \in Nat
  BY DEF Formed, TypeOK
<1>4. ~Crash
  BY <1>2, <1>3 DEF Crash
<1>5. crashes = 0
  <2>1. crashes' = crashes
    BY <1>4 DEF Next, Handlers, CreateRequest, GetRequest, MarkSent, Ack, DecideStop,
                DecideContinue, World, PlatformAcks, DeliverResult, Tick, StartHandler,
                StartRemoteRequest, StartPrepare, StartDispatch, StartSyncEvents,
                StartPushResult, HandlerStep, ReceiveToken, RefuseDeliveryMeta, FinishPrepare,
                SendPrepared, FinishSend, AnswerEvents, ApplyAnswer, PushResult, FinishTail,
                PollStep, PollInbox, SkipEnvelope, HandleGarbled, ApplyEnvelope, AckApplied,
                AckLateResult, EndPoll, SyncStep, StartSync, AnswerBatch, ApplyBatch, FetchOne,
                ApplyOne, AllFetched, EvaluateOne, EndSync
  <2> QED  BY <1>2, <2>1
<1>6. RecordsWritten
  BY <1>4, RecordsStep DEF Formed
<1>7. \A r \in Requests : sends'[r] > 0 => Exists(r)'
  BY <1>5, <1>6, SendsKnown, ExistsKept DEF LostInv, Formed
<1>8. \A r \in consumed : Settled(r)'
  BY <1>5, <1>6, SettledKept DEF LostInv, Formed, TypeOK
<1>9. ASSUME NEW p \in Pollers, poll[p].step = "ack", poll'[p] = poll[p]
      PROVE  Settled(Envelope(p).req)'
  <2>1. poll[p].batch # <<>>
    BY <1>9 DEF Formed, AcksHeld
  <2> DEFINE r == Envelope(p).req
  <2>2. r \in Requests /\ Settled(r)
    BY <1>5, <1>9, <2>1, EnvelopeSent DEF LostInv
  <2>3. r' = r
    BY <1>9 DEF Envelope
  <2> HIDE DEF r
  <2>4. \A q \in Requests : Settled(q) => Settled(q)'
    BY <1>6, SettledKept
  <2> QED  BY <2>2, <2>3, <2>4 DEF r, Settled, Exists
<1>10. CASE UNCHANGED <<poll, consumed>>
  <2>1. \A p \in Pollers : poll'[p].step = "ack" => Settled(Envelope(p).req)'
    BY <1>9, <1>10
  <2> QED  BY <1>7, <1>8, <1>10, <2>1
<1>11. ASSUME NEW p \in Pollers, PollStep(p)
       PROVE  /\ \A q \in Pollers : poll'[q].step = "ack" => Settled(Envelope(q).req)'
              /\ \A r \in consumed' : Settled(r)'
  <2>1. \A q \in Pollers : q # p => poll'[q] = poll[q]
    BY <1>11 DEF PollStep, PollInbox, SkipEnvelope, HandleGarbled, ApplyEnvelope, AckApplied,
                 AckLateResult, EndPoll, AckEnvelope, NextEnvelope, AbortPoll, Formed, TypeOK
  <2>2. CASE poll[p].batch = <<>>
    BY <1>8, <1>9, <1>11, <2>1, <2>2, EmptyPoll
  <2>3. CASE poll[p].batch # <<>>
    <3>1. PICK r \in Requests : r = Envelope(p).req
      BY <1>5, <2>3, EnvelopeSent DEF LostInv
    <3>2. /\ consumed' = consumed \/ (consumed' = consumed \cup {r} /\ Settled(r)')
          /\ poll'[p].step = "ack" => Settled(r)' /\ poll'[p].batch = poll[p].batch
      BY <1>5, <1>6, <1>11, <2>3, <3>1, PollSettles
    <3>3. ASSUME poll'[p].step = "ack" PROVE Settled(Envelope(p).req)'
      <4>1. Envelope(p)' = Envelope(p)
        BY <3>2, <3>3 DEF Envelope
      <4> QED  BY <3>1, <3>2, <3>3, <4>1 DEF Settled, Exists
    <3>4. \A q \in consumed' : Settled(q)'
      BY <1>8, <3>2
    <3> QED  BY <1>9, <2>1, <3>3, <3>4
  <2> QED  BY <2>2, <2>3
<1>12. UNCHANGED <<poll, consumed>> \/ \E p \in Pollers : PollStep(p)
  BY <1>4 DEF Next, Handlers, CreateRequest, GetRequest, MarkSent, Ack, DecideStop,
              DecideContinue, World, PlatformAcks, DeliverResult, Tick, StartHandler,
              StartRemoteRequest, StartPrepare, StartDispatch, StartSyncEvents,
              StartPushResult, HandlerStep, ReceiveToken, RefuseDeliveryMeta, FinishPrepare,
              SendPrepared, FinishSend, AnswerEvents, ApplyAnswer, PushResult, FinishTail,
              SyncStep, StartSync, AnswerBatch, ApplyBatch, FetchOne, ApplyOne, AllFetched,
              EvaluateOne, EndSync, netVars
<1> QED  BY <1>7, <1>10, <1>11, <1>12

\* Whatever the loop, the pull over HTTP, the handlers and the timeouts do to a request meanwhile,
\* a result leaves the mailbox only once its request is over, unless the controller crashes or
\* the id is created again (pollBuyerInbox acks after it has applied, or has seen that it need not).
THEOREM NoResultLost == Spec => []ResultNotLost
<1>1. Init => LostInv
  <2> SUFFICES ASSUME Init PROVE LostInv
    OBVIOUS
  <2>0. <<>> \in Seq(SentFor)
    OBVIOUS
  <2>1. ResultsSent
    BY <2>0 DEF Init, ResultsSent, PollIdle
  <2>2. /\ \A r \in Requests : ~(sends[r] > 0)
        /\ \A p \in Pollers : poll[p].step # "ack"
        /\ consumed = {}
    BY DEF Init, PollIdle
  <2> QED  BY <2>1, <2>2 DEF LostInv
<1>2. Formed /\ OutcomeInv /\ LostInv /\ [Next]_vars => LostInv'
  <2> SUFFICES ASSUME Formed, OutcomeInv, LostInv, UNCHANGED vars PROVE LostInv'
    BY LostStep
  <2> QED  BY DEF vars, stateVars, netVars, LostInv, ResultsSent, SentFor, Settled, Exists,
                  Envelope, IsTerminal
<1>3. LostInv => ResultNotLost
  BY DEF LostInv, ResultNotLost, Settled
<1> QED  BY <1>1, <1>2, <1>3, AlwaysFormed, OutcomeInvariant, PTL DEF Spec
-----------------------------------------------------------------------------
(* The abstract specification                                              *)

\* What the controller tells, what it has saved, and the pushes it has let in.
Told == [r \in Requests |-> Story(rec[r])]
Kept == [r \in Requests |-> Story(disk[r])]
Pending == {<<op[s].req, op[s].gen>> : s \in {t \in Slots : At(t, "body")}}

\* The story a ended as b, by an answer.
Ended(a, b) == \E e \in Outcomes!Endings : b = [a EXCEPT !.status = e[1], !.result = e[2]]

\* How the story a of a record may go on as b: the moves of RequestOutcomes, but for asking
\* again.  An outcome is replaced only by a push that was let in.
GoesOn(a, b, pushed) ==
  \/ b = a
  \/ a.status = "OPEN" /\ b = [a EXCEPT !.acked = TRUE]
  \/ a.status = "OPEN" /\ Ended(a, b)
  \/ a.status = "OPEN" /\ b = [a EXCEPT !.status = "TIMED_OUT"]
  \/ a.status = "OPEN" /\ ~a.acked /\ b = [a EXCEPT !.status = "UNDELIVERED"]
  \/ a.status = "OPEN" /\ b = [a EXCEPT !.status = "TIMED_OUT", !.stopped = TRUE]
  \/ a.status \notin {"NONE", "OPEN"} /\ pushed /\ Ended(a, b)
  \/ a.status \notin {"NONE", "OPEN"} /\ b = [a EXCEPT !.stopped = TRUE]
  \/ a.status = "UNDELIVERED" /\ b = [a EXCEPT !.status = "TIMED_OUT"]
  \/ b = [a EXCEPT !.stopped = FALSE]

\* Every story a record can tell.
Stories ==
  [asked : Nat, status : Terminal \cup {"NONE", "OPEN", "UNDELIVERED"},
   result : {"ok", "error", "none"}, acked : BOOLEAN, stopped : BOOLEAN]

\* The fields of a story.
LEMMA StoryFields ==
  ASSUME NEW x \in Record
  PROVE  /\ Story(x) \in Stories
         /\ Story(x).asked = x.gen /\ Story(x).acked = x.acknowledged
         /\ Story(x).stopped = (x.decision = "stop_wait")
         /\ Story(x).result = IF x.result \in {"ok", "error"} THEN x.result ELSE "none"
         /\ Story(x).status = "OPEN" <=> x.status \in Active
         /\ IsTerminal(x) <=> Story(x).status \notin {"NONE", "OPEN"}
         /\ Story(x).status = "NONE" <=> x.status = "NONE"
         /\ x.status = "TIMED_OUT" =>
              Story(x).status = IF x.code = "delivery" THEN "UNDELIVERED" ELSE "TIMED_OUT"
         /\ x.status \in Terminal \ {"TIMED_OUT"} => Story(x).status = x.status
<1>1. Story(x).status = CASE x.status \in Active -> "OPEN"
                [] x.status = "TIMED_OUT" /\ x.code = "delivery" -> "UNDELIVERED"
                [] OTHER -> x.status
  BY DEF Story
<1>2. Story(x).asked = x.gen /\ Story(x).acked = x.acknowledged
      /\ Story(x).stopped = (x.decision = "stop_wait")
      /\ Story(x).result = IF x.result \in {"ok", "error"} THEN x.result ELSE "none"
  BY DEF Story
<1>3. CASE x.status \in Active
  <2>1. Story(x).status = "OPEN" /\ x.status \notin Terminal \cup {"NONE", "TIMED_OUT"}
    BY <1>1, <1>3 DEF Active, Terminal
  <2>2. Story(x) \in Stories
    BY <1>2, <2>1 DEF Story, Stories, Record
  <2> QED  BY <1>2, <1>3, <2>1, <2>2 DEF IsTerminal
<1>4. CASE x.status = "TIMED_OUT" /\ x.code = "delivery"
  <2>1. Story(x).status = "UNDELIVERED" /\ x.status \notin Active
    BY <1>1, <1>4 DEF Active
  <2>2. Story(x) \in Stories
    BY <1>2, <2>1 DEF Story, Stories, Record
  <2> QED  BY <1>2, <1>4, <2>1, <2>2 DEF IsTerminal, Terminal
<1>5. CASE x.status \notin Active /\ ~(x.status = "TIMED_OUT" /\ x.code = "delivery")
  <2>1. Story(x).status = x.status /\ x.status \in Terminal \cup {"NONE"}
    BY <1>1, <1>5 DEF Record
  <2>2. Story(x) \in Stories
    BY <1>2, <2>1 DEF Story, Stories, Record
  <2> QED  BY <1>2, <1>5, <2>1, <2>2 DEF IsTerminal, Active, Terminal
<1> QED  BY <1>3, <1>4, <1>5

\* Two stories are the same when their fields are.
LEMMA SameStory ==
  ASSUME NEW a \in Stories, NEW b \in Stories, a.asked = b.asked, a.status = b.status,
         a.result = b.result, a.acked = b.acked, a.stopped = b.stopped
  PROVE  a = b
  BY DEF Stories

\* A record that stays, and one whose story does.
LEMMA SameGoesOn ==
  ASSUME NEW x \in Record, NEW y \in Record, NEW pushed, y.gen = x.gen, y.result = x.result,
         Story(y).status = Story(x).status, y.acknowledged = x.acknowledged,
         y.decision = "stop_wait" <=> x.decision = "stop_wait"
  PROVE  GoesOn(Story(x), Story(y), pushed)
<1> DEFINE a == Story(x)  b == Story(y)
<1>1. a \in Stories /\ b \in Stories
  BY StoryFields
<1>2. /\ a.asked = b.asked /\ a.status = b.status /\ a.result = b.result
      /\ a.acked = b.acked /\ a.stopped = b.stopped
  BY StoryFields
<1> HIDE DEF a, b
<1>3. a = b
  BY <1>1, <1>2, SameStory
<1> QED  BY <1>3 DEF GoesOn, a, b

\* setSentState of a request that is open.
LEMMA SentGoesOn ==
  ASSUME NEW x \in Record, x.status # "NONE", NEW pushed
  PROVE  /\ ~IsTerminal(x) => GoesOn(Story(x), Story(Sent(x)), pushed)
         /\ GoesOn(Story(x), Story(AfterSend(x)), pushed)
<1>1. ASSUME ~IsTerminal(x) PROVE GoesOn(Story(x), Story(Sent(x)), pushed)
  <2> DEFINE y == Sent(x)
  <2>1. /\ y \in Record /\ y.gen = x.gen /\ y.result = x.result /\ y.status = "SENT"
        /\ y.acknowledged = x.acknowledged /\ y.decision = x.decision
    BY DEF Sent, Record, Active, Codes
  <2>2. x.status \in Active /\ y.status \in Active
    BY <1>1, <2>1 DEF IsTerminal, Record, Active
  <2> HIDE DEF y
  <2> QED  BY <2>1, <2>2, SameGoesOn, StoryFields DEF y
<1> QED  BY <1>1, SameGoesOn DEF AfterSend

\* The ack of the seller.
LEMMA AckedGoesOn ==
  ASSUME NEW x \in Record, ~IsTerminal(x), x.status # "NONE", NEW pushed
  PROVE  GoesOn(Story(x), Story(Acked(x)), pushed)
<1> DEFINE y == Acked(x)  a == Story(x)  b == [a EXCEPT !.acked = TRUE]
<1>1. /\ y \in Record /\ y.gen = x.gen /\ y.result = x.result /\ y.status = "ACKED"
      /\ y.acknowledged = TRUE /\ y.decision = x.decision
  BY DEF Acked, Record, Active, Codes
<1>2. x.status \in Active /\ y.status \in Active
  BY <1>1 DEF IsTerminal, Record, Active
<1> HIDE DEF y
<1>3. a \in Stories /\ a.status = "OPEN" /\ Story(y) \in Stories /\ Story(y).status = "OPEN"
  BY <1>1, <1>2, StoryFields
<1> HIDE DEF a
<1>4. b \in Stories /\ b.asked = a.asked /\ b.status = a.status /\ b.result = a.result
      /\ b.acked = TRUE /\ b.stopped = a.stopped
  BY <1>3 DEF Stories
<1> HIDE DEF b
<1>5. /\ Story(y).asked = a.asked /\ Story(y).result = a.result
      /\ Story(y).stopped = a.stopped /\ Story(y).acked = TRUE
  BY <1>1, StoryFields DEF a
<1>6. Story(y) = b
  BY <1>3, <1>4, <1>5, SameStory
<1> QED  BY <1>3, <1>6 DEF GoesOn, a, b, y

\* applyPlatformEventsToRequest.
LEMMA EventsGoOn ==
  ASSUME NEW x \in Record, NEW seen, x.status # "NONE", NEW pushed
  PROVE  GoesOn(Story(x), Story(ApplyEvents(x, seen)), pushed)
  BY AckedGoesOn, SameGoesOn DEF ApplyEvents

\* A record that gets one of the endings.
LEMMA EndedStory ==
  ASSUME NEW x \in Record, NEW y \in Record, y.gen = x.gen, y.acknowledged = x.acknowledged,
         y.decision = x.decision, NEW e \in Outcomes!Endings,
         Story(y).status = e[1], Story(y).result = e[2]
  PROVE  Ended(Story(x), Story(y))
<1> DEFINE a == Story(x)  b == [a EXCEPT !.status = e[1], !.result = e[2]]
<1>1. a \in Stories /\ Story(y) \in Stories
  BY StoryFields
<1> HIDE DEF a
<1>2. b \in Stories /\ b.asked = a.asked /\ b.status = e[1] /\ b.result = e[2]
      /\ b.acked = a.acked /\ b.stopped = a.stopped
  BY <1>1 DEF Stories, Outcomes!Endings, Terminal
<1> HIDE DEF b
<1>3. Story(y) = b
  BY <1>1, <1>2, StoryFields, SameStory DEF a
<1> QED  BY <1>3 DEF Ended, a, b

\* applyResultPackage: on an open request, or by a push that was let in.
LEMMA ResultGoesOn ==
  ASSUME NEW x \in Record, NEW package \in {"ok", "error", "invalid"}, x.status # "NONE",
         NEW pushed \in BOOLEAN, IsTerminal(x) => pushed
  PROVE  GoesOn(Story(x), Story(ApplyResult(x, package)), pushed)
<1> DEFINE y == ApplyResult(x, package)
           e == IF package = "ok" THEN <<"SUCCEEDED", "ok">>
                ELSE IF package = "error" THEN <<"FAILED", "error">> ELSE <<"UNVERIFIED", "none">>
<1>1. e \in Outcomes!Endings
  BY DEF Outcomes!Endings
<1>2. y \in Record
  BY DEF ApplyResult, Record, Active, Terminal, Codes, PackageKinds
<1>3. /\ y.gen = x.gen /\ y.result = package /\ y.acknowledged = x.acknowledged
      /\ y.decision = x.decision /\ y.status = e[1]
      /\ e[2] = IF package \in {"ok", "error"} THEN package ELSE "none"
  BY DEF ApplyResult, Record
<1>4. y.status \in Terminal \ {"TIMED_OUT"}
  BY <1>1, <1>3 DEF Outcomes!Endings, Terminal
<1> HIDE DEF y, e
<1>5. Story(y).status = e[1] /\ Story(y).result = e[2]
  BY <1>2, <1>3, <1>4, StoryFields
<1>6. Ended(Story(x), Story(y))
  BY <1>1, <1>2, <1>3, <1>5, EndedStory
<1>7. Story(x).status = "OPEN" \/ (Story(x).status \notin {"NONE", "OPEN"} /\ pushed)
  BY StoryFields
<1> QED  BY <1>6, <1>7 DEF GoesOn, y

\* A result that is not JSON, of an open request.
LEMMA GarbledGoesOn ==
  ASSUME NEW x \in Record, Sound(x), ~IsTerminal(x), x.status # "NONE", NEW pushed
  PROVE  GoesOn(Story(x), Story(Garbled(x)), pushed)
<1> DEFINE y == Garbled(x)
<1>1. /\ y \in Record /\ y.gen = x.gen /\ y.acknowledged = x.acknowledged
      /\ y.decision = x.decision /\ y.status = "UNVERIFIED" /\ y.result = x.result
  BY DEF Garbled, Record, Terminal, Codes
<1>2. x.status \in Active /\ x.result = "none"
  BY DEF IsTerminal, Record, Sound
<1> HIDE DEF y
<1>3. /\ Story(x).status = "OPEN"
      /\ Story(y).status = "UNVERIFIED" /\ Story(y).result = "none"
  BY <1>1, <1>2, StoryFields DEF Terminal
<1>4. Ended(Story(x), Story(y))
  <2> DEFINE e == <<"UNVERIFIED", "none">>
  <2>1. e \in Outcomes!Endings /\ e[1] = "UNVERIFIED" /\ e[2] = "none"
    BY DEF Outcomes!Endings
  <2> HIDE DEF e
  <2> QED  BY <1>1, <1>3, <2>1, EndedStory
<1> QED  BY <1>3, <1>4 DEF GoesOn, y

\* A record whose story gets another status, and perhaps the mark of the user's stop.
LEMMA RestatedStory ==
  ASSUME NEW x \in Record, NEW y \in Record, y.gen = x.gen, y.acknowledged = x.acknowledged,
         y.result = x.result, NEW status \in {"TIMED_OUT", "UNDELIVERED"}, Story(y).status = status
  PROVE  /\ (y.decision = "stop_wait" <=> x.decision = "stop_wait")
              => Story(y) = [Story(x) EXCEPT !.status = status]
         /\ y.decision = "stop_wait"
              => Story(y) = [Story(x) EXCEPT !.status = status, !.stopped = TRUE]
<1> DEFINE a == Story(x)  b == [a EXCEPT !.status = status]
           c == [a EXCEPT !.status = status, !.stopped = TRUE]
<1>1. a \in Stories /\ Story(y) \in Stories
  BY StoryFields
<1> HIDE DEF a
<1>2. b \in Stories /\ b.asked = a.asked /\ b.status = status /\ b.result = a.result
      /\ b.acked = a.acked /\ b.stopped = a.stopped
  BY <1>1 DEF Stories, Terminal
<1>3. c \in Stories /\ c.asked = a.asked /\ c.status = status /\ c.result = a.result
      /\ c.acked = a.acked /\ c.stopped = TRUE
  BY <1>1 DEF Stories, Terminal
<1> HIDE DEF b, c
<1>4. (y.decision = "stop_wait" <=> x.decision = "stop_wait") => Story(y) = b
  BY <1>1, <1>2, StoryFields, SameStory DEF a
<1>5. y.decision = "stop_wait" => Story(y) = c
  <2> SUFFICES ASSUME y.decision = "stop_wait" PROVE Story(y) = c
    OBVIOUS
  <2>1. /\ Story(y).asked = a.asked /\ Story(y).result = a.result
        /\ Story(y).acked = a.acked /\ Story(y).stopped = TRUE
    BY StoryFields DEF a
  <2> QED  BY <1>1, <1>3, <2>1, SameStory
<1> QED  BY <1>4, <1>5 DEF a, b, c

\* prepare clears the error code: a timeout forgets its reason.
LEMMA PreparedGoesOn ==
  ASSUME NEW x \in Record, NEW pushed
  PROVE  GoesOn(Story(x), Story(Prepared(x)), pushed)
<1> DEFINE y == Prepared(x)
<1>1. /\ y \in Record /\ y.gen = x.gen /\ y.acknowledged = x.acknowledged /\ y.code = "none"
      /\ y.decision = x.decision /\ y.status = x.status /\ y.result = x.result
  BY DEF Prepared, Record, Codes
<1> HIDE DEF y
<1>2. CASE x.status = "TIMED_OUT" /\ x.code = "delivery"
  <2>1. Story(x).status = "UNDELIVERED" /\ Story(y).status = "TIMED_OUT"
    BY <1>1, <1>2, StoryFields
  <2>2. Story(y) = [Story(x) EXCEPT !.status = "TIMED_OUT"]
    BY <1>1, <2>1, RestatedStory
  <2> QED  BY <2>1, <2>2 DEF GoesOn, y
<1>3. CASE ~(x.status = "TIMED_OUT" /\ x.code = "delivery")
  <2>1. Story(y).status = Story(x).status
    BY <1>1, <1>3 DEF Story
  <2> QED  BY <1>1, <2>1, SameGoesOn DEF y
<1> QED  BY <1>2, <1>3

\* evaluateTimeouts.
LEMMA TimeoutsGoOn ==
  ASSUME NEW x \in Record, Sound(x), NEW d, NEW pushed
  PROVE  GoesOn(Story(x), Story(EvaluateTimeouts(x, d)), pushed)
<1>1. /\ AskToWait(x, d) \in Record /\ AskToWait(x, d).gen = x.gen
      /\ AskToWait(x, d).status = x.status /\ AskToWait(x, d).code = x.code
      /\ AskToWait(x, d).result = x.result /\ AskToWait(x, d).acknowledged = x.acknowledged
      /\ AskToWait(x, d).decision = x.decision
  BY DEF AskToWait, Record
<1>2. ASSUME NEW z \in Record, NEW code \in {"delivery", "hard"}, x.status \in Active,
             z.gen = x.gen, z.result = x.result, z.acknowledged = x.acknowledged,
             z.decision = x.decision, code = "delivery" => ~x.acknowledged
      PROVE  GoesOn(Story(x), Story(TimedOut(z, code)), pushed)
  <2> DEFINE y == TimedOut(z, code)
  <2>1. /\ y \in Record /\ y.gen = x.gen /\ y.acknowledged = x.acknowledged /\ y.code = code
        /\ y.decision = x.decision /\ y.status = "TIMED_OUT" /\ y.result = x.result
    BY <1>2 DEF TimedOut, Record, Codes, Terminal
  <2>2. Story(x).status = "OPEN" /\ Story(x).acked = x.acknowledged
    BY <1>2, StoryFields
  <2> HIDE DEF y
  <2>3. CASE code = "delivery"
    <3>1. Story(y).status = "UNDELIVERED"
      BY <2>1, <2>3, StoryFields
    <3>2. Story(y) = [Story(x) EXCEPT !.status = "UNDELIVERED"]
      BY <2>1, <3>1, RestatedStory
    <3> QED  BY <1>2, <2>2, <2>3, <3>2 DEF GoesOn, y
  <2>4. CASE code = "hard"
    <3>1. Story(y).status = "TIMED_OUT"
      BY <2>1, <2>4, StoryFields
    <3>2. Story(y) = [Story(x) EXCEPT !.status = "TIMED_OUT"]
      BY <2>1, <3>1, RestatedStory
    <3> QED  BY <2>2, <3>2 DEF GoesOn, y
  <2> QED  BY <2>3, <2>4
<1>3. CASE IsTerminal(x)
  BY <1>3, SameGoesOn DEF EvaluateTimeouts
<1>4. CASE ~IsTerminal(x) /\ AckExpired(x, d)
  BY <1>2, <1>4 DEF EvaluateTimeouts, AckExpired, Active
<1>5. CASE ~IsTerminal(x) /\ ~AckExpired(x, d) /\ HardExpired(x, d)
  BY <1>1, <1>2, <1>5 DEF EvaluateTimeouts, HardExpired
<1>6. CASE ~IsTerminal(x) /\ ~AckExpired(x, d) /\ ~HardExpired(x, d)
  <2>1. Story(AskToWait(x, d)).status = Story(x).status
    BY <1>1 DEF Story
  <2> QED  BY <1>1, <1>6, <2>1, SameGoesOn DEF EvaluateTimeouts
<1> QED  BY <1>3, <1>4, <1>5, <1>6

\* The user's decision.
LEMMA DecisionsGoOn ==
  ASSUME NEW x \in Record, x.status # "NONE", NEW pushed
  PROVE  /\ GoesOn(Story(x), Story(StopWaiting(x)), pushed)
         /\ GoesOn(Story(x), Story([x EXCEPT !.decision = "continue_wait", !.confirm = FALSE]),
                   pushed)
<1>1. ASSUME ~IsTerminal(x) PROVE GoesOn(Story(x), Story(StopWaiting(x)), pushed)
  <2> DEFINE y == StopWaiting(x)
  <2>1. /\ y \in Record /\ y.gen = x.gen /\ y.acknowledged = x.acknowledged /\ y.code = "stop"
        /\ y.decision = "stop_wait" /\ y.status = "TIMED_OUT" /\ y.result = x.result
    BY <1>1 DEF StopWaiting, TimedOut, Record, Codes, Terminal, Decisions
  <2> HIDE DEF y
  <2>2. Story(x).status = "OPEN" /\ Story(y).status = "TIMED_OUT"
    BY <1>1, <2>1, StoryFields
  <2>3. Story(y) = [Story(x) EXCEPT !.status = "TIMED_OUT", !.stopped = TRUE]
    BY <2>1, <2>2, RestatedStory
  <2> QED  BY <2>2, <2>3, Zenon DEF GoesOn, y
<1>2. ASSUME IsTerminal(x) PROVE GoesOn(Story(x), Story(StopWaiting(x)), pushed)
  <2> DEFINE y == StopWaiting(x)  a == Story(x)  b == [a EXCEPT !.stopped = TRUE]
  <2>1. /\ y \in Record /\ y.gen = x.gen /\ y.acknowledged = x.acknowledged /\ y.code = x.code
        /\ y.decision = "stop_wait" /\ y.status = x.status /\ y.result = x.result
    BY <1>2 DEF StopWaiting, Record, Decisions
  <2> HIDE DEF y
  <2>2. /\ Story(y) \in Stories /\ Story(y).stopped = TRUE /\ Story(y).asked = a.asked
        /\ Story(y).result = a.result /\ Story(y).acked = a.acked
    BY <2>1, StoryFields
  <2>3. Story(y).status = a.status
    BY <2>1 DEF Story
  <2>4. a \in Stories /\ a.status \notin {"NONE", "OPEN"}
    BY <1>2, StoryFields
  <2> HIDE DEF a
  <2>5. b \in Stories /\ b.asked = a.asked /\ b.status = a.status /\ b.result = a.result
        /\ b.acked = a.acked /\ b.stopped = TRUE
    BY <2>4 DEF Stories
  <2> HIDE DEF b
  <2>6. Story(y) = b
    BY <2>2, <2>3, <2>5, SameStory
  <2>7. Story(x).status \notin {"NONE", "OPEN"} /\ Story(y) = [Story(x) EXCEPT !.stopped = TRUE]
    BY <2>4, <2>6 DEF a, b
  <2> QED  BY <2>7, Zenon DEF GoesOn, y
<1>3. GoesOn(Story(x), Story([x EXCEPT !.decision = "continue_wait", !.confirm = FALSE]), pushed)
  <2> DEFINE y == [x EXCEPT !.decision = "continue_wait", !.confirm = FALSE]
             a == Story(x)  b == [a EXCEPT !.stopped = FALSE]
  <2>1. /\ y \in Record /\ y.gen = x.gen /\ y.acknowledged = x.acknowledged /\ y.code = x.code
        /\ y.decision = "continue_wait" /\ y.status = x.status /\ y.result = x.result
    BY DEF Record, Decisions
  <2> HIDE DEF y
  <2>2. /\ Story(y) \in Stories /\ Story(y).stopped = FALSE /\ Story(y).asked = a.asked
        /\ Story(y).result = a.result /\ Story(y).acked = a.acked
    BY <2>1, StoryFields
  <2>3. Story(y).status = a.status
    BY <2>1 DEF Story
  <2>4. a \in Stories
    BY StoryFields
  <2> HIDE DEF a
  <2>5. b \in Stories /\ b.asked = a.asked /\ b.status = a.status /\ b.result = a.result
        /\ b.acked = a.acked /\ b.stopped = FALSE
    BY <2>4 DEF Stories
  <2> HIDE DEF b
  <2>6. Story(y) = b
    BY <2>2, <2>3, <2>5, SameStory
  <2> QED  BY <2>6 DEF GoesOn, a, b, y
<1> QED  BY <1>1, <1>2, <1>3

\* A record just created, and one that never was.
LEMMA NewStories ==
  ASSUME NEW n \in Nat
  PROVE  /\ Story(FreshRecord(n)) = [Outcomes!Unasked EXCEPT !.asked = n, !.status = "OPEN"]
         /\ Story(NoRecord) = Outcomes!Unasked
<1>1. Story(NoRecord) = Outcomes!Unasked
  <2>1. /\ NoRecord.status = "NONE" /\ NoRecord.gen = 0 /\ NoRecord.result = "none"
        /\ NoRecord.acknowledged = FALSE /\ NoRecord.decision = "pending"
    BY DEF NoRecord, FreshRecord
  <2> QED  BY <2>1 DEF Story, Outcomes!Unasked, Active
<1>2. Story(FreshRecord(n)) = [Outcomes!Unasked EXCEPT !.asked = n, !.status = "OPEN"]
  <2>1. /\ FreshRecord(n).status = "CREATED" /\ FreshRecord(n).gen = n
        /\ FreshRecord(n).result = "none" /\ FreshRecord(n).acknowledged = FALSE
        /\ FreshRecord(n).decision = "pending"
    BY DEF FreshRecord
  <2>2. Story(FreshRecord(n)) =
          [asked |-> n, status |-> "OPEN", result |-> "none", acked |-> FALSE, stopped |-> FALSE]
    BY <2>1 DEF Story, Active
  <2> DEFINE u == Outcomes!Unasked  b == [u EXCEPT !.asked = n, !.status = "OPEN"]
             s == Story(FreshRecord(n))
  <2>3. /\ u \in Stories /\ u.result = "none" /\ u.acked = FALSE /\ u.stopped = FALSE
    BY DEF Outcomes!Unasked, Stories
  <2>4. /\ s \in Stories /\ s.asked = n /\ s.status = "OPEN" /\ s.result = "none"
        /\ s.acked = FALSE /\ s.stopped = FALSE
    BY <2>2 DEF Stories
  <2> HIDE DEF u, s
  <2>5. /\ b \in Stories /\ b.asked = n /\ b.status = "OPEN" /\ b.result = u.result
        /\ b.acked = u.acked /\ b.stopped = u.stopped
    BY <2>3 DEF Stories
  <2> HIDE DEF b
  <2>6. s = b
    BY <2>3, <2>4, <2>5, SameStory
  <2> QED  BY <2>6 DEF s, b, u
<1> QED  BY <1>1, <1>2

\* A push was let in for the asking of r that is told of.
Pushed(r) == <<r, rec[r].gen>> \in Pending

\* One record goes on or is created anew, or none.
MovesOne ==
  \/ rec' = rec
  \/ \E r \in Requests, y \in Record :
       /\ rec' = [rec EXCEPT ![r] = y]
       /\ \/ GoesOn(Story(rec[r]), Story(y), Pushed(r))
          \/ y = FreshRecord(rec[r].gen + 1)

\* One record is replaced.
LEMMA ReplaceMoves ==
  ASSUME NEW r \in Requests, NEW y \in Record, Replace(r, y),
         GoesOn(Story(rec[r]), Story(y), Pushed(r))
  PROVE  MovesOne
  BY DEF Replace, MovesOne

\* createRequestRecord.
LEMMA CreateMoves ==
  ASSUME rec \in [Requests -> Record], NEW r \in Requests, Create(r)
  PROVE  MovesOne
<1>1. rec[r].gen + 1 \in Nat \ {0}
  BY DEF Record
<1>2. FreshRecord(rec[r].gen + 1) \in Record
  BY <1>1, FreshSound
<1> QED  BY <1>2 DEF Create, Replace, MovesOne

\* A handler writes to the record it holds, or to one nobody reads.
LEMMA HandlerMoves ==
  ASSUME rec \in [Requests -> Record], NEW s \in Slots, NEW x, Write(s, x),
         Req(s) \in Requests, x \in Record, Holds(s) =>
         GoesOn(Story(rec[Req(s)]), Story(x), Pushed(Req(s)))
  PROVE  MovesOne
<1>1. CASE Holds(s)
  BY <1>1, ReplaceMoves DEF Write
<1>2. CASE ~Holds(s)
  BY <1>2 DEF Write, MovesOne
<1> QED  BY <1>1, <1>2

\* Every step but a crash moves one record at most, as RequestOutcomes allows.
LEMMA MovesStep ==
  ASSUME TypeOK, HandlersFormed, KnownOK, \A r \in Requests : Sound(rec[r]), Next, ~Crash
  PROVE  MovesOne
<1> USE DEF TypeOK
<1>0. ASSUME rec' = rec PROVE MovesOne
  BY <1>0 DEF MovesOne
<1>r. ASSUME NEW r \in Requests, NEW y, Replace(r, y), Evolves(rec[r], y) \/ Advances(rec[r], y),
             GoesOn(Story(rec[r]), Story(y), Pushed(r))
      PROVE  MovesOne
  <2>1. y \in Record
    BY <1>r DEF Evolves, Advances
  <2> QED  BY <1>r, <2>1, ReplaceMoves
<1>1. ASSUME NEW r \in Requests, Handlers(r) PROVE MovesOne
  <2> rec[r] \in Record /\ Sound(rec[r])
    OBVIOUS
  <2>1. CASE CreateRequest(r)
    BY <2>1, CreateMoves DEF CreateRequest
  <2>2. CASE GetRequest(r)
    BY <2>2, <1>r, TimeoutsAdvance, TimeoutsGoOn DEF GetRequest
  <2>3. CASE MarkSent(r)
    BY <2>3, <1>r, SentAdvances, SentGoesOn DEF MarkSent, Exists
  <2>4. CASE Ack(r)
    BY <2>4, <1>r, <1>0, AckedAdvances, AckedGoesOn DEF Ack, Exists
  <2>5. CASE DecideStop(r)
    BY <2>5, <1>r, DecisionsAdvance, DecisionsGoOn DEF DecideStop, Exists
  <2>6. CASE DecideContinue(r)
    BY <2>6, <1>r, DecisionsAdvance, DecisionsGoOn DEF DecideContinue, Exists
  <2> QED  BY <1>1, <2>1, <2>2, <2>3, <2>4, <2>5, <2>6 DEF Handlers
<1>2. ASSUME NEW r \in Requests, World(r) PROVE MovesOne
  BY <1>2, <1>0 DEF World, PlatformAcks, DeliverResult, Tick, stateVars
<1>3. ASSUME NEW s \in Slots, NEW r \in Requests, StartHandler(s, r) PROVE MovesOne
  <2>1. CASE StartRemoteRequest(s, r)
    BY <2>1, CreateMoves DEF StartRemoteRequest
  <2>2. CASE StartPrepare(s, r)
    BY <2>2, <1>0 DEF StartPrepare
  <2>3. CASE StartDispatch(s, r)
    BY <2>3, <1>0 DEF StartDispatch, stateVars
  <2>4. CASE StartSyncEvents(s, r)
    BY <2>4, <1>0 DEF StartSyncEvents, stateVars
  <2>5. CASE \E package \in Packages \ {"garbled", "blank"} : StartPushResult(s, r, package)
    BY <2>5, <1>0 DEF StartPushResult, stateVars
  <2> QED  BY <1>3, <2>1, <2>2, <2>3, <2>4, <2>5 DEF StartHandler
<1>4. ASSUME NEW s \in Slots, HandlerStep(s) PROVE MovesOne
  <2> DEFINE x == rec[Req(s)]
  <2>0. op[s].step # "none" => Req(s) \in Requests /\ x \in Record /\ x.status # "NONE"
    BY DEF KnownOK, HandlersKnown, Exists
  <2>a. At(s, "meta") \/ At(s, "sent") \/ At(s, "apply") \/ At(s, "body") => op[s].step # "none"
    BY DEF At
  <2>b. ASSUME NEW y, Write(s, y), op[s].step # "none", Evolves(x, y) \/ Advances(x, y),
               Holds(s) => GoesOn(Story(x), Story(y), Pushed(Req(s)))
        PROVE  MovesOne
    <3>1. y \in Record
      BY <2>b DEF Evolves, Advances
    <3> QED  BY <2>0, <2>b, <3>1, HandlerMoves
  <2>1. CASE ReceiveToken(s)
    BY <2>1, <1>0 DEF ReceiveToken, stateVars
  <2>2. CASE RefuseDeliveryMeta(s)
    BY <2>2, <1>0 DEF RefuseDeliveryMeta, stateVars
  <2>3. CASE FinishPrepare(s)
    BY <2>0, <2>a, <2>b, <2>3, PreparedAdvances, PreparedGoesOn DEF FinishPrepare
  <2>4. CASE SendPrepared(s)
    BY <2>0, <2>a, <2>b, <2>4, PreparedAdvances, PreparedGoesOn DEF SendPrepared
  <2>5. CASE FinishSend(s)
    BY <2>0, <2>a, <2>b, <2>5, SentAdvances, SentGoesOn DEF FinishSend
  <2>6. CASE AnswerEvents(s)
    BY <2>6, <1>0 DEF AnswerEvents, stateVars
  <2>7. CASE ApplyAnswer(s)
    BY <2>0, <2>a, <2>b, <2>7, EventsAdvance, EventsGoOn DEF ApplyAnswer
  <2>8. CASE PushResult(s)
    <3>1. op[s].package \in {"ok", "error", "invalid"} /\ At(s, "body")
      BY <2>8 DEF PushResult, HandlersFormed, At
    <3>2. Evolves(x, ApplyResult(x, op[s].package))
      BY <2>0, <2>a, <3>1, ResultEvolves
    <3>3. ASSUME Holds(s) PROVE Pushed(Req(s)) /\ Pushed(Req(s)) \in BOOLEAN
      BY <3>1, <3>3 DEF Pushed, Pending, Holds, Req
    <3>4. ASSUME Holds(s) PROVE GoesOn(Story(x), Story(ApplyResult(x, op[s].package)), Pushed(Req(s)))
      BY <2>0, <2>a, <3>1, <3>3, <3>4, ResultGoesOn
    <3> QED  BY <2>8, <2>a, <2>b, <3>1, <3>2, <3>4 DEF PushResult
  <2> QED  BY <1>4, <2>1, <2>2, <2>3, <2>4, <2>5, <2>6, <2>7, <2>8 DEF HandlerStep
<1>5. ASSUME FinishTail PROVE MovesOne
  BY <1>5, <1>0 DEF FinishTail, stateVars
<1>6. ASSUME NEW p \in Pollers, PollStep(p) PROVE MovesOne
  <2>1. CASE PollInbox(p)
    BY <2>1, <1>0 DEF PollInbox, stateVars
  <2>2. CASE SkipEnvelope(p)
    BY <2>2, <1>0 DEF SkipEnvelope, stateVars
  <2>3. CASE HandleGarbled(p)
    <3>1. Envelope(p).req \in Requests
      BY <2>3, EnvelopeType DEF HandleGarbled, HasEnvelope
    <3> QED  BY <3>1, <2>3, <1>0, <1>r, GarbledAdvances, GarbledGoesOn DEF HandleGarbled, Exists
  <2>4. CASE ApplyEnvelope(p)
    <3> DEFINE r == Envelope(p).req  x == rec[r]  package == Envelope(p).package
    <3>1. r \in Requests
      BY <2>4, EnvelopeType DEF ApplyEnvelope, Carries, HasEnvelope
    <3>2. /\ package \in {"ok", "error", "invalid"} /\ x.status # "NONE" /\ ~IsTerminal(x)
          /\ Replace(r, ApplyResult(x, package))
      BY <2>4 DEF ApplyEnvelope, Carries, Exists
    <3>3. x \in Record /\ Pushed(r) \in BOOLEAN
      BY <3>1 DEF Pushed
    <3> HIDE DEF r, package
    <3>4. Evolves(x, ApplyResult(x, package)) /\ GoesOn(Story(x), Story(ApplyResult(x, package)), Pushed(r))
      BY <3>2, <3>3, ResultEvolves, ResultGoesOn
    <3> QED  BY <3>1, <3>2, <3>4, <1>r
  <2>5. CASE AckApplied(p)
    BY <2>5, <1>0 DEF AckApplied, stateVars
  <2>6. CASE AckLateResult(p)
    BY <2>6, <1>0 DEF AckLateResult, stateVars
  <2>7. CASE EndPoll(p)
    BY <2>7, <1>0 DEF EndPoll, stateVars
  <2> QED  BY <1>6, <2>1, <2>2, <2>3, <2>4, <2>5, <2>6, <2>7 DEF PollStep
<1>7. ASSUME SyncStep PROVE MovesOne
  <2>0. ASSUME NEW x \in sync.seen, ApplySeen(x) PROVE MovesOne
    <3>1. x.held.req \in Requests
      BY <2>0 DEF SyncRun, HeldRecord
    <3>2. rec[x.held.req] \in Record /\ rec[x.held.req].status # "NONE"
      BY <3>1, <2>0 DEF KnownOK, SyncKnown, Exists
    <3> QED  BY <1>0, <1>r, <2>0, <3>1, <3>2, EventsAdvance, EventsGoOn DEF ApplySeen
  <2>1. CASE StartSync
    BY <2>1, <1>0 DEF StartSync, stateVars
  <2>2. CASE AnswerBatch
    BY <2>2, <1>0 DEF AnswerBatch, stateVars
  <2>3. CASE ApplyBatch
    BY <2>0, <2>3 DEF ApplyBatch
  <2>4. CASE FetchOne
    BY <2>4, <1>0 DEF FetchOne, stateVars
  <2>5. CASE ApplyOne
    BY <2>0, <2>5 DEF ApplyOne
  <2>6. CASE AllFetched
    BY <2>6, <1>0 DEF AllFetched, stateVars
  <2>7. CASE EvaluateOne
    <3>1. PICK h \in sync.todo :
            Replace(h.req, IF Exists(h.req) THEN EvaluateTimeouts(rec[h.req], due[h.req])
                           ELSE rec[h.req])
      BY <2>7 DEF EvaluateOne
    <3>2. h.req \in Requests
      BY DEF SyncRun, HeldRecord
    <3>3. rec[h.req] \in Record /\ Sound(rec[h.req])
      BY <3>2
    <3>4. CASE Exists(h.req)
      BY <3>1, <3>2, <3>3, <3>4, <1>r, TimeoutsAdvance, TimeoutsGoOn
    <3>5. CASE ~Exists(h.req)
      BY <3>1, <3>2, <3>3, <3>5, <1>r, SelfAdvances, SameGoesOn
    <3> QED  BY <3>4, <3>5
  <2>8. CASE EndSync
    BY <2>8, <1>0 DEF EndSync, stateVars
  <2> QED  BY <1>7, <2>1, <2>2, <2>3, <2>4, <2>5, <2>6, <2>7, <2>8 DEF SyncStep
<1> QED  BY <1>1, <1>2, <1>3, <1>4, <1>5, <1>6, <1>7 DEF Next

\* A step lets no push in unless it begins to handle one.
LEMMA PendingShrinks ==
  ASSUME \A s \in Slots : op'[s] = op[s] \/ op'[s].step # "body"
  PROVE  Pending' \subseteq Pending
  BY DEF Pending, At

\* Nor does one that leaves the handlers alone.
LEMMA PendingKept ==
  ASSUME op' = op
  PROVE  Pending' \subseteq Pending
  BY PendingShrinks

\* Nor one that moves a single handler to a step other than reading a pushed result.
LEMMA PendingOne ==
  ASSUME op \in [Slots -> Handler], NEW s \in Slots, NEW h, op' = [op EXCEPT ![s] = h],
         h.step # "body"
  PROVE  Pending' \subseteq Pending
<1>1. \A t \in Slots : op'[t] = op[t] \/ op'[t].step # "body"
  OBVIOUS
<1> QED  BY <1>1, PendingShrinks

\* POST result lets a push in; whatever else is done leaves those let in or applies one.
LEMMA PendingStep ==
  ASSUME TypeOK, Next
  PROVE  \/ Pending' \subseteq Pending
         \/ /\ "push" \in Kinds
            /\ \E s \in Slots, r \in Requests, package \in Packages : StartPushResult(s, r, package)
<1>0. op \in [Slots -> Handler]
  BY DEF TypeOK
<1>a. ASSUME NEW s \in Slots, NEW kind, NEW r, NEW gen, NEW step, step # "body",
             Begin(s, kind, r, gen, step)
      PROVE  Pending' \subseteq Pending
  <2> DEFINE h == [Idle EXCEPT !.kind = kind, !.req = r, !.gen = gen, !.step = step]
  <2>1. h.step # "body" /\ op' = [op EXCEPT ![s] = h]
    BY <1>a DEF Idle, Begin
  <2> HIDE DEF h
  <2> QED  BY <1>0, <2>1, PendingOne
<1>b. ASSUME NEW s \in Slots, End(s) PROVE Pending' \subseteq Pending
  <2>1. Idle.step # "body"
    BY DEF Idle
  <2> QED  BY <1>0, <1>b, <2>1, PendingOne DEF End
<1>c. ASSUME NEW s \in Slots, NEW step, step # "body", Step(s, step) PROVE Pending' \subseteq Pending
  <2>1. \A t \in Slots : op'[t] = op[t] \/ op'[t].step # "body"
    BY <1>0, <1>c DEF Step, Handler
  <2> QED  BY <2>1, PendingShrinks
<1>1. ASSUME NEW r \in Requests, Handlers(r) \/ World(r) PROVE Pending' \subseteq Pending
  <2>1. op' = op
    BY <1>1 DEF Handlers, CreateRequest, GetRequest, MarkSent, Ack, DecideStop, DecideContinue,
                World, PlatformAcks, DeliverResult, Tick
  <2> QED  BY <2>1, PendingKept
<1>2. ASSUME NEW s \in Slots, NEW r \in Requests, StartHandler(s, r)
      PROVE  \/ Pending' \subseteq Pending
             \/ "push" \in Kinds /\ \E package \in Packages : StartPushResult(s, r, package)
  <2>1. CASE StartRemoteRequest(s, r)
    BY <1>a, <2>1 DEF StartRemoteRequest
  <2>2. CASE StartPrepare(s, r)
    BY <1>a, <2>2 DEF StartPrepare
  <2>3. CASE StartDispatch(s, r)
    BY <1>a, <2>3, PendingKept DEF StartDispatch
  <2>4. CASE StartSyncEvents(s, r)
    BY <1>a, <2>4 DEF StartSyncEvents
  <2> QED  BY <1>2, <2>1, <2>2, <2>3, <2>4 DEF StartHandler
<1>3. ASSUME NEW s \in Slots, HandlerStep(s) PROVE Pending' \subseteq Pending
  <2>1. CASE ReceiveToken(s)
    BY <1>b, <1>c, <2>1 DEF ReceiveToken
  <2>2. CASE SendPrepared(s)
    BY <1>b, <1>c, <2>2 DEF SendPrepared
  <2>3. CASE AnswerEvents(s)
    <3>1. CASE End(s)
      BY <1>b, <3>1
    <3>2. CASE op' = [op EXCEPT ![s].step = "apply", ![s].seen = events[Req(s)]]
      <4>1. \A t \in Slots : op'[t] = op[t] \/ op'[t].step # "body"
        BY <1>0, <3>2 DEF Handler
      <4> QED  BY <4>1, PendingShrinks
    <3> QED  BY <2>3, <3>1, <3>2 DEF AnswerEvents
  <2>4. CASE RefuseDeliveryMeta(s) \/ FinishPrepare(s) \/ FinishSend(s) \/ ApplyAnswer(s)
               \/ PushResult(s)
    BY <1>b, <2>4 DEF RefuseDeliveryMeta, FinishPrepare, FinishSend, ApplyAnswer, PushResult
  <2> QED  BY <1>3, <2>1, <2>2, <2>3, <2>4 DEF HandlerStep
<1>4. ASSUME FinishTail PROVE Pending' \subseteq Pending
  BY <1>4, PendingKept DEF FinishTail
<1>5. ASSUME NEW p \in Pollers, PollStep(p) PROVE Pending' \subseteq Pending
  <2>1. op' = op
    BY <1>5 DEF PollStep, PollInbox, SkipEnvelope, HandleGarbled, ApplyEnvelope, AckApplied,
                AckLateResult, EndPoll
  <2> QED  BY <2>1, PendingKept
<1>6. ASSUME SyncStep PROVE Pending' \subseteq Pending
  <2>1. op' = op
    BY <1>6 DEF SyncStep, StartSync, AnswerBatch, ApplyBatch, FetchOne, ApplyOne, AllFetched,
                EvaluateOne, EndSync
  <2> QED  BY <2>1, PendingKept
<1>7. ASSUME Crash PROVE Pending' \subseteq Pending
  <2>1. \A s \in Slots : op'[s] = op[s] \/ op'[s].step # "body"
    BY <1>7 DEF Crash, Idle
  <2> QED  BY <2>1, PendingShrinks
<1> QED  BY <1>1, <1>2, <1>3, <1>4, <1>5, <1>6, <1>7 DEF Next

\* What moves in a record moves in what is told of it.
LEMMA ToldMoves ==
  ASSUME rec \in [Requests -> Record], MovesOne
  PROVE  Told' = Told \/ \E r \in Requests : Outcomes!Move(r)
<1>1. CASE rec' = rec
  BY <1>1 DEF Told
<1>2. ASSUME NEW r \in Requests, NEW y \in Record, rec' = [rec EXCEPT ![r] = y],
             \/ GoesOn(Story(rec[r]), Story(y), Pushed(r))
             \/ y = FreshRecord(rec[r].gen + 1)
      PROVE  Told' = Told \/ Outcomes!Move(r)
  <2> DEFINE a == Told[r]  b == Story(y)
  <2>1. a = Story(rec[r]) /\ a.asked = rec[r].gen /\ rec[r].gen + 1 \in Nat
    BY StoryFields DEF Told, Record
  <2>2. Told' = [Told EXCEPT ![r] = b]
    BY <1>2 DEF Told
  <2>3. Told \in [Requests -> Stories]
    BY StoryFields DEF Told
  <2>4. \A z : Outcomes!Becomes(r, z) <=> Told' = [Told EXCEPT ![r] = z]
    BY DEF Outcomes!Becomes, Told
  <2>5. /\ Outcomes!Open(r) <=> a.status = "OPEN"
        /\ Outcomes!Over(r) <=> a.status \notin {"NONE", "OPEN"}
    BY DEF Outcomes!Open, Outcomes!Over, Told
  <2>6. Pushed(r) <=> <<r, a.asked>> \in Pending
    BY <2>1 DEF Pushed
  <2>7. CASE y = FreshRecord(rec[r].gen + 1)
    <3>1. b = [Outcomes!Unasked EXCEPT !.asked = a.asked + 1, !.status = "OPEN"]
      BY <2>1, <2>7, NewStories
    <3>2. Outcomes!Ask(r)
      BY <2>2, <2>4, <3>1 DEF Outcomes!Ask, Told
    <3> QED  BY <3>2 DEF Outcomes!Move
  <2>8. CASE GoesOn(a, b, Pushed(r))
    <3> HIDE DEF b
    <3>1. CASE b = a
      BY <2>2, <2>3, <3>1
    <3>2. CASE a.status = "OPEN" /\ b = [a EXCEPT !.acked = TRUE]
      <4>1. Outcomes!Acknowledge(r)
        BY <2>2, <2>4, <2>5, <3>2 DEF Outcomes!Acknowledge, Told
      <4> QED  BY <4>1 DEF Outcomes!Move
    <3>3. ASSUME Ended(a, b) PROVE Outcomes!End(r)
      BY <2>2, <2>4, <3>3 DEF Ended, Outcomes!End, Told
    <3>4. CASE a.status = "OPEN" /\ Ended(a, b)
      <4>1. Outcomes!Answer(r)
        BY <2>5, <3>3, <3>4 DEF Outcomes!Answer
      <4> QED  BY <4>1 DEF Outcomes!Move
    <3>5. CASE a.status = "OPEN" /\ b = [a EXCEPT !.status = "TIMED_OUT"]
      <4>1. Outcomes!Expire(r)
        BY <2>2, <2>4, <2>5, <3>5 DEF Outcomes!Expire, Told
      <4> QED  BY <4>1 DEF Outcomes!Move
    <3>6. CASE a.status = "OPEN" /\ ~a.acked /\ b = [a EXCEPT !.status = "UNDELIVERED"]
      <4>1. Outcomes!Undelivered(r)
        BY <2>2, <2>4, <2>5, <3>6 DEF Outcomes!Undelivered, Told
      <4> QED  BY <4>1 DEF Outcomes!Move
    <3>7. CASE \/ a.status = "OPEN" /\ b = [a EXCEPT !.status = "TIMED_OUT", !.stopped = TRUE]
               \/ a.status \notin {"NONE", "OPEN"} /\ b = [a EXCEPT !.stopped = TRUE]
      <4>1. Outcomes!GiveUp(r)
        BY <2>2, <2>4, <2>5, <3>7 DEF Outcomes!GiveUp, Told
      <4> QED  BY <4>1 DEF Outcomes!Move
    <3>8. CASE a.status \notin {"NONE", "OPEN"} /\ Pushed(r) /\ Ended(a, b)
      <4>1. <<r, Told[r].asked>> \in Pending
        BY <2>6, <3>8
      <4>2. Outcomes!Override(r)
        BY <2>5, <3>3, <3>8, <4>1 DEF Outcomes!Override, Told, Pending
      <4> QED  BY <4>2 DEF Outcomes!Move
    <3>9. CASE a.status = "UNDELIVERED" /\ b = [a EXCEPT !.status = "TIMED_OUT"]
      <4>1. Outcomes!Forget(r)
        BY <2>2, <2>4, <3>9 DEF Outcomes!Forget, Told
      <4> QED  BY <4>1 DEF Outcomes!Move
    <3>10. CASE b = [a EXCEPT !.stopped = FALSE]
      <4>1. Outcomes!WaitOn(r)
        BY <2>2, <2>4, <3>10 DEF Outcomes!WaitOn, Told
      <4> QED  BY <4>1 DEF Outcomes!Move
    <3> QED  BY <2>8, <3>1, <3>2, <3>4, <3>5, <3>6, <3>7, <3>8, <3>9, <3>10, Zenon DEF GoesOn
  <2> QED  BY <1>2, <2>1, <2>7, <2>8
<1> QED  BY <1>1, <1>2 DEF MovesOne

\* Every step is one that RequestOutcomes allows.
LEMMA OutcomesStep ==
  ASSUME Formed, OutcomeInv, Next
  PROVE  Outcomes!Next
<1>1. /\ rec \in [Requests -> Record] /\ op \in [Slots -> Handler]
      /\ \A r \in Requests : Sound(rec[r])
  BY DEF Formed, TypeOK, OutcomeInv, AllSound
<1>2. CASE Crash
  <2>1. rec' = disk /\ disk' = disk /\ op' = [s \in Slots |-> Idle]
    BY <1>2 DEF Crash
  <2>2. Told' = Kept /\ Kept' = Kept
    BY <2>1 DEF Told, Kept
  <2>3. Pending' = {}
    BY <2>1 DEF Pending, At, Idle
  <2>4. Outcomes!Restart
    BY <2>2, <2>3 DEF Outcomes!Restart, Told, Kept, Pending
  <2> QED  BY <2>4 DEF Outcomes!Next
<1>3. CASE \E s \in Slots, r \in Requests, package \in Packages : StartPushResult(s, r, package)
  <2>1. PICK s \in Slots, r \in Requests, package \in Packages : StartPushResult(s, r, package)
    BY <1>3
  <2> DEFINE h == [Idle EXCEPT !.kind = "push", !.req = r, !.gen = rec[r].gen, !.step = "body",
                               !.package = package]
  <2>2. /\ op[s] = Idle /\ op' = [op EXCEPT ![s] = h] /\ rec' = rec /\ disk' = disk
        /\ rec[r].status # "NONE" /\ ~IsTerminal(rec[r])
    BY <2>1 DEF StartPushResult, stateVars, Exists
  <2>3. h.step = "body" /\ h.req = r /\ h.gen = rec[r].gen /\ Idle.step # "body"
    BY DEF Idle
  <2> HIDE DEF h
  <2>4. Pending' = Pending \cup {<<r, rec[r].gen>>}
    <3>1. \A t \in Slots : op'[t] = IF t = s THEN h ELSE op[t]
      BY <1>1, <2>2
    <3>2. ~At(s, "body")
      BY <2>2, <2>3 DEF At
    <3>3. Pending \cup {<<r, rec[r].gen>>} \subseteq Pending'
      <4>1. <<r, rec[r].gen>> \in Pending'
        BY <2>3, <3>1 DEF Pending, At
      <4>2. Pending \subseteq Pending'
        BY <3>1, <3>2 DEF Pending, At
      <4> QED  BY <4>1, <4>2
    <3>4. Pending' \subseteq Pending \cup {<<r, rec[r].gen>>}
      BY <2>3, <3>1 DEF Pending, At
    <3> QED  BY <3>3, <3>4
  <2>5. Told[r].status = "OPEN" /\ Told[r].asked = rec[r].gen
    BY <1>1, <2>2, StoryFields DEF Told, IsTerminal, Record
  <2>6. Told' = Told /\ Kept' = Kept
    BY <2>2 DEF Told, Kept
  <2>7. Outcomes!LetIn(r)
    BY <2>4, <2>5, <2>6 DEF Outcomes!LetIn, Outcomes!Open, Told, Kept, Pending
  <2> QED  BY <2>7 DEF Outcomes!Next
<1>4. CASE ~Crash /\ Pending' \subseteq Pending
  <2>1. MovesOne /\ Saved
    BY <1>1, <1>4, MovesStep, RecordsStep DEF Formed
  <2>2. Told' = Told \/ \E r \in Requests : Outcomes!Move(r)
    BY <1>1, <2>1, ToldMoves
  <2>3. Kept' = Kept \/ Kept' = Told'
    BY <2>1 DEF Saved, Kept, Told
  <2>4. Outcomes!Work
    BY <1>4, <2>2, <2>3 DEF Outcomes!Work, Told, Kept, Pending
  <2> QED  BY <2>4 DEF Outcomes!Next
<1> QED  BY <1>2, <1>3, <1>4, PendingStep DEF Formed

\* The buyer controller implements RequestOutcomes: whatever handlers, loops, deadlines, late
\* messages, failing calls and restarts come together, a request takes one of the steps that
\* module has, and a result overrides an outcome only if POST result let it in before.
THEOREM OutcomesImplemented == Spec => ImplementsOutcomes
<1>1. Init => Outcomes!Init
  <2> SUFFICES ASSUME Init PROVE Outcomes!Init
    OBVIOUS
  <2>1. Told = [r \in Requests |-> Outcomes!Unasked] /\ Kept = Told
    BY NewStories DEF Init, Told, Kept
  <2>2. Pending = {}
    BY DEF Init, Pending, At, Idle
  <2> QED  BY <2>1, <2>2 DEF Outcomes!Init, Told, Kept, Pending
<1>2. Formed /\ OutcomeInv /\ [Next]_vars => [Outcomes!Next]_<<Told, Kept, Pending>>
  <2> SUFFICES ASSUME Formed, OutcomeInv, [Next]_vars PROVE [Outcomes!Next]_<<Told, Kept, Pending>>
    OBVIOUS
  <2>1. CASE UNCHANGED vars
    <3>1. rec' = rec /\ disk' = disk /\ op' = op
      BY <2>1 DEF vars, stateVars
    <3> QED  BY <3>1 DEF Told, Kept, Pending, At
  <2> QED  BY <2>1, OutcomesStep
<1> QED
  BY <1>1, <1>2, OutcomeInvariant, AlwaysFormed, PTL
  DEF Spec, ImplementsOutcomes, Outcomes!Spec, Told, Kept, Pending
-----------------------------------------------------------------------------
(* Without pushed results                                                  *)

\* No pushed result is let in and not applied yet.
NoPush == Pending = {}

\* Where results are not pushed, there never is one.
LEMMA NothingPushed ==
  ASSUME "push" \notin Kinds
  PROVE  Spec => []NoPush
<1>1. Init => NoPush
  BY DEF Init, NoPush, Pending, At, Idle
<1>2. Formed /\ NoPush /\ [Next]_vars => NoPush'
  <2>1. CASE UNCHANGED vars
    BY <2>1 DEF vars, stateVars, NoPush, Pending, At
  <2> QED  BY <2>1, PendingStep DEF Formed, NoPush
<1> QED  BY <1>1, <1>2, AlwaysFormed, PTL DEF Spec

\* Where no seller pushes, the first result accepted for a request is the one it keeps until
\* the request is created again or the process restarts: whatever the inbox brings in twice, and
\* whichever loop reads it, applyResultPackage runs once.
THEOREM FirstResultStays ==
  ASSUME "push" \notin Kinds
  PROVE  Spec => ResultAcceptedOnce
<1>1. Formed /\ OutcomeInv /\ NoPush /\ [Next]_vars
        => [\A r \in Requests :
              rec[r].result # "none" /\ SameRecord(r) => rec'[r].result = rec[r].result]_vars
  <2> SUFFICES ASSUME Formed, OutcomeInv, NoPush, Next, NEW r \in Requests,
                      rec[r].result # "none", SameRecord(r)
               PROVE  rec'[r].result = rec[r].result
    OBVIOUS
  <2>1. IsTerminal(rec[r])
    BY DEF OutcomeInv, AllSound, Sound, IsTerminal, Terminal, Active, Formed, TypeOK, Record
  <2>2. ~PushesResult(r)
    BY DEF PushesResult, NoPush, Pending
  <2> QED  BY <2>1, <2>2, SameRecordStep DEF Advances
<1> QED  BY <1>1, NothingPushed, OutcomeInvariant, AlwaysFormed, PTL
         DEF Spec, ResultAcceptedOnce
=============================================================================
