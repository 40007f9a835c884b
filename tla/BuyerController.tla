--------------------------- MODULE BuyerController ---------------------------
(***************************************************************************)
(* The buyer controller: packages/buyer-controller-core/src/index.js, as   *)
(* apps/buyer-controller/src/server.js runs it: the HTTP handlers, the two *)
(* background loops (inbox and event sync) and the persisted snapshot.     *)
(*                                                                         *)
(* What runs between two awaits is one step, up to and including the call  *)
(* it then awaits.  A failing call throws; "failed" means the callee never *)
(* saw it, "lost" that it acted and its answer was lost.                   *)
(*                                                                         *)
(* A handler holds the record object it looked up.  Creating a request id  *)
(* again replaces the object in state.requests, so a handler still holding *)
(* the old one writes to a record nobody reads: gen tells them apart.      *)
(***************************************************************************)
EXTENDS Integers, Sequences, FiniteSets

CONSTANTS
  Requests,      \* request ids
  Slots,         \* HTTP handlers in progress at a time
  Kinds,         \* the kinds of handlers that wait, of those in OpKinds
  Pollers,       \* concurrent runs of pollBuyerInbox (the loop, POST inbox/pull)
  Deadlines,     \* the deadlines that may pass
  Packages,      \* the kinds of result envelopes that arrive
  AutoFinalize,  \* config.hard_timeout_auto_finalize
  DefaultKey,    \* the controller has a platform api key of its own
  Limit,         \* messages one poll returns (10 in the code)
  FaultyCalls,   \* the call sites that may fail
  MaxCreates,    \* bound: how often a request id is created
  MaxSends,      \* bound: envelopes sent for a request
  MaxMessages,   \* bound: result envelopes delivered
  MaxTails,      \* bound: handlers awaiting their metric or save
  MaxFaults,     \* bound: failed calls
  MaxCrashes     \* bound: crashes

Calls == {"token", "meta", "send", "events", "batch", "metric", "ack"}
PackageKinds == {"ok", "error", "invalid", "garbled", "blank"}

OpKinds == {"remote", "prepare", "dispatch", "sync", "push"}

ASSUME BuyerAssumption ==
  /\ Kinds \subseteq OpKinds
  /\ AutoFinalize \in BOOLEAN /\ DefaultKey \in BOOLEAN
  /\ Deadlines \subseteq {"ack", "soft", "hard"}
  /\ Packages \subseteq PackageKinds /\ FaultyCalls \subseteq Calls
  /\ Limit \in Nat \ {0}
  /\ {MaxCreates, MaxSends, MaxMessages, MaxTails, MaxFaults, MaxCrashes} \subseteq Nat

VARIABLES
  rec,        \* state.requests: the current record of each request id
  due,        \* the deadlines of the current record that have passed
  auth,       \* requestPlatformAuth: requests with a platform key, in memory only
  disk,       \* the last snapshot
  op,         \* HTTP handlers in progress
  tails,      \* handlers that only have their metric and their save left
  poll,       \* pollBuyerInbox runs
  sync,       \* syncBuyerActiveRequests, one run at a time
  mailbox,    \* result envelopes waiting for the buyer
  delivered,  \* how many were ever delivered
  events,     \* what the platform recorded about each request
  sends,      \* how often a request's envelope was sent
  consumed,   \* requests with a package taken out of the mailbox
  faults, crashes

stateVars == <<rec, due, auth>>
netVars == <<mailbox, delivered, events, sends, consumed>>
vars == <<stateVars, disk, op, tails, poll, sync, netVars, faults, crashes>>

Active == {"CREATED", "SENT", "ACKED"}
Terminal == {"SUCCEEDED", "FAILED", "UNVERIFIED", "TIMED_OUT"}
Events == {"ISSUED", "ACKED"}
Decisions == {"pending", "continue_wait", "stop_wait"}
Codes == {"none", "delivery", "hard", "stop", "unverified", "exec"}

-----------------------------------------------------------------------------
(* Records                                                                 *)

Record ==
  [status : Active \cup Terminal \cup {"NONE"}, gen : Nat, decision : Decisions,
   acknowledged : BOOLEAN, confirm : BOOLEAN, code : Codes,
   result : PackageKinds \cup {"none"}]

FreshRecord(gen) ==
  [status |-> "CREATED", gen |-> gen, decision |-> "pending", acknowledged |-> FALSE,
   confirm |-> FALSE, code |-> "none", result |-> "none"]

NoRecord == [FreshRecord(0) EXCEPT !.status = "NONE"]

IsTerminal(x) == x.status \in Terminal
Exists(r) == rec[r].status # "NONE"

\* setSentState: a new ack deadline; acknowledged_at stays.
SentForgetsAck(x) ==
  [x EXCEPT !.status = "SENT", !.code = "none", !.acknowledged = FALSE]
Sent(x) == [x EXCEPT !.status = "SENT", !.code = "none"]

\* After transport.send: SENT unless the request became terminal meanwhile.
AfterSendAlways(x) == Sent(x)
AfterSend(x) == IF IsTerminal(x) THEN x ELSE Sent(x)

Acked(x) == [x EXCEPT !.status = "ACKED", !.code = "none", !.acknowledged = TRUE]

\* applyResultPackage: no look at the status the record has.
ApplyKeepsCode(x, package) ==
  [x EXCEPT !.result = package,
            !.status = CASE package = "ok" -> "SUCCEEDED" [] package = "error" -> "FAILED"
                         [] OTHER -> "UNVERIFIED"]
ApplyStatusVerbatim(x, package) ==
  [x EXCEPT !.result = package, !.status = package]
ApplyResult(x, package) ==
  [x EXCEPT !.result = package,
            !.status = CASE package = "ok" -> "SUCCEEDED" [] package = "error" -> "FAILED"
                         [] OTHER -> "UNVERIFIED",
            !.code = CASE package = "ok" -> "none" [] package = "error" -> "exec"
                       [] OTHER -> "unverified"]

\* applyPlatformEventsToRequest: COMPLETED and FAILED are copied to the record and nothing
\* depends on them; only ACKED moves it.
ApplyEventsAnyStatus(x, seen) ==
  IF "ACKED" \in seen /\ x.status # "ACKED" THEN Acked(x) ELSE x
ApplyEvents(x, seen) ==
  IF "ACKED" \in seen /\ ~IsTerminal(x) /\ x.status # "ACKED" THEN Acked(x) ELSE x

\* evaluateTimeouts, when the deadlines in d have passed.
TimedOut(x, code) == [x EXCEPT !.status = "TIMED_OUT", !.code = code, !.confirm = FALSE]

AckExpired(x, d) ==
  /\ x.status = "SENT" /\ "ack" \in d
  /\ ~x.acknowledged /\ x.decision # "continue_wait"

HardNeverExpires(x, d) == FALSE
HardExpired(x, d) ==
  /\ AutoFinalize /\ x.status \in Active /\ "hard" \in d /\ x.decision # "continue_wait"

AskToWait(x, d) ==
  IF "soft" \in d /\ x.decision = "pending" THEN [x EXCEPT !.confirm = TRUE] ELSE x

EvaluateTimeouts(x, d) ==
  IF IsTerminal(x) THEN x
  ELSE IF AckExpired(x, d) THEN TimedOut(x, "delivery")
  ELSE IF HardExpired(x, d) THEN TimedOut(AskToWait(x, d), "hard")
  ELSE AskToWait(x, d)

TimesOut(x, d) == EvaluateTimeouts(x, d).status # x.status

-----------------------------------------------------------------------------
(* Saves, calls, tails                                                     *)

Save == disk' = rec'

Attempt(c, o) ==
  \/ o = "ok" /\ UNCHANGED faults
  \/ /\ o \in {"lost", "failed"}
     /\ c \in FaultyCalls
     /\ faults < MaxFaults
     /\ faults' = faults + 1

CallOutcomes == {"ok", "lost", "failed"}

\* The rest of a handler: await its metric, await its save, answer.
AwaitTail == tails < MaxTails /\ tails' = tails + 1

FinishTail ==
  /\ tails > 0
  /\ tails' = tails - 1
  /\ \E o \in CallOutcomes :
       /\ Attempt("metric", o)
       /\ IF o = "ok" THEN disk' = rec ELSE UNCHANGED disk
  /\ UNCHANGED <<stateVars, op, poll, sync, netVars, crashes>>

-----------------------------------------------------------------------------
(* Handlers that change the state in one go                                *)

Replace(r, x) == rec' = [rec EXCEPT ![r] = x]

Create(r) ==
  /\ rec[r].gen < MaxCreates
  /\ Replace(r, FreshRecord(rec[r].gen + 1))
  /\ due' = [due EXCEPT ![r] = {}]

CreateRequest(r) ==
  /\ Create(r)
  /\ Save
  /\ UNCHANGED <<auth, op, tails, poll, sync, netVars, faults, crashes>>

\* GET of a request or of the list: deadlines are evaluated on the way.
GetRequest(r) ==
  /\ Exists(r)
  /\ Replace(r, EvaluateTimeouts(rec[r], due[r]))
  /\ IF TimesOut(rec[r], due[r]) THEN AwaitTail ELSE UNCHANGED tails
  /\ UNCHANGED <<due, auth, disk, op, poll, sync, netVars, faults, crashes>>

MarkSent(r) ==
  /\ Exists(r) /\ ~IsTerminal(rec[r])
  /\ Replace(r, Sent(rec[r]))
  /\ due' = [due EXCEPT ![r] = @ \ {"ack"}]
  /\ Save
  /\ UNCHANGED <<auth, op, tails, poll, sync, netVars, faults, crashes>>

Ack(r) ==
  /\ Exists(r)
  /\ IF IsTerminal(rec[r]) THEN UNCHANGED rec ELSE Replace(r, Acked(rec[r]))
  /\ AwaitTail
  /\ UNCHANGED <<due, auth, disk, op, poll, sync, netVars, faults, crashes>>

\* POST timeout-decision: the decision is noted on terminal requests too.
StopWithoutTimingOut(x) == [x EXCEPT !.decision = "stop_wait", !.confirm = FALSE]
StopWaiting(x) ==
  LET y == [x EXCEPT !.decision = "stop_wait", !.confirm = FALSE]
  IN  IF IsTerminal(x) THEN y ELSE TimedOut(y, "stop")

DecideStop(r) ==
  /\ Exists(r)
  /\ Replace(r, StopWaiting(rec[r]))
  /\ AwaitTail
  /\ UNCHANGED <<due, auth, disk, op, poll, sync, netVars, faults, crashes>>

DecideContinue(r) ==
  /\ Exists(r)
  /\ Replace(r, [rec[r] EXCEPT !.decision = "continue_wait", !.confirm = FALSE])
  /\ Save
  /\ UNCHANGED <<due, auth, op, tails, poll, sync, netVars, faults, crashes>>

-----------------------------------------------------------------------------
(* Handlers that wait                                                      *)

Idle == [kind |-> "idle", req |-> "none", gen |-> 0, step |-> "none", seen |-> {},
         package |-> "none"]

Begin(s, kind, r, gen, step) ==
  op' = [op EXCEPT ![s] = [Idle EXCEPT !.kind = kind, !.req = r, !.gen = gen, !.step = step]]
Step(s, step) == op' = [op EXCEPT ![s].step = step]
End(s) == op' = [op EXCEPT ![s] = Idle]

At(s, step) == op[s].step = step
Req(s) == op[s].req

\* The record object the handler holds is still the one in state.requests.
Holds(s) == rec[Req(s)].gen = op[s].gen
Write(s, x) == IF Holds(s) THEN Replace(Req(s), x) ELSE UNCHANGED rec

\* transport.send of the task envelope.
SendEnvelope(s, r, o) ==
  /\ sends[r] < MaxSends
  /\ Attempt("send", o)
  /\ sends' = IF o = "failed" THEN sends ELSE [sends EXCEPT ![r] = @ + 1]

\* POST /controller/remote-requests: create, then ask the platform for a token.
StartRemoteRequest(s, r) ==
  /\ op[s] = Idle
  /\ Create(r)
  /\ auth' = auth \cup {r}
  /\ Begin(s, "remote", r, rec[r].gen + 1, "token")
  /\ UNCHANGED <<disk, tails, poll, sync, netVars, faults, crashes>>

StartPrepare(s, r) ==
  /\ op[s] = Idle /\ Exists(r)
  /\ auth' = auth \cup {r}
  /\ Begin(s, "prepare", r, rec[r].gen, "token")
  /\ UNCHANGED <<rec, due, disk, tails, poll, sync, netVars, faults, crashes>>

ReceiveToken(s) ==
  /\ At(s, "token")
  /\ \E o \in CallOutcomes :
       /\ Attempt("token", o)
       /\ IF o = "ok" THEN Step(s, "meta") ELSE End(s)
       /\ events' = IF o = "failed" THEN events ELSE [events EXCEPT ![Req(s)] = @ \cup {"ISSUED"}]
  /\ UNCHANGED <<stateVars, disk, tails, poll, sync, mailbox, delivered, sends, consumed, crashes>>

\* getDeliveryMeta failed, or named another signer than the one expected.
RefuseDeliveryMeta(s) ==
  /\ At(s, "meta")
  /\ \E o \in CallOutcomes \ {"ok"} : Attempt("meta", o)
  /\ End(s)
  /\ UNCHANGED <<stateVars, disk, tails, poll, sync, netVars, crashes>>

Prepared(x) == [x EXCEPT !.code = "none"]

\* Clearing last_error_code on a terminal record is part of the code.
FinishPrepare(s) ==
  /\ At(s, "meta") /\ op[s].kind = "prepare"
  /\ Write(s, Prepared(rec[Req(s)]))
  /\ Save
  /\ End(s)
  /\ UNCHANGED <<due, auth, tails, poll, sync, netVars, faults, crashes>>

\* remote-requests goes on with the contract draft and the send.
SendPrepared(s) ==
  /\ At(s, "meta") /\ op[s].kind = "remote"
  /\ Write(s, Prepared(rec[Req(s)]))
  /\ \E o \in CallOutcomes :
       /\ SendEnvelope(s, Req(s), o)
       /\ IF o = "ok" THEN Step(s, "sent") ELSE End(s)
  /\ UNCHANGED <<due, auth, disk, tails, poll, sync, mailbox, delivered, events, consumed,
                 crashes>>

StartDispatch(s, r) ==
  /\ op[s] = Idle /\ Exists(r)
  /\ \E o \in CallOutcomes :
       /\ SendEnvelope(s, r, o)
       /\ IF o = "ok" THEN Begin(s, "dispatch", r, rec[r].gen, "sent") ELSE UNCHANGED op
  /\ UNCHANGED <<stateVars, disk, tails, poll, sync, mailbox, delivered, events, consumed,
                 crashes>>

\* The send returned.
FinishSend(s) ==
  /\ At(s, "sent")
  /\ Write(s, AfterSend(rec[Req(s)]))
  /\ due' = IF Holds(s) /\ ~IsTerminal(rec[Req(s)]) THEN [due EXCEPT ![Req(s)] = @ \ {"ack"}]
            ELSE due
  /\ AwaitTail
  /\ End(s)
  /\ UNCHANGED <<auth, disk, poll, sync, netVars, faults, crashes>>

\* POST sync-events: the platform answers with what it knows at that moment...
StartSyncEvents(s, r) ==
  /\ op[s] = Idle /\ Exists(r)
  /\ Begin(s, "sync", r, rec[r].gen, "events")
  /\ UNCHANGED <<stateVars, disk, tails, poll, sync, netVars, faults, crashes>>

AnswerEvents(s) ==
  /\ At(s, "events")
  /\ \E o \in CallOutcomes :
       /\ Attempt("events", o)
       /\ IF o = "ok"
          THEN op' = [op EXCEPT ![s].step = "apply", ![s].seen = events[Req(s)]]
          ELSE End(s)
  /\ UNCHANGED <<stateVars, disk, tails, poll, sync, netVars, crashes>>

\* ...and the answer is applied when it arrives.
ApplyAnswer(s) ==
  /\ At(s, "apply")
  /\ Write(s, ApplyEvents(rec[Req(s)], op[s].seen))
  /\ IF "ACKED" \in op[s].seen THEN AwaitTail /\ UNCHANGED disk ELSE Save /\ UNCHANGED tails
  /\ End(s)
  /\ UNCHANGED <<due, auth, poll, sync, netVars, faults, crashes>>

\* POST result: the terminal check comes before the body is read...
StartPushResult(s, r, package) ==
  /\ op[s] = Idle /\ Exists(r) /\ ~IsTerminal(rec[r])
  /\ op' = [op EXCEPT ![s] = [Idle EXCEPT !.kind = "push", !.req = r, !.gen = rec[r].gen,
                                          !.step = "body", !.package = package]]
  /\ UNCHANGED <<stateVars, disk, tails, poll, sync, netVars, faults, crashes>>

\* ...and is not repeated after.
PushResult(s) ==
  /\ At(s, "body")
  /\ Write(s, ApplyResult(rec[Req(s)], op[s].package))
  /\ AwaitTail
  /\ End(s)
  /\ UNCHANGED <<due, auth, disk, poll, sync, netVars, faults, crashes>>

-----------------------------------------------------------------------------
(* pollBuyerInbox, run p                                                   *)

PollIdle == [step |-> "idle", batch |-> <<>>, mutated |-> FALSE]

Envelope(p) == Head(poll[p].batch)
NextEnvelope(p, mutated) ==
  poll' = [poll EXCEPT ![p] = [step |-> "next", batch |-> Tail(@.batch), mutated |-> mutated]]
AbortPoll(p) == poll' = [poll EXCEPT ![p] = PollIdle]

PollInbox(p) ==
  /\ poll[p].step = "idle" /\ mailbox # <<>>
  /\ poll' = [poll EXCEPT ![p] =
       [step |-> "next", mutated |-> FALSE,
        batch |-> SubSeq(mailbox, 1, IF Limit < Len(mailbox) THEN Limit ELSE Len(mailbox))]]
  /\ UNCHANGED <<stateVars, disk, op, tails, sync, netVars, faults, crashes>>

RemoveNothing(m) == mailbox
RemoveMessage(m) ==
  IF \E i \in DOMAIN mailbox : mailbox[i] = m
  THEN LET i == CHOOSE j \in DOMAIN mailbox : mailbox[j] = m
       IN  SubSeq(mailbox, 1, i - 1) \o SubSeq(mailbox, i + 1, Len(mailbox))
  ELSE mailbox

\* transport.ack of the current envelope, which ends its turn.
AckEnvelope(p, mutated) ==
  \E o \in CallOutcomes :
    /\ Attempt("ack", o)
    /\ mailbox' = IF o = "failed" THEN mailbox ELSE RemoveMessage(Envelope(p))
    /\ consumed' = IF o = "failed" THEN consumed ELSE consumed \cup {Envelope(p).req}
    /\ IF o = "ok" THEN NextEnvelope(p, mutated) ELSE AbortPoll(p)
    /\ UNCHANGED <<delivered, events, sends>>

HasEnvelope(p) == poll[p].step = "next" /\ poll[p].batch # <<>>

\* An envelope without a package, or about a request this controller does not know.
SkipEnvelope(p) ==
  /\ HasEnvelope(p)
  /\ \/ Envelope(p).package = "blank"
     \/ Envelope(p).package # "garbled" /\ ~Exists(Envelope(p).req)
  /\ NextEnvelope(p, poll[p].mutated)
  /\ UNCHANGED <<stateVars, disk, op, tails, sync, netVars, faults, crashes>>

\* A body that is not JSON: UNVERIFIED at once, no metric.
Garbled(x) == [x EXCEPT !.status = "UNVERIFIED", !.code = "unverified"]
HandleGarbled(p) ==
  /\ HasEnvelope(p) /\ Envelope(p).package = "garbled"
  /\ LET r == Envelope(p).req
         hit == Exists(r) /\ ~IsTerminal(rec[r])
     IN  /\ IF hit THEN Replace(r, Garbled(rec[r])) ELSE UNCHANGED rec
         /\ AckEnvelope(p, poll[p].mutated \/ hit)
  /\ UNCHANGED <<due, auth, disk, op, tails, sync, crashes>>

Carries(p) == HasEnvelope(p) /\ Envelope(p).package \in {"ok", "error", "invalid"}

ApplyEnvelope(p) ==
  /\ Carries(p) /\ Exists(Envelope(p).req) /\ ~IsTerminal(rec[Envelope(p).req])
  /\ Replace(Envelope(p).req, ApplyResult(rec[Envelope(p).req], Envelope(p).package))
  /\ \E o \in CallOutcomes :
       /\ Attempt("metric", o)
       /\ IF o = "ok" THEN poll' = [poll EXCEPT ![p].step = "ack"] ELSE AbortPoll(p)
  /\ UNCHANGED <<due, auth, disk, op, tails, sync, netVars, crashes>>

AckApplied(p) ==
  /\ poll[p].step = "ack"
  /\ AckEnvelope(p, TRUE)
  /\ UNCHANGED <<stateVars, disk, op, tails, sync, crashes>>

AckWithoutCheck(p) ==
  /\ Carries(p) /\ Exists(Envelope(p).req)
  /\ AckEnvelope(p, poll[p].mutated)
  /\ UNCHANGED <<stateVars, disk, op, tails, sync, crashes>>
AckLateResult(p) ==
  /\ Carries(p) /\ Exists(Envelope(p).req) /\ IsTerminal(rec[Envelope(p).req])
  /\ AckEnvelope(p, poll[p].mutated)
  /\ UNCHANGED <<stateVars, disk, op, tails, sync, crashes>>

\* The batch is done: save if anything changed, after every ack.
EndPollUnsaved(p) ==
  /\ poll[p].step = "next" /\ poll[p].batch = <<>>
  /\ AbortPoll(p)
  /\ UNCHANGED <<stateVars, disk, op, tails, sync, netVars, faults, crashes>>
EndPoll(p) ==
  /\ poll[p].step = "next" /\ poll[p].batch = <<>>
  /\ disk' = IF poll[p].mutated THEN rec ELSE disk
  /\ AbortPoll(p)
  /\ UNCHANGED <<stateVars, op, tails, sync, netVars, faults, crashes>>

-----------------------------------------------------------------------------
(* syncBuyerActiveRequests.  All requests use one platform key and fit in  *)
(* one batch.                                                              *)

Held(r) == [req |-> r, gen |-> rec[r].gen]
SyncIdle == [step |-> "idle", targets |-> {}, todo |-> {}, seen |-> {}, mutated |-> FALSE]
SyncAt(step) == sync.step = step

HasKey(r) == DefaultKey \/ r \in auth

\* The active requests with a platform client.
SyncTargetsNeverSent == {Held(r) : r \in {q \in Requests : rec[q].status = "CREATED" /\ HasKey(q)}}
SyncTargets == {Held(r) : r \in {q \in Requests : rec[q].status \in Active /\ HasKey(q)}}

EvaluateAll(mutated) ==
  sync' = [SyncIdle EXCEPT !.step = "timeouts", !.todo = {Held(r) : r \in Requests},
                           !.mutated = mutated]

StartSync ==
  /\ SyncAt("idle")
  /\ \E r \in Requests : Exists(r)
  /\ IF SyncTargets = {} THEN EvaluateAll(FALSE)
     ELSE sync' = [SyncIdle EXCEPT !.step = "batch", !.targets = SyncTargets]
  /\ UNCHANGED <<stateVars, disk, op, tails, poll, netVars, faults, crashes>>

\* getRequestEventsBatch: the requests the platform knows, with their events.
Seen(h) == [held |-> h, events |-> events[h.req]]
AnswerBatch ==
  /\ SyncAt("batch")
  /\ \E o \in CallOutcomes :
       /\ Attempt("batch", o)
       /\ sync' = IF o = "ok"
                  THEN [sync EXCEPT !.step = "apply",
                          !.seen = {Seen(h) : h \in {g \in sync.targets : events[g.req] # {}}}]
                  ELSE [sync EXCEPT !.step = "each", !.todo = sync.targets]
  /\ UNCHANGED <<stateVars, disk, op, tails, poll, netVars, crashes>>

ApplySeen(x) ==
  IF rec[x.held.req].gen = x.held.gen
  THEN Replace(x.held.req, ApplyEvents(rec[x.held.req], x.events))
  ELSE UNCHANGED rec

\* One request of the batch answer.  If its metric throws, all are asked for one by one.
ApplyBatch ==
  /\ SyncAt("apply")
  /\ \E x \in sync.seen :
       /\ ApplySeen(x)
       /\ \E o \in CallOutcomes :
            /\ IF "ACKED" \in x.events THEN Attempt("metric", o) ELSE o = "ok" /\ UNCHANGED faults
            /\ sync' = IF o = "ok" THEN [sync EXCEPT !.seen = @ \ {x}, !.mutated = TRUE]
                       ELSE [sync EXCEPT !.step = "each", !.todo = sync.targets, !.seen = {}]
  /\ UNCHANGED <<due, auth, disk, op, tails, poll, netVars, crashes>>

FetchOne ==
  /\ SyncAt("each")
  /\ \E h \in sync.todo, o \in CallOutcomes :
       /\ Attempt("events", o)
       /\ sync' = IF o = "ok" /\ events[h.req] # {}
                  THEN [sync EXCEPT !.step = "applyOne", !.todo = @ \ {h}, !.seen = {Seen(h)}]
                  ELSE [sync EXCEPT !.todo = @ \ {h}]
  /\ UNCHANGED <<stateVars, disk, op, tails, poll, netVars, crashes>>

ApplyOne ==
  /\ SyncAt("applyOne")
  /\ \E x \in sync.seen :
       /\ ApplySeen(x)
       /\ \E o \in CallOutcomes :
            /\ IF "ACKED" \in x.events THEN Attempt("metric", o) ELSE o = "ok" /\ UNCHANGED faults
            /\ sync' = [sync EXCEPT !.step = "each", !.seen = {}, !.mutated = @ \/ o = "ok"]
  /\ UNCHANGED <<due, auth, disk, op, tails, poll, netVars, crashes>>

AllFetched ==
  /\ \/ SyncAt("apply") /\ sync.seen = {}
     \/ SyncAt("each") /\ sync.todo = {}
  /\ EvaluateAll(sync.mutated)
  /\ UNCHANGED <<stateVars, disk, op, tails, poll, netVars, faults, crashes>>

\* The deadlines of every request.  A metric that throws ends the run without a save.
EvaluateOne ==
  /\ SyncAt("timeouts")
  /\ \E h \in sync.todo, o \in CallOutcomes :
       LET r == h.req  late == TimesOut(rec[r], due[r])
       IN  /\ Replace(r, IF Exists(r) THEN EvaluateTimeouts(rec[r], due[r]) ELSE rec[r])
           /\ IF late THEN Attempt("metric", o) ELSE o = "ok" /\ UNCHANGED faults
           /\ sync' = IF o = "ok" THEN [sync EXCEPT !.todo = @ \ {h}, !.mutated = @ \/ late]
                      ELSE SyncIdle
  /\ UNCHANGED <<due, auth, disk, op, tails, poll, netVars, crashes>>

EndSync ==
  /\ SyncAt("timeouts") /\ sync.todo = {}
  /\ disk' = IF sync.mutated THEN rec ELSE disk
  /\ sync' = SyncIdle
  /\ UNCHANGED <<stateVars, op, tails, poll, netVars, faults, crashes>>

-----------------------------------------------------------------------------
(* Crash and restart: hydrateBuyerState.  Deadlines are times: the ones    *)
(* that have passed may be found passed at once (Tick).                    *)

Crash ==
  /\ crashes < MaxCrashes
  /\ crashes' = crashes + 1
  /\ rec' = disk
  /\ due' = [r \in Requests |-> {}]
  /\ auth' = {}
  /\ op' = [s \in Slots |-> Idle]
  /\ tails' = 0
  /\ poll' = [p \in Pollers |-> PollIdle]
  /\ sync' = SyncIdle
  /\ UNCHANGED <<disk, netVars, faults>>

-----------------------------------------------------------------------------
(* The world: the platform, the sellers' results, time.                    *)

PlatformAcks(r) ==
  /\ sends[r] > 0
  /\ events' = [events EXCEPT ![r] = @ \cup {"ACKED"}]
  /\ UNCHANGED <<stateVars, disk, op, tails, poll, sync, mailbox, delivered, sends, consumed,
                 faults, crashes>>

DeliverResult(r, package) ==
  /\ sends[r] > 0 /\ delivered < MaxMessages
  /\ delivered' = delivered + 1
  /\ mailbox' = Append(mailbox, [id |-> delivered + 1, req |-> r, package |-> package])
  /\ UNCHANGED <<stateVars, disk, op, tails, poll, sync, events, sends, consumed, faults, crashes>>

\* A deadline passes that the code may still look at.
Tick(r, d) ==
  /\ rec[r].status \in IF d = "ack" THEN {"SENT"} ELSE Active
  /\ due' = [due EXCEPT ![r] = @ \cup {d}]
  /\ UNCHANGED <<rec, auth, disk, op, tails, poll, sync, netVars, faults, crashes>>

-----------------------------------------------------------------------------
Init ==
  /\ rec = [r \in Requests |-> NoRecord]
  /\ due = [r \in Requests |-> {}]
  /\ auth = {}
  /\ disk = rec
  /\ op = [s \in Slots |-> Idle]
  /\ tails = 0
  /\ poll = [p \in Pollers |-> PollIdle]
  /\ sync = SyncIdle
  /\ mailbox = <<>> /\ delivered = 0
  /\ events = [r \in Requests |-> {}]
  /\ sends = [r \in Requests |-> 0]
  /\ consumed = {}
  /\ faults = 0 /\ crashes = 0

Handlers(r) ==
  \/ CreateRequest(r) \/ GetRequest(r) \/ MarkSent(r) \/ Ack(r)
  \/ DecideStop(r) \/ DecideContinue(r)

StartHandler(s, r) ==
  \/ "remote" \in Kinds /\ StartRemoteRequest(s, r)
  \/ "prepare" \in Kinds /\ StartPrepare(s, r)
  \/ "dispatch" \in Kinds /\ StartDispatch(s, r)
  \/ "sync" \in Kinds /\ StartSyncEvents(s, r)
  \/ /\ "push" \in Kinds
     /\ \E package \in Packages \ {"garbled", "blank"} : StartPushResult(s, r, package)

HandlerStep(s) ==
  \/ ReceiveToken(s) \/ RefuseDeliveryMeta(s) \/ FinishPrepare(s) \/ SendPrepared(s)
  \/ FinishSend(s) \/ AnswerEvents(s) \/ ApplyAnswer(s) \/ PushResult(s)

PollStep(p) ==
  \/ PollInbox(p) \/ SkipEnvelope(p) \/ HandleGarbled(p) \/ ApplyEnvelope(p)
  \/ AckApplied(p) \/ AckLateResult(p) \/ EndPoll(p)

SyncStep ==
  \/ StartSync \/ AnswerBatch \/ ApplyBatch \/ FetchOne \/ ApplyOne \/ AllFetched
  \/ EvaluateOne \/ EndSync

World(r) ==
  \/ PlatformAcks(r)
  \/ \E package \in Packages : DeliverResult(r, package)
  \/ \E d \in Deadlines : Tick(r, d)

Next ==
  \/ \E r \in Requests : Handlers(r) \/ World(r)
  \/ \E s \in Slots, r \in Requests : StartHandler(s, r)
  \/ \E s \in Slots : HandlerStep(s)
  \/ FinishTail
  \/ \E p \in Pollers : PollStep(p)
  \/ SyncStep
  \/ Crash

Spec == Init /\ [][Next]_vars

\* The timers of the two loops keep firing, started handlers go on, calls return.
FairSpec ==
  /\ Spec
  /\ \A p \in Pollers : WF_vars(PollStep(p))
  /\ \A s \in Slots : WF_vars(HandlerStep(s))
  /\ WF_vars(SyncStep)
  /\ WF_vars(FinishTail)

-----------------------------------------------------------------------------
(* Properties                                                              *)

HeldRecord == [req : Requests, gen : Nat]
Envelopes == [id : Nat, req : Requests, package : PackageKinds]
Handler ==
  [kind : OpKinds \cup {"idle"}, req : Requests \cup {"none"}, gen : Nat,
   step : {"none", "token", "meta", "sent", "events", "apply", "body"},
   seen : SUBSET Events, package : PackageKinds \cup {"none"}]
PollRun == [step : {"idle", "next", "ack"}, batch : Seq(Envelopes), mutated : BOOLEAN]
SyncRun ==
  [step : {"idle", "batch", "apply", "each", "applyOne", "timeouts"},
   targets : SUBSET HeldRecord, todo : SUBSET HeldRecord,
   seen : SUBSET [held : HeldRecord, events : SUBSET Events], mutated : BOOLEAN]

\* Every variable stays in its range, the records on disk included.
TypeOK ==
  /\ rec \in [Requests -> Record] /\ disk \in [Requests -> Record]
  /\ due \in [Requests -> SUBSET Deadlines]
  /\ auth \in SUBSET Requests
  /\ op \in [Slots -> Handler]
  /\ tails \in 0..MaxTails
  /\ poll \in [Pollers -> PollRun]
  /\ sync \in SyncRun
  /\ mailbox \in Seq(Envelopes) /\ delivered \in 0..MaxMessages
  /\ events \in [Requests -> SUBSET Events]
  /\ sends \in [Requests -> 0..MaxSends]
  /\ consumed \in SUBSET Requests
  /\ faults \in Nat /\ crashes \in Nat

\* The step replaced neither the record (by creating the id again) nor the process.
SameRecord(r) == rec'[r].gen = rec[r].gen /\ crashes' = crashes

\* A handler for POST result finishes for r in this step.
PushesResult(r) == \E s \in Slots : At(s, "body") /\ Req(s) = r /\ op'[s] = Idle

\* A request that is over keeps its outcome, whichever loop, handler or late message comes
\* after: only POST result can overwrite it.
OnlyPushOverwrites ==
  [][\A r \in Requests :
       IsTerminal(rec[r]) /\ SameRecord(r) /\ ~PushesResult(r)
         => rec'[r].status = rec[r].status /\ rec'[r].result = rec[r].result]_vars

\* The first result accepted for a request is the one it keeps.
ResultAcceptedOnce ==
  [][\A r \in Requests :
       rec[r].result # "none" /\ SameRecord(r) => rec'[r].result = rec[r].result]_vars

\* No save and no restart makes a finished request on disk unfinished again.
DurableOutcome ==
  [][\A r \in Requests :
       IsTerminal(disk[r]) /\ disk'[r].gen = disk[r].gen => IsTerminal(disk'[r])]_vars

\* A result leaves the mailbox only for a request that is over, as long as the controller
\* does not crash and the request is created once.
ResultNotLost ==
  crashes = 0 => \A r \in consumed : rec[r].gen = 1 => IsTerminal(rec[r])

\* A request the user stopped waiting for is over, and no send, ack or event that was
\* under way revives it.
StopIsFinal ==
  \A r \in Requests : rec[r].decision = "stop_wait" => IsTerminal(rec[r])

\* The status, the stored package, the error code and the user's decision of a record tell
\* the same story, whatever order results, timeouts, pushes and stops came in.
OutcomeConsistent ==
  /\ StopIsFinal
  /\ \A r \in Requests :
       /\ rec[r].status = "SUCCEEDED" <=> rec[r].result = "ok"
       /\ rec[r].status = "FAILED" <=> rec[r].result = "error"
       /\ rec[r].status = "TIMED_OUT" => rec[r].result = "none"
       /\ rec[r].status \in Active \cup {"SUCCEEDED"} => rec[r].code = "none"

\* A request once acknowledged stays so, also when a send finishes after the ack, and is
\* not declared undelivered.
NoFalseDeliveryTimeout ==
  [][\A r \in Requests :
       rec[r].acknowledged /\ SameRecord(r)
         => rec'[r].acknowledged /\ rec'[r].code # "delivery"]_vars

\* What a record says to a reader who does not see sends and error codes.
Story(x) ==
  [asked |-> x.gen,
   status |-> CASE x.status \in Active -> "OPEN"
                [] x.status = "TIMED_OUT" /\ x.code = "delivery" -> "UNDELIVERED"
                [] OTHER -> x.status,
   result |-> IF x.result \in {"ok", "error"} THEN x.result ELSE "none",
   acked |-> x.acknowledged, stopped |-> x.decision = "stop_wait"]

Outcomes == INSTANCE RequestOutcomes WITH
  told <- [r \in Requests |-> Story(rec[r])],
  saved <- [r \in Requests |-> Story(disk[r])],
  pushes <- {<<op[s].req, op[s].gen>> : s \in {t \in Slots : At(t, "body")}}

\* The controller implements RequestOutcomes: every write of a handler or loop, every save
\* and restart is a step that module allows, so a request ends once and only a push that
\* was let in before overrides it.
ImplementsOutcomes == Outcomes!Spec

\* A request past its hard deadline is over at last, unless the user decided to wait.
HardDeadlineEnforced ==
  \A r \in Requests :
    Exists(r) /\ "hard" \in due[r] ~> IsTerminal(rec[r]) \/ rec[r].decision = "continue_wait"

\* What the platform knows of the seller's ack reaches the record, if it has a key to ask.
AckObserved ==
  \A r \in Requests :
    "ACKED" \in events[r] /\ Exists(r) ~> rec[r].acknowledged \/ IsTerminal(rec[r])

\* A result for a known request leaves the mailbox.
ResultConsumed ==
  \A n \in 1..MaxMessages :
    (\E i \in DOMAIN mailbox : mailbox[i].id = n /\ mailbox[i].package # "blank"
                                 /\ Exists(mailbox[i].req))
      ~> ~\E i \in DOMAIN mailbox : mailbox[i].id = n

\* The outcome of a request reaches the disk, if no metric fails on the way.
OutcomeSaved == \A r \in Requests : IsTerminal(rec[r]) ~> IsTerminal(disk[r])
=============================================================================
