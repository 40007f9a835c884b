---------------------------- MODULE SellerRuntime ----------------------------
(***************************************************************************)
(* The seller controller: packages/seller-runtime-core/src/index.js, as    *)
(* apps/seller-controller/src/server.js runs it.                           *)
(*                                                                         *)
(* Node runs one callback at a time, so what a handler does between two    *)
(* awaits is one step here, up to and including the call it then awaits.   *)
(* Everything else may run while it waits: other inbox pulls, POST         *)
(* /controller/tasks, the workers, a crash.                                *)
(*                                                                         *)
(* A call over the network may fail.  "failed" means the callee never saw  *)
(* it, "lost" that the callee acted and only the answer was lost; both     *)
(* throw.  The snapshot store is the sqlite one: a save is complete when   *)
(* saveSnapshot returns its promise.                                       *)
(***************************************************************************)
EXTENDS Integers, Sequences, FiniteSets

CONSTANTS
  Requests,     \* request ids
  Urgent,       \* the requests with the smaller priority number
  Foreign,      \* requests for a subagent this seller does not offer
  Pullers,      \* concurrent runs of processSellerInbox (the loop, POST inbox/pull)
  PostReqs,     \* requests that may also arrive by POST /controller/tasks
  Outcomes,     \* what executor.execute may do
  Workers,      \* workerConcurrency
  Limit,        \* how many messages one poll returns
  FaultyCalls,  \* the call sites that may fail
  MaxMessages,  \* bound: messages the buyers send
  MaxTasks,     \* bound: task records created
  MaxFaults,    \* bound: failed calls
  MaxCrashes    \* bound: crashes other than by an unhandled rejection

Calls == {"receivedMetric", "replaySend", "introspect", "rejectSend", "rejectMetric",
          "acceptMetric", "platformAck", "ack", "resultSend", "event", "resultMetric"}

ASSUME SellerAssumption ==
  /\ Urgent \subseteq Requests /\ Foreign \subseteq Requests /\ PostReqs \subseteq Requests
  /\ Outcomes \subseteq {"ok", "error", "throw", "deferred"}
  /\ FaultyCalls \subseteq Calls
  /\ Workers \in Nat \ {0} /\ Limit \in Nat \ {0}
  /\ MaxMessages \in Nat /\ MaxTasks \in Nat /\ MaxFaults \in Nat /\ MaxCrashes \in Nat

VARIABLES
  tasks, index, queue,   \* state.tasks, state.requestIndex, state.queue
  active,                \* state.activeTaskIds
  wpc,                   \* where runQueuedTask is, for each task
  ppc, batch, cand,      \* where a pull is, its unhandled messages, its unremembered task
  posts,                 \* POST /controller/tasks handlers awaiting their save
  disk,                  \* the last snapshot
  mailbox, nsent,        \* the seller's transport queue, and how often buyers sent
  created,               \* task ids given out
  sent,                  \* results handed to the transport
  executed,              \* how often a request was executed
  reported,              \* lifecycle events the platform recorded
  consumed,              \* requests with a message removed from the mailbox
  faults, crashes, boots

storeVars == <<tasks, index, queue>>
workVars  == <<active, wpc>>
pullVars  == <<ppc, batch, cand>>
netVars   == <<mailbox, nsent, consumed>>
seenVars  == <<sent, executed, reported>>
lifeVars  == <<crashes, boots>>
vars == <<storeVars, workVars, pullVars, posts, disk, netVars, created, seenVars, faults,
          lifeVars>>

TaskIds == 1..MaxTasks
None == 0
Results == {"none", "ok", "error", "runtime_error", "rejected"}
Least(a, b) == IF a < b THEN a ELSE b

-----------------------------------------------------------------------------
(* Task records.  Every task that came by the transport has a return       *)
(* route; a posted one has the route its body names, if any.               *)

Task == [req : Requests, status : {"QUEUED", "RUNNING", "COMPLETED"}, result : Results,
         deferred : BOOLEAN, routed : BOOLEAN]
NoTask == [req |-> None, status |-> "NONE", result |-> "none", deferred |-> FALSE,
           routed |-> FALSE]

NewTaskWithStaleResult(r, routed) ==
  [req |-> r, status |-> "QUEUED", result |-> "pending", deferred |-> FALSE, routed |-> routed]

NewTask(r, routed) ==
  [req |-> r, status |-> "QUEUED", result |-> "none", deferred |-> FALSE, routed |-> routed]

CompletedAsOk(task, res) == [task EXCEPT !.status = "COMPLETED", !.result = "ok"]

Completed(task, res) == [task EXCEPT !.status = "COMPLETED", !.result = res]

\* getTaskByRequestId finds a task
KnownOnlyWhenDone(r) == index[r] # None /\ tasks[index[r]].status = "COMPLETED"
Known(r) == index[r] # None

Remember(t, task) ==
  /\ tasks' = [tasks EXCEPT ![t] = task]
  /\ index' = [index EXCEPT ![task.req] = t]

SaveNothing == UNCHANGED disk
Save == disk' = [tasks |-> tasks', index |-> index', queue |-> queue']

\* The save enqueueTask makes before it schedules.
SaveEnqueued == Save

-----------------------------------------------------------------------------
(* The queue: sorted by priority, then by the time the task was created.   *)
(* Task ids stand for those times: they are given out in order.            *)

Before(t, u) ==
  LET urgent(x) == tasks'[x].req \in Urgent
  IN  IF urgent(t) = urgent(u) THEN t < u ELSE urgent(t)

LastPlace(t) == Len(queue) + 1
Place(t) == 1 + Cardinality({i \in DOMAIN queue : Before(queue[i], t)})

InsertIntoQueue(t) ==
  queue' = SubSeq(queue, 1, Place(t) - 1) \o <<t>> \o SubSeq(queue, Place(t), Len(queue))

EnqueueTask(t, task) ==
  /\ Remember(t, task)
  /\ InsertIntoQueue(t)
  /\ SaveEnqueued

FreeSlotsPlusOne(busy) == Workers + 1 - Cardinality(busy)
FreeSlots(busy) == Workers - Cardinality(busy)

\* The tasks scheduleProcessQueue takes off the queue when `busy` are active.
NumToStart(busy) == Least(Len(queue), FreeSlots(busy))
ToStart(busy) == {queue[i] : i \in 1..NumToStart(busy)}
Started(busy) ==
  [t \in TaskIds |-> IF t \in ToStart(busy) THEN [tasks[t] EXCEPT !.status = "RUNNING"]
                                            ELSE tasks[t]]
Remaining(busy) == SubSeq(queue, NumToStart(busy) + 1, Len(queue))

\* A started runQueuedTask saves before its first wait.
SaveStarted(busy) == IF ToStart(busy) = {} THEN UNCHANGED disk ELSE Save

\* scheduleProcessQueue, called when the workers stand at `stage`.
Schedule(busy, stage) ==
  /\ tasks' = Started(busy)
  /\ queue' = Remaining(busy)
  /\ active' = busy \cup ToStart(busy)
  /\ wpc' = [t \in TaskIds |-> IF t \in ToStart(busy) THEN "delay" ELSE stage[t]]
  /\ UNCHANGED index
  /\ SaveStarted(busy)

-----------------------------------------------------------------------------
(* Calls that may fail                                                     *)

Attempt(c, o) ==
  \/ o = "ok" /\ UNCHANGED faults
  \/ /\ o \in {"lost", "failed"}
     /\ c \in FaultyCalls
     /\ faults < MaxFaults
     /\ faults' = faults + 1

CallOutcomes == {"ok", "lost", "failed"}

\* sendResultEnvelope: nothing is sent for a task without a return route.
SendResult(r, res, routed, c, o) ==
  /\ IF routed THEN Attempt(c, o) ELSE o = "ok" /\ UNCHANGED faults
  /\ sent' = IF routed /\ o # "failed" THEN sent \cup {<<r, res>>} ELSE sent

Report(r, event, c, o) ==
  /\ Attempt(c, o)
  /\ reported' = IF o = "failed" THEN reported
                 ELSE [reported EXCEPT ![r] = @ \cup {event}]

-----------------------------------------------------------------------------
(* processSellerInbox, run by puller p                                     *)

Goto(p, label) == ppc' = [ppc EXCEPT ![p] = label]

\* An awaited call threw: the pull gives up its batch, unhandled messages stay unacked.
Abort(p) ==
  /\ Goto(p, "idle")
  /\ batch' = [batch EXCEPT ![p] = <<>>]
  /\ cand' = [cand EXCEPT ![p] = None]

\* Go on to `label` when the awaited call succeeded.
Proceed(p, o, label) ==
  IF o = "ok" THEN Goto(p, label) /\ UNCHANGED <<batch, cand>> ELSE Abort(p)

Envelope(p) == Head(batch[p])

PollInbox(p) ==
  /\ ppc[p] = "idle"
  /\ mailbox # <<>>
  /\ batch' = [batch EXCEPT ![p] = SubSeq(mailbox, 1, Least(Limit, Len(mailbox)))]
  /\ Goto(p, "next")
  /\ UNCHANGED <<storeVars, workVars, cand, posts, disk, netVars, created, seenVars, faults,
                 lifeVars>>

\* The for loop ends, or skips an envelope for another subagent without acking it.
SkipEnvelope(p) ==
  /\ ppc[p] = "next"
  /\ \/ batch[p] = <<>> /\ Goto(p, "idle") /\ UNCHANGED batch
     \/ /\ batch[p] # <<>> /\ Envelope(p).req \in Foreign
        /\ batch' = [batch EXCEPT ![p] = Tail(@)]
        /\ UNCHANGED ppc
  /\ UNCHANGED <<storeVars, workVars, cand, posts, disk, netVars, created, seenVars, faults,
                 lifeVars>>

ReceiveEnvelope(p) ==
  /\ ppc[p] = "next" /\ batch[p] # <<>> /\ Envelope(p).req \notin Foreign
  /\ \E o \in CallOutcomes :
       /\ Attempt("receivedMetric", o)
       /\ Proceed(p, o, "lookup")
  /\ UNCHANGED <<storeVars, workVars, posts, disk, netVars, created, seenVars, lifeVars>>

\* transport.ack(message_id) of the current envelope, then on to the next one.
RemoveNothing(m) == mailbox
RemoveMessage(m) ==
  IF \E i \in DOMAIN mailbox : mailbox[i] = m
  THEN LET i == CHOOSE j \in DOMAIN mailbox : mailbox[j] = m
       IN  SubSeq(mailbox, 1, i - 1) \o SubSeq(mailbox, i + 1, Len(mailbox))
  ELSE mailbox

AckEnvelope(p) ==
  \E o \in CallOutcomes :
    /\ Attempt("ack", o)
    /\ mailbox' = IF o = "failed" THEN mailbox ELSE RemoveMessage(Envelope(p))
    /\ consumed' = IF o = "failed" THEN consumed ELSE consumed \cup {Envelope(p).req}
    /\ IF o = "ok"
       THEN /\ Goto(p, "next")
            /\ batch' = [batch EXCEPT ![p] = Tail(@)]
            /\ cand' = [cand EXCEPT ![p] = None]
       ELSE Abort(p)
    /\ UNCHANGED nsent

AckHandled(p) ==
  /\ ppc[p] = "ack"
  /\ AckEnvelope(p)
  /\ UNCHANGED <<storeVars, workVars, posts, disk, created, seenVars, lifeVars>>

\* A request that is already queued or running: ack the duplicate.
AckDuplicate(p) ==
  /\ ppc[p] = "lookup"
  /\ Known(Envelope(p).req)
  /\ tasks[index[Envelope(p).req]].result = "none"
  /\ AckEnvelope(p)
  /\ UNCHANGED <<storeVars, workVars, posts, disk, created, seenVars, lifeVars>>

\* A request with a result: send that result again, to the sender of this envelope.
ReplayResult(p) ==
  /\ ppc[p] = "lookup"
  /\ Known(Envelope(p).req)
  /\ LET task == tasks[index[Envelope(p).req]]
     IN  /\ task.result # "none"
         /\ \E o \in CallOutcomes :
              /\ SendResult(task.req, task.result, TRUE, "replaySend", o)
              /\ Proceed(p, o, "ack")
  /\ UNCHANGED <<storeVars, workVars, posts, disk, netVars, created, executed, reported,
                 lifeVars>>

\* A new request: createTaskRecord, then introspect its token.
CreateTask(p) ==
  /\ ppc[p] = "lookup"
  /\ ~Known(Envelope(p).req)
  /\ created < MaxTasks
  /\ created' = created + 1
  /\ cand' = [cand EXCEPT ![p] = created + 1]
  /\ Goto(p, "introspect")
  /\ UNCHANGED <<storeVars, workVars, batch, posts, disk, netVars, seenVars, faults, lifeVars>>

IntrospectionFails(p) ==
  /\ ppc[p] = "introspect"
  /\ \E o \in CallOutcomes \ {"ok"} : Attempt("introspect", o)
  /\ Abort(p)
  /\ UNCHANGED <<storeVars, workVars, posts, disk, netVars, created, seenVars, lifeVars>>

\* The token is inactive or a guardrail refuses the contract.
RejectTask(p) ==
  /\ ppc[p] = "introspect"
  /\ Remember(cand[p], Completed(NewTask(Envelope(p).req, TRUE), "rejected"))
  /\ \E o \in CallOutcomes :
       /\ SendResult(Envelope(p).req, "rejected", TRUE, "rejectSend", o)
       /\ Proceed(p, o, "rejectMetric")
  /\ UNCHANGED <<queue, workVars, posts, disk, netVars, created, executed, reported, lifeVars>>

ReportRejected(p) ==
  /\ ppc[p] = "rejectMetric"
  /\ \E o \in CallOutcomes :
       /\ Attempt("rejectMetric", o)
       /\ Proceed(p, o, "save")
  /\ UNCHANGED <<storeVars, workVars, posts, disk, netVars, created, seenVars, lifeVars>>

AcceptTask(p) ==
  /\ ppc[p] = "introspect"
  /\ EnqueueTask(cand[p], NewTask(Envelope(p).req, TRUE))
  /\ Goto(p, "schedule")
  /\ UNCHANGED <<workVars, batch, cand, posts, netVars, created, seenVars, faults, lifeVars>>

\* enqueueTask schedules; then the metric seller.task.accepted.
ScheduleAccepted(p) ==
  /\ ppc[p] = "schedule"
  /\ Schedule(active, wpc)
  /\ \E o \in CallOutcomes :
       /\ Attempt("acceptMetric", o)
       /\ Proceed(p, o, "platformAck")
  /\ UNCHANGED <<posts, netVars, created, seenVars, lifeVars>>

\* An answer other than 2xx is noted in the task and otherwise ignored.
AckPlatform(p) ==
  /\ ppc[p] = "platformAck"
  /\ \/ \E o \in CallOutcomes :
          /\ Report(Envelope(p).req, "ACKED", "platformAck", o)
          /\ Proceed(p, o, "save")
     \/ /\ Goto(p, "save")
        /\ UNCHANGED <<reported, faults, batch, cand>>
  /\ UNCHANGED <<storeVars, workVars, posts, disk, netVars, created, sent, executed, lifeVars>>

SaveHandled(p) ==
  /\ ppc[p] = "save"
  /\ UNCHANGED storeVars
  /\ Save
  /\ Goto(p, "ack")
  /\ UNCHANGED <<workVars, batch, cand, posts, netVars, created, seenVars, faults, lifeVars>>

-----------------------------------------------------------------------------
(* POST /controller/tasks.  A known request only answers.  The body may    *)
(* name a return route: the result of such a task is sent like any other.  *)

PostTask(r) ==
  /\ r \in PostReqs
  /\ ~Known(r)
  /\ created < MaxTasks
  /\ created' = created + 1
  /\ \E routed \in BOOLEAN : EnqueueTask(created + 1, NewTask(r, routed))
  /\ posts' = posts + 1
  /\ UNCHANGED <<workVars, pullVars, netVars, seenVars, faults, lifeVars>>

SchedulePosted ==
  /\ posts > 0
  /\ posts' = posts - 1
  /\ Schedule(active, wpc)
  /\ UNCHANGED <<pullVars, netVars, created, seenVars, faults, lifeVars>>

-----------------------------------------------------------------------------
(* runQueuedTask                                                           *)

Stage(t, label) == wpc' = [wpc EXCEPT ![t] = label]

BeginExecution(t) ==
  /\ wpc[t] = "delay"
  /\ Stage(t, "executing")
  /\ executed' = [executed EXCEPT ![tasks[t].req] = @ + 1]
  /\ UNCHANGED <<storeVars, active, pullVars, posts, disk, netVars, created, sent, reported,
                 faults, lifeVars>>

\* finalizeTask up to its send.  A send that throws is caught once, by failTask.
FinalizeTask(t, res) ==
  /\ tasks' = [tasks EXCEPT ![t] = Completed(@, res)]
  /\ \E o \in CallOutcomes :
       /\ SendResult(tasks[t].req, res, tasks[t].routed, "resultSend", o)
       /\ Stage(t, IF o = "ok" THEN "event"
                   ELSE IF res = "runtime_error" THEN "rejecting" ELSE "failing")
  /\ UNCHANGED <<index, queue, active, pullVars, posts, disk, netVars, created, executed,
                 reported, lifeVars>>

ExecutorReturns(t) ==
  /\ wpc[t] = "executing"
  /\ \E res \in Outcomes \cap {"ok", "error"} : FinalizeTask(t, res)

ExecutorThrows(t) ==
  /\ wpc[t] = "executing"
  /\ "throw" \in Outcomes
  /\ FinalizeTask(t, "runtime_error")

ExecutorDefers(t) ==
  /\ wpc[t] = "executing"
  /\ "deferred" \in Outcomes
  /\ tasks' = [tasks EXCEPT ![t].deferred = TRUE]
  /\ UNCHANGED <<index, queue>>
  /\ Save
  /\ Stage(t, "finish")
  /\ UNCHANGED <<active, pullVars, posts, netVars, created, seenVars, faults, lifeVars>>

\* The catch block: the result becomes EXECUTOR_RUNTIME_ERROR and is sent.
FailTask(t) ==
  /\ wpc[t] = "failing"
  /\ FinalizeTask(t, "runtime_error")

\* postRequestLifecycleEvent, whose failure is swallowed.
PostLifecycleEvent(t) ==
  /\ wpc[t] = "event"
  /\ \E o \in CallOutcomes :
       Report(tasks[t].req, IF tasks[t].result = "ok" THEN "COMPLETED" ELSE "FAILED", "event", o)
  /\ Stage(t, "metric")
  /\ UNCHANGED <<storeVars, active, pullVars, posts, disk, netVars, created, sent, executed,
                 lifeVars>>

\* The result metric, whose failure is not.
ReportResult(t) ==
  /\ wpc[t] = "metric"
  /\ \E o \in CallOutcomes :
       /\ Attempt("resultMetric", o)
       /\ Stage(t, IF o = "ok" THEN "save"
                   ELSE IF tasks[t].result = "runtime_error" THEN "rejecting" ELSE "failing")
  /\ UNCHANGED <<storeVars, active, pullVars, posts, disk, netVars, created, seenVars, lifeVars>>

\* The save after finalizeTask or failTask.
SaveOutcome(t) ==
  /\ wpc[t] = "save"
  /\ UNCHANGED storeVars
  /\ Save
  /\ Stage(t, "finish")
  /\ UNCHANGED <<active, pullVars, posts, netVars, created, seenVars, faults, lifeVars>>

\* The finally block up to its save.
ReleaseWorker(t) ==
  /\ wpc[t] = "finish"
  /\ active' = active \ {t}
  /\ Stage(t, "reschedule")
  /\ UNCHANGED storeVars
  /\ Save
  /\ UNCHANGED <<pullVars, posts, netVars, created, seenVars, faults, lifeVars>>

RescheduleForgotten(t) ==
  /\ wpc[t] = "reschedule"
  /\ Stage(t, "none")
  /\ UNCHANGED <<storeVars, active, pullVars, posts, disk, netVars, created, seenVars, faults,
                 lifeVars>>

Reschedule(t) ==
  /\ wpc[t] = "reschedule"
  /\ Schedule(active, [wpc EXCEPT ![t] = "none"])
  /\ UNCHANGED <<pullVars, posts, netVars, created, seenVars, faults, lifeVars>>

-----------------------------------------------------------------------------
\* A heartbeat the platform accepted saves the state, whatever is under way.
Heartbeat ==
  /\ UNCHANGED storeVars
  /\ Save
  /\ UNCHANGED <<workVars, pullVars, posts, netVars, created, seenVars, faults, lifeVars>>

-----------------------------------------------------------------------------
(* Restart: hydrateSellerState.  Nothing is scheduled until the next       *)
(* enqueueTask, and RUNNING tasks stay as they were saved.                 *)

Boot(snapshot) ==
  /\ tasks' = snapshot.tasks
  /\ index' = snapshot.index
  /\ queue' = snapshot.queue
  /\ active' = {}
  /\ wpc' = [t \in TaskIds |-> "none"]
  /\ ppc' = [p \in Pullers |-> "idle"]
  /\ batch' = [p \in Pullers |-> <<>>]
  /\ cand' = [p \in Pullers |-> None]
  /\ posts' = 0
  /\ boots' = boots + 1

Crash ==
  /\ crashes < MaxCrashes
  /\ crashes' = crashes + 1
  /\ Boot(disk)
  /\ UNCHANGED <<disk, netVars, created, seenVars, faults>>

\* failTask threw inside the catch block: the finally block runs, scheduling the next
\* tasks, and the rejection nobody handles ends the process.
UnhandledRejection(t) ==
  /\ wpc[t] = "rejecting"
  /\ disk' = [tasks |-> Started(active \ {t}), index |-> index, queue |-> Remaining(active \ {t})]
  /\ Boot(disk')
  /\ UNCHANGED <<netVars, created, seenVars, faults, crashes>>

-----------------------------------------------------------------------------
(* Buyers: a request may be sent again, each time as a new message.        *)

SendRequest(r) ==
  /\ nsent < MaxMessages
  /\ nsent' = nsent + 1
  /\ mailbox' = Append(mailbox, [id |-> nsent + 1, req |-> r])
  /\ UNCHANGED <<storeVars, workVars, pullVars, posts, disk, created, consumed, seenVars, faults,
                 lifeVars>>

-----------------------------------------------------------------------------
EmptyStore == [tasks |-> [t \in TaskIds |-> NoTask], index |-> [r \in Requests |-> None],
               queue |-> <<>>]

Init ==
  /\ tasks = EmptyStore.tasks /\ index = EmptyStore.index /\ queue = <<>>
  /\ disk = EmptyStore
  /\ active = {} /\ wpc = [t \in TaskIds |-> "none"]
  /\ ppc = [p \in Pullers |-> "idle"]
  /\ batch = [p \in Pullers |-> <<>>]
  /\ cand = [p \in Pullers |-> None]
  /\ posts = 0
  /\ mailbox = <<>> /\ nsent = 0 /\ created = 0
  /\ sent = {} /\ consumed = {}
  /\ executed = [r \in Requests |-> 0]
  /\ reported = [r \in Requests |-> {}]
  /\ faults = 0 /\ crashes = 0 /\ boots = 0

PullStep(p) ==
  \/ PollInbox(p) \/ SkipEnvelope(p) \/ ReceiveEnvelope(p)
  \/ AckDuplicate(p) \/ ReplayResult(p) \/ CreateTask(p)
  \/ IntrospectionFails(p) \/ RejectTask(p) \/ ReportRejected(p)
  \/ AcceptTask(p) \/ ScheduleAccepted(p) \/ AckPlatform(p)
  \/ SaveHandled(p) \/ AckHandled(p)

WorkStep(t) ==
  \/ BeginExecution(t)
  \/ ExecutorReturns(t) \/ ExecutorThrows(t) \/ ExecutorDefers(t)
  \/ FailTask(t) \/ PostLifecycleEvent(t) \/ ReportResult(t)
  \/ SaveOutcome(t) \/ ReleaseWorker(t) \/ Reschedule(t) \/ UnhandledRejection(t)

Next ==
  \/ \E r \in Requests : SendRequest(r) \/ PostTask(r)
  \/ \E p \in Pullers : PullStep(p)
  \/ \E t \in TaskIds : WorkStep(t)
  \/ SchedulePosted
  \/ Heartbeat
  \/ Crash

Spec == Init /\ [][Next]_vars

\* The event loop runs every ready continuation, the poll timer keeps firing, and an
\* executor eventually settles its promise.
FairSpec ==
  /\ Spec
  /\ \A p \in Pullers : WF_vars(PullStep(p))
  /\ \A t \in TaskIds : WF_vars(WorkStep(t))
  /\ WF_vars(SchedulePosted)

-----------------------------------------------------------------------------
(* Properties                                                              *)

MaybeTask == Task \cup {NoTask}
Message == [id : Nat, req : Requests]
PullLabels == {"idle", "next", "lookup", "introspect", "rejectMetric", "schedule",
               "platformAck", "save", "ack"}
WorkLabels == {"none", "delay", "executing", "failing", "event", "metric", "save",
               "finish", "reschedule", "rejecting"}

\* Every variable stays in its range: in particular every queue entry, on disk too, and
\* every active id is a task id.
TypeOK ==
  /\ tasks \in [TaskIds -> MaybeTask]
  /\ index \in [Requests -> 0..MaxTasks]
  /\ queue \in Seq(TaskIds)
  /\ active \in SUBSET TaskIds
  /\ wpc \in [TaskIds -> WorkLabels]
  /\ ppc \in [Pullers -> PullLabels]
  /\ batch \in [Pullers -> Seq(Message)]
  /\ cand \in [Pullers -> 0..MaxTasks]
  /\ posts \in Nat
  /\ disk \in [tasks : [TaskIds -> MaybeTask], index : [Requests -> 0..MaxTasks],
               queue : Seq(TaskIds)]
  /\ mailbox \in Seq(Message)
  /\ nsent \in Nat /\ created \in 0..MaxTasks
  /\ sent \in SUBSET (Requests \X Results)
  /\ executed \in [Requests -> Nat]
  /\ reported \in [Requests -> SUBSET {"ACKED", "COMPLETED", "FAILED"}]
  /\ consumed \in SUBSET Requests
  /\ faults \in Nat /\ crashes \in Nat /\ boots \in Nat

InQueue(q) == {q[i] : i \in DOMAIN q}
NoDuplicates(q) == \A i, j \in DOMAIN q : i # j => q[i] # q[j]

\* A task is queued exactly when its status says so, in memory and in every snapshot a
\* restart may load, and a worker slot is held exactly while runQueuedTask runs the task:
\* the bookkeeping scheduleProcessQueue and the finally block share across awaits.
SchedulerConsistent ==
  /\ NoDuplicates(queue) /\ NoDuplicates(disk.queue)
  /\ \A t \in TaskIds : tasks[t].status = "QUEUED" <=> t \in InQueue(queue)
  /\ \A t \in TaskIds : disk.tasks[t].status = "QUEUED" <=> t \in InQueue(disk.queue)
  /\ active = {t \in TaskIds : wpc[t] \notin {"none", "reschedule"}}
  /\ Cardinality(active) <= Workers

\* scheduleProcessQueue is about to be called by some handler.
ScheduleComing ==
  \/ \E p \in Pullers : ppc[p] = "schedule"
  \/ \E t \in TaskIds : wpc[t] = "reschedule"
  \/ posts > 0

\* Until the first restart no task waits beside a free worker, unless the handler that
\* will start it is already under way.
WorkConserving ==
  boots = 0 => queue = <<>> \/ Cardinality(active) = Workers \/ ScheduleComing

\* A message leaves the mailbox only when its request survives a crash or was answered.
NoSilentLoss ==
  \A r \in consumed : disk.index[r] # None \/ \E res \in Results : <<r, res>> \in sent

\* What the platform was told is true: an ACKED request is one this controller will still
\* know after a crash, and a completion event follows the result it is about (left out
\* are requests that may be posted: a posted task may have nobody to send its result to).
ReportsTruthful ==
  /\ \A r \in Requests : "ACKED" \in reported[r] => disk.index[r] # None
  /\ \A r \in Requests \ PostReqs :
    /\ "COMPLETED" \in reported[r] => <<r, "ok">> \in sent
    /\ "FAILED" \in reported[r] => \E res \in {"error", "runtime_error"} : <<r, res>> \in sent

\* One inbox loop executes a request at most once, however often the message is delivered
\* and whatever fails in between: request_id is the execution key.  (A request that is
\* posted while the loop introspects its token is executed twice.)
AtMostOnce == \A r \in Requests \ PostReqs : executed[r] <= 1

\* A task that is started is the most urgent one queued, first come first served.
NoOvertaking ==
  [][\A t \in TaskIds : tasks[t].status = "QUEUED" /\ tasks'[t].status = "RUNNING"
       => \A u \in InQueue(queue') : Before(t, u)]_vars

\* Every result sent for a request is the same one, however often its message is delivered
\* again.  (Left out are requests that may be posted: one posted with a return route while
\* the loop introspects its token is executed twice, and its two tasks send a result each.)
SameResult == \A r \in Requests \ PostReqs : Cardinality({x \in sent : x[1] = r}) <= 1

\* Every queued task is executed to its end, or deferred by its executor.
QueuedFinishes ==
  \A t \in TaskIds : tasks[t].status = "QUEUED" ~> tasks[t].status = "COMPLETED" \/ tasks[t].deferred

\* Every message of an offered subagent leaves the mailbox, whatever call failed meanwhile.
MessageHandled ==
  \A n \in 1..MaxMessages :
    (\E i \in DOMAIN mailbox : mailbox[i].id = n /\ mailbox[i].req \notin Foreign)
      ~> ~\E i \in DOMAIN mailbox : mailbox[i].id = n

\* A task whose worker is gone goes back to the queue or is completed.
OrphanRecovered ==
  \A t \in TaskIds : tasks[t].status = "RUNNING" ~> tasks[t].status # "RUNNING" \/ tasks[t].deferred


\* The controller promises of a request what SellerService says: what a restart finds is what is
\* recorded, and crashes and failing calls are steps that do not show.  (processSellerInbox,
\* runQueuedTask and the snapshot, with one inbox loop.)
Service == INSTANCE SellerService WITH
  Posted <- PostReqs,
  recorded <- {r \in Requests : disk.index[r] # None},
  answers <- sent,
  taken <- consumed

ImplementsService == Service!Spec
=============================================================================
