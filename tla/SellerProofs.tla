---------------------------- MODULE SellerProofs ----------------------------
(***************************************************************************)
(* Theorems about SellerRuntime, for every number of requests, pullers,    *)
(* workers, messages, faults and crashes; the last shows that it           *)
(* implements SellerService.                                               *)
(***************************************************************************)
EXTENDS SellerRuntime, FiniteSetTheorems, SequenceTheorems, TLAPS

-----------------------------------------------------------------------------
(* The inductive invariant                                                 *)

\* A task is in the queue exactly when its status says so, and once.
QueueMatches(ts, q) ==
  /\ NoDuplicates(q)
  /\ \A i \in DOMAIN q : ts[q[i]].status = "QUEUED"
  /\ \A t \in TaskIds : ts[t].status = "QUEUED" => \E i \in DOMAIN q : q[i] = t

\* What holds of the memory and of every snapshot: the index leads to real tasks.
StoreOK(ts, ix, q) ==
  /\ ts \in [TaskIds -> MaybeTask]
  /\ ix \in [Requests -> 0..MaxTasks]
  /\ q \in Seq(TaskIds)
  /\ QueueMatches(ts, q)
  /\ \A r \in Requests : ix[r] # None => ts[ix[r]] \in Task

\* What holds of the store in memory.
MemoryOK == StoreOK(tasks, index, queue)

\* What holds of the snapshot on disk.
DiskOK ==
  /\ disk = [tasks |-> disk.tasks, index |-> disk.index, queue |-> disk.queue]
  /\ StoreOK(disk.tasks, disk.index, disk.queue)

\* The labels at which a worker holds a task.
Holding == {"delay", "executing", "failing", "event", "metric", "save", "finish", "rejecting"}

\* A worker holds a slot from the start of its task to its release; its task is real and
\* no longer queued.
WorkersOK ==
  /\ wpc \in [TaskIds -> WorkLabels]
  /\ active = {t \in TaskIds : wpc[t] \in Holding}
  /\ Cardinality(active) <= Workers
  /\ \A t \in TaskIds : wpc[t] # "none" => tasks[t] \in Task /\ tasks[t].status # "QUEUED"

\* A pull past "next" has an envelope; while it introspects, the task it created is its own
\* and not yet remembered.
PullsOK ==
  /\ ppc \in [Pullers -> PullLabels]
  /\ batch \in [Pullers -> Seq(Message)]
  /\ cand \in [Pullers -> 0..MaxTasks]
  /\ \A p \in Pullers :
       /\ ppc[p] \notin {"idle", "next"} => batch[p] # <<>>
       /\ ppc[p] = "introspect" => /\ cand[p] \in 1..created
                                  /\ tasks[cand[p]] = NoTask
                                  /\ \A q \in Pullers \ {p} :
                                       ppc[q] = "introspect" => cand[q] # cand[p]

\* Ids not given out yet have no task, in memory or on disk.
IdsFresh ==
  /\ created \in 0..MaxTasks
  /\ \A t \in TaskIds : t > created => tasks[t] = NoTask /\ disk.tasks[t] = NoTask

\* What holds of the network, of the calls that were made and of the counters.
NetOK ==
  /\ mailbox \in Seq(Message) /\ nsent \in Nat /\ posts \in Nat
  /\ sent \in SUBSET (Requests \X Results)
  /\ executed \in [Requests -> Nat]
  /\ reported \in [Requests -> SUBSET {"ACKED", "COMPLETED", "FAILED"}]
  /\ consumed \in SUBSET Requests
  /\ faults \in Nat /\ crashes \in Nat /\ boots \in Nat

\* The inductive invariant: the parts above.
IInv == MemoryOK /\ DiskOK /\ WorkersOK /\ PullsOK /\ IdsFresh /\ NetOK

-----------------------------------------------------------------------------
(* The queue                                                               *)

\* Inserting at a place between 1 and one past the end.
Inserted(q, k, t) == SubSeq(q, 1, k - 1) \o <<t>> \o SubSeq(q, k, Len(q))

\* Inserting into the queue.
LEMMA InsertSeq ==
  ASSUME NEW S, NEW q \in Seq(S), NEW t \in S, NEW k \in 1..Len(q) + 1
  PROVE  /\ Inserted(q, k, t) \in Seq(S) /\ Len(Inserted(q, k, t)) = Len(q) + 1
         /\ \A i \in 1..k - 1 : Inserted(q, k, t)[i] = q[i]
         /\ Inserted(q, k, t)[k] = t
         /\ \A i \in k + 1..Len(q) + 1 : Inserted(q, k, t)[i] = q[i - 1]
<1> DEFINE u == Inserted(q, k, t)
           a == SubSeq(q, 1, k - 1)
           b == SubSeq(q, k, Len(q))
<1>0. Len(q) \in Nat /\ \A i \in 1..Len(q) : q[i] \in S
  BY LenProperties, ElementOfSeq
<1>1. a \in Seq(S) /\ Len(a) = k - 1 /\ \A i \in 1..k - 1 : a[i] = q[i]
  <2>1. k - 1 \in Int /\ \A i \in 1..k - 1 : q[i] \in S
    BY <1>0
  <2>2. /\ a \in Seq(S)
        /\ Len(a) = IF 1 <= k - 1 THEN (k - 1) - 1 + 1 ELSE 0
        /\ \A i \in 1..(k - 1) - 1 + 1 : a[i] = q[1 + i - 1]
    BY <2>1, SubSeqProperties
  <2> QED  BY <2>2, <1>0
<1>2. b \in Seq(S) /\ Len(b) = Len(q) - k + 1 /\ \A i \in 1..Len(q) - k + 1 : b[i] = q[k + i - 1]
  <2>1. Len(q) \in Int /\ k \in Int /\ \A i \in k..Len(q) : q[i] \in S
    BY <1>0
  <2>2. /\ b \in Seq(S)
        /\ Len(b) = IF k <= Len(q) THEN Len(q) - k + 1 ELSE 0
        /\ \A i \in 1..Len(q) - k + 1 : b[i] = q[k + i - 1]
    BY <2>1, SubSeqProperties
  <2> QED  BY <2>2, <1>0
<1>3. <<t>> \in Seq(S) /\ Len(<<t>>) = 1 /\ <<t>>[1] = t
  OBVIOUS
<1> DEFINE c == a \o <<t>>
<1>4. /\ c \in Seq(S) /\ Len(c) = k
      /\ \A i \in 1..k : c[i] = IF i <= k - 1 THEN a[i] ELSE t
  <2>1. /\ c \in Seq(S) /\ Len(c) = Len(a) + Len(<<t>>)
        /\ \A i \in 1..Len(a) + Len(<<t>>) : c[i] = IF i <= Len(a) THEN a[i] ELSE <<t>>[i - Len(a)]
    BY <1>1, <1>3, ConcatProperties
  <2> HIDE DEF a, c
  <2>2. Len(a) + Len(<<t>>) = k
    BY <1>1, <1>3
  <2>3. ASSUME NEW i \in 1..k
        PROVE  c[i] = IF i <= k - 1 THEN a[i] ELSE t
    <3>1. CASE i <= k - 1
      BY <3>1, <2>1, <2>2, <1>1
    <3>2. CASE i = k
      <4>1. i - Len(a) = 1 /\ ~(i <= Len(a))
        BY <3>2, <1>1
      <4> QED  BY <4>1, <3>2, <2>1, <2>2, <1>3
    <3> QED  BY <3>1, <3>2
  <2> QED  BY <2>1, <2>2, <2>3
<1>5. /\ u \in Seq(S) /\ Len(u) = Len(q) + 1
      /\ \A i \in 1..Len(q) + 1 : u[i] = IF i <= k THEN c[i] ELSE b[i - k]
  <2>1. /\ c \o b \in Seq(S) /\ Len(c \o b) = Len(c) + Len(b)
        /\ \A i \in 1..Len(c) + Len(b) : (c \o b)[i] = IF i <= Len(c) THEN c[i] ELSE b[i - Len(c)]
    <3> HIDE DEF b, c
    <3> QED  BY <1>2, <1>4, ConcatProperties
  <2>2. u = c \o b
    BY DEF Inserted
  <2> HIDE DEF b, c, u
  <2>3. Len(c) = k /\ Len(c) + Len(b) = Len(q) + 1
    BY <1>0, <1>2, <1>4
  <2> QED  BY <2>1, <2>2, <2>3
<1> HIDE DEF a, b, c, u
<1>6. k \in Int /\ Len(q) \in Nat /\ 1 <= k /\ k <= Len(q) + 1
  BY <1>0
<1>7. ASSUME NEW i \in 1..k - 1 PROVE u[i] = q[i]
  <2>1. i \in 1..Len(q) + 1 /\ i <= k /\ i \in 1..k /\ i <= k - 1
    BY <1>6
  <2>2. u[i] = c[i]
    BY <2>1, <1>5
  <2>3. c[i] = a[i]
    BY <2>1, <1>4
  <2>4. a[i] = q[i]
    BY <1>1
  <2> QED  BY <2>2, <2>3, <2>4
<1>8. u[k] = t
  <2>1. k \in 1..Len(q) + 1 /\ k <= k /\ k \in 1..k /\ ~(k <= k - 1)
    BY <1>6
  <2>2. u[k] = c[k]
    BY <2>1, <1>5
  <2>3. c[k] = t
    BY <2>1, <1>4
  <2> QED  BY <2>2, <2>3
<1>9. ASSUME NEW i \in k + 1..Len(q) + 1 PROVE u[i] = q[i - 1]
  <2>1. /\ i \in 1..Len(q) + 1 /\ ~(i <= k)
        /\ i - k \in 1..Len(q) - k + 1 /\ k + (i - k) - 1 = i - 1
    BY <1>6
  <2>2. u[i] = b[i - k]
    BY <2>1, <1>5
  <2>3. b[i - k] = q[k + (i - k) - 1]
    BY <2>1, <1>2
  <2> QED  BY <2>1, <2>2, <2>3
<1> QED  BY <1>5, <1>7, <1>8, <1>9 DEF u

\* NoTask is no task, and None no identifier.
LEMMA TaskFacts ==
  /\ NoTask \in MaybeTask /\ NoTask \notin Task /\ NoTask.status = "NONE"
  /\ \A task \in MaybeTask : task.status = "QUEUED" => task \in Task
  BY DEF MaybeTask, NoTask, Task

\* The place of a new task is in the queue or just behind it.
LEMMA PlaceRange ==
  ASSUME queue \in Seq(TaskIds), NEW t
  PROVE  Place(t) \in 1..Len(queue) + 1
<1> DEFINE earlier == {i \in DOMAIN queue : Before(queue[i], t)}
<1>1. Len(queue) \in Nat /\ DOMAIN queue = 1..Len(queue)
  OBVIOUS
<1>2. IsFiniteSet(1..Len(queue)) /\ Cardinality(1..Len(queue)) = Len(queue)
  BY <1>1, FS_Interval
<1>3. earlier \subseteq 1..Len(queue)
  BY <1>1
<1> HIDE DEF earlier
<1>4. IsFiniteSet(earlier) /\ Cardinality(earlier) <= Len(queue)
  BY <1>2, <1>3, FS_Subset
<1>5. Cardinality(earlier) \in Nat
  BY <1>4, FS_CardinalityType
<1>6. Place(t) = 1 + Cardinality(earlier)
  BY DEF Place, earlier
<1> QED  BY <1>1, <1>4, <1>5, <1>6

\* enqueueTask keeps the queue and the statuses in step.
LEMMA EnqueueStore ==
  ASSUME MemoryOK, NEW t \in TaskIds, NEW task \in Task, tasks[t] = NoTask,
         task.status = "QUEUED", Remember(t, task), InsertIntoQueue(t)
  PROVE  MemoryOK'
<1> USE DEF MemoryOK, StoreOK
<1> DEFINE k == Place(t)
<1>1. k \in 1..Len(queue) + 1
  BY PlaceRange
<1>2. queue' = Inserted(queue, k, t)
  BY DEF InsertIntoQueue, Inserted
<1> HIDE DEF k
<1>3. /\ queue' \in Seq(TaskIds) /\ Len(queue') = Len(queue) + 1
      /\ \A i \in 1..k - 1 : queue'[i] = queue[i]
      /\ queue'[k] = t
      /\ \A i \in k + 1..Len(queue) + 1 : queue'[i] = queue[i - 1]
  <2> DEFINE v == Inserted(queue, k, t)
  <2>1. queue \in Seq(TaskIds)
    OBVIOUS
  <2>2. /\ v \in Seq(TaskIds) /\ Len(v) = Len(queue) + 1
        /\ \A i \in 1..k - 1 : v[i] = queue[i]
        /\ v[k] = t
        /\ \A i \in k + 1..Len(queue) + 1 : v[i] = queue[i - 1]
    BY ONLY <1>1, <2>1, t \in TaskIds, InsertSeq
  <2> QED  BY <1>2, <2>2
<1>4. /\ tasks' = [tasks EXCEPT ![t] = task]
      /\ index' = [index EXCEPT ![task.req] = t]
  BY DEF Remember
<1>5. tasks' \in [TaskIds -> MaybeTask] /\ index' \in [Requests -> 0..MaxTasks]
  <2>1. task \in MaybeTask
    BY DEF MaybeTask
  <2>2. t \in 0..MaxTasks
    BY SellerAssumption DEF TaskIds
  <2> QED  BY <1>4, <2>1, <2>2
<1>6. ASSUME NEW r \in Requests, index'[r] # None PROVE tasks'[index'[r]] \in Task
  <2>1. CASE index'[r] = t
    BY <1>4, <2>1
  <2>2. CASE index'[r] # t
    <3>1. index'[r] = index[r] /\ index[r] \in TaskIds
      BY <1>4, <1>6, <2>2, SellerAssumption DEF TaskIds, None
    <3> QED  BY <1>4, <1>6, <2>2, <3>1
  <2> QED  BY <2>1, <2>2
<1>7. Len(queue) \in Nat /\ DOMAIN queue = 1..Len(queue) /\ DOMAIN queue' = 1..Len(queue) + 1
  BY <1>3
<1>8. ASSUME NEW i \in DOMAIN queue
      PROVE  queue[i] # t /\ queue[i] \in TaskIds /\ tasks[queue[i]].status = "QUEUED"
  BY TaskFacts DEF QueueMatches
\* Where an element of the new queue stood in the old one.
<1> DEFINE old(i) == IF i < k THEN i ELSE i - 1
<1>9. ASSUME NEW i \in DOMAIN queue', i # k
      PROVE  old(i) \in DOMAIN queue /\ queue'[i] = queue[old(i)]
  <2>1. CASE i < k
    BY <1>1, <1>3, <1>7, <1>9, <2>1
  <2>2. CASE i > k
    BY <1>1, <1>3, <1>7, <1>9, <2>2
  <2> QED  BY <1>1, <1>7, <1>9, <2>1, <2>2
<1>10. NoDuplicates(queue')
  <2> SUFFICES ASSUME NEW i \in DOMAIN queue', NEW j \in DOMAIN queue', i # j
               PROVE  queue'[i] # queue'[j]
    BY DEF NoDuplicates
  <2>1. CASE i = k
    BY <1>3, <1>8, <1>9, <2>1
  <2>2. CASE j = k
    BY <1>3, <1>8, <1>9, <2>2
  <2>3. CASE i # k /\ j # k
    <3>1. old(i) # old(j)
      BY <1>1, <1>7, <2>3
    <3> QED  BY <1>9, <2>3, <3>1 DEF QueueMatches, NoDuplicates
  <2> QED  BY <2>1, <2>2, <2>3
<1>11. ASSUME NEW i \in DOMAIN queue' PROVE tasks'[queue'[i]].status = "QUEUED"
  <2>1. CASE i = k
    BY <1>3, <1>4, <2>1
  <2>2. CASE i # k
    BY <1>4, <1>8, <1>9, <2>2
  <2> QED  BY <2>1, <2>2
<1>12. ASSUME NEW u \in TaskIds, tasks'[u].status = "QUEUED"
       PROVE  \E i \in DOMAIN queue' : queue'[i] = u
  <2>1. CASE u = t
    BY <1>1, <1>3, <1>7, <2>1
  <2>2. CASE u # t
    <3>1. PICK i \in DOMAIN queue : queue[i] = u
      BY <1>4, <1>12, <2>2 DEF QueueMatches
    <3>2. CASE i < k
      BY <1>1, <1>3, <1>7, <3>1, <3>2
    <3>3. CASE i >= k
      <4>1. i + 1 \in k + 1..Len(queue) + 1 /\ (i + 1) - 1 = i /\ i + 1 \in DOMAIN queue'
        BY <1>1, <1>7, <3>3
      <4>2. queue'[i + 1] = queue[(i + 1) - 1]
        BY <1>3, <4>1
      <4> QED  BY <3>1, <4>1, <4>2
    <3> QED  BY <1>1, <1>7, <3>2, <3>3
  <2> QED  BY <2>1, <2>2
<1> QED  BY <1>3, <1>5, <1>6, <1>10, <1>11, <1>12 DEF QueueMatches

\* A rejected task is remembered beside the queue.
LEMMA RejectStore ==
  ASSUME MemoryOK, NEW t \in TaskIds, NEW task \in Task, tasks[t] = NoTask,
         task.status # "QUEUED", Remember(t, task), queue' = queue
  PROVE  MemoryOK'
<1> USE DEF MemoryOK, StoreOK
<1>1. /\ tasks' = [tasks EXCEPT ![t] = task]
      /\ index' = [index EXCEPT ![task.req] = t]
  BY DEF Remember
<1>2. tasks' \in [TaskIds -> MaybeTask] /\ index' \in [Requests -> 0..MaxTasks]
  <2>1. task \in MaybeTask
    BY DEF MaybeTask
  <2>2. t \in 0..MaxTasks
    BY SellerAssumption DEF TaskIds
  <2> QED  BY <1>1, <2>1, <2>2
<1>3. ASSUME NEW r \in Requests, index'[r] # None PROVE tasks'[index'[r]] \in Task
  <2>1. CASE index'[r] = t
    BY <1>1, <2>1
  <2>2. CASE index'[r] # t
    <3>1. index'[r] = index[r] /\ index[r] \in TaskIds
      BY <1>1, <1>3, <2>2, SellerAssumption DEF TaskIds, None
    <3> QED  BY <1>1, <1>3, <2>2, <3>1
  <2> QED  BY <2>1, <2>2
<1>4. ASSUME NEW u \in TaskIds PROVE tasks'[u].status = "QUEUED" <=> tasks[u].status = "QUEUED"
  BY <1>1, TaskFacts
<1>5. \A i \in DOMAIN queue : queue[i] \in TaskIds
  OBVIOUS
<1>6. QueueMatches(tasks', queue')
  BY <1>4, <1>5 DEF QueueMatches
<1> QED  BY <1>2, <1>3, <1>6

\* A worker changes its own task, which is not queued and does not become so.
LEMMA WorkStore ==
  ASSUME MemoryOK, NEW t \in TaskIds, NEW task \in Task, tasks[t].status # "QUEUED",
         task.status # "QUEUED", tasks' = [tasks EXCEPT ![t] = task], UNCHANGED <<index, queue>>
  PROVE  MemoryOK'
<1> USE DEF MemoryOK, StoreOK
<1>1. tasks' \in [TaskIds -> MaybeTask]
  BY DEF MaybeTask
<1>2. ASSUME NEW r \in Requests, index'[r] # None PROVE tasks'[index'[r]] \in Task
  <2>1. index[r] \in TaskIds
    BY <1>2, SellerAssumption DEF TaskIds, None
  <2> QED  BY <1>2, <2>1
<1>3. ASSUME NEW u \in TaskIds PROVE tasks'[u].status = "QUEUED" <=> tasks[u].status = "QUEUED"
  OBVIOUS
<1>4. \A i \in DOMAIN queue : queue[i] \in TaskIds
  OBVIOUS
<1>5. QueueMatches(tasks', queue')
  BY <1>3, <1>4 DEF QueueMatches
<1> QED  BY <1>1, <1>2, <1>5

\* scheduleProcessQueue takes the head of the queue, no more than there are free workers.
LEMMA StartStore ==
  ASSUME MemoryOK, NEW busy \in SUBSET TaskIds, Cardinality(busy) <= Workers
  PROVE  /\ StoreOK(Started(busy), index, Remaining(busy))
         /\ ToStart(busy) \in SUBSET TaskIds
         /\ \A t \in ToStart(busy) : /\ tasks[t] \in Task /\ tasks[t].status = "QUEUED"
                                     /\ Started(busy)[t] \in Task
                                     /\ Started(busy)[t].status = "RUNNING"
         /\ \A t \in TaskIds \ ToStart(busy) : Started(busy)[t] = tasks[t]
         /\ Cardinality(busy \cup ToStart(busy)) <= Workers
<1> USE DEF MemoryOK, StoreOK
<1> DEFINE n == NumToStart(busy)
           S == ToStart(busy)
           rest == Remaining(busy)
           ts == Started(busy)
<1>1. IsFiniteSet(busy) /\ Cardinality(busy) \in Nat
  <2>1. IsFiniteSet(TaskIds)
    BY FS_Interval, SellerAssumption DEF TaskIds
  <2> QED  BY <2>1, FS_Subset, FS_CardinalityType
<1>2. Len(queue) \in Nat /\ DOMAIN queue = 1..Len(queue)
  OBVIOUS
<1>3. n \in Nat /\ n <= Len(queue) /\ n <= Workers - Cardinality(busy)
  BY <1>1, <1>2, SellerAssumption DEF NumToStart, FreeSlots, Least
<1>4. S = {queue[i] : i \in 1..n}
  BY DEF ToStart
<1>5. \A i \in 1..Len(queue) : queue[i] \in TaskIds /\ tasks[queue[i]].status = "QUEUED"
  BY <1>2 DEF QueueMatches
<1>6. S \in SUBSET TaskIds /\ \A t \in S : tasks[t] \in Task /\ tasks[t].status = "QUEUED"
  <2>1. \A i \in 1..n : i \in 1..Len(queue)
    BY <1>2, <1>3
  <2> QED  BY <1>4, <1>5, <2>1, TaskFacts
<1>7. ts = [t \in TaskIds |-> IF t \in S THEN [tasks[t] EXCEPT !.status = "RUNNING"] ELSE tasks[t]]
  BY DEF Started
<1>8. rest = SubSeq(queue, n + 1, Len(queue))
  BY DEF Remaining
<1> HIDE DEF n, S, rest, ts
<1>9. \A t \in S : ts[t] \in Task /\ ts[t].status = "RUNNING"
  BY <1>6, <1>7 DEF Task
<1>10. \A t \in TaskIds \ S : ts[t] = tasks[t]
  BY <1>7
<1>11. ts \in [TaskIds -> MaybeTask]
  BY <1>6, <1>7, <1>9, <1>10 DEF MaybeTask
<1>12. /\ rest \in Seq(TaskIds) /\ Len(rest) = Len(queue) - n
       /\ \A i \in 1..Len(queue) - n : rest[i] = queue[n + i]
  <2>1. n + 1 \in Int /\ Len(queue) \in Int
    BY <1>2, <1>3
  <2>2. \A i \in n + 1..Len(queue) : queue[i] \in TaskIds
    BY <1>2, <1>3, <1>5
  <2>3. /\ rest \in Seq(TaskIds)
        /\ Len(rest) = IF n + 1 <= Len(queue) THEN Len(queue) - (n + 1) + 1 ELSE 0
        /\ \A i \in 1..Len(queue) - (n + 1) + 1 : rest[i] = queue[(n + 1) + i - 1]
    BY ONLY <1>8, <2>1, <2>2, SubSeqProperties
  <2>4. Len(rest) = Len(queue) - n /\ Len(queue) - (n + 1) + 1 = Len(queue) - n
    <3>1. Len(queue) - (n + 1) + 1 = Len(queue) - n
      BY <1>2, <1>3
    <3>2. CASE n + 1 <= Len(queue)
      BY <2>3, <3>1, <3>2
    <3>3. CASE ~(n + 1 <= Len(queue))
      <4>1. \A x, y \in Nat : x <= y /\ ~(x + 1 <= y) => y - x = 0
        OBVIOUS
      <4>2. Len(queue) - n = 0
        BY <1>2, <1>3, <3>3, <4>1
      <4> QED  BY <2>3, <3>1, <3>3, <4>2
    <3> QED  BY <3>2, <3>3
  <2>5. ASSUME NEW i \in 1..Len(queue) - n PROVE rest[i] = queue[n + i]
    <3>1. (n + 1) + i - 1 = n + i
      BY <1>3
    <3>2. rest[i] = queue[(n + 1) + i - 1]
      BY <2>3, <2>4
    <3> QED  BY <3>1, <3>2
  <2> QED  BY <2>3, <2>4, <2>5
<1>13. DOMAIN rest = 1..Len(queue) - n
  BY <1>12
<1>14. ASSUME NEW i \in DOMAIN rest
       PROVE  /\ n + i \in DOMAIN queue /\ rest[i] = queue[n + i]
              /\ rest[i] \in TaskIds \ S
  <2>1. n + i \in DOMAIN queue /\ rest[i] = queue[n + i]
    BY <1>2, <1>3, <1>12, <1>13
  <2>2. ASSUME NEW j \in 1..n PROVE queue[j] # queue[n + i]
    <3>1. j \in DOMAIN queue /\ j # n + i
      BY <1>2, <1>3, <1>13
    <3> QED  BY <2>1, <3>1 DEF QueueMatches, NoDuplicates
  <2> QED  BY <1>2, <1>4, <1>5, <2>1, <2>2
<1>15. NoDuplicates(rest)
  <2> SUFFICES ASSUME NEW i \in DOMAIN rest, NEW j \in DOMAIN rest, i # j
               PROVE  rest[i] # rest[j]
    BY DEF NoDuplicates
  <2>1. n + i # n + j
    BY <1>3, <1>13
  <2> QED  BY <1>14, <2>1 DEF QueueMatches, NoDuplicates
<1>16. ASSUME NEW i \in DOMAIN rest PROVE ts[rest[i]].status = "QUEUED"
  BY <1>2, <1>5, <1>10, <1>14
<1>17. ASSUME NEW t \in TaskIds, ts[t].status = "QUEUED"
       PROVE  \E i \in DOMAIN rest : rest[i] = t
  <2>1. t \notin S
    BY <1>9, <1>17
  <2>2. PICK j \in DOMAIN queue : queue[j] = t
    BY <1>10, <1>17, <2>1 DEF QueueMatches
  <2>3. j \notin 1..n
    BY <1>4, <2>1, <2>2
  <2>4. j - n \in DOMAIN rest /\ n + (j - n) = j
    BY <1>2, <1>3, <1>13, <2>3
  <2> QED  BY <1>14, <2>2, <2>4
<1>18. ASSUME NEW r \in Requests, index[r] # None PROVE ts[index[r]] \in Task
  <2>1. index[r] \in TaskIds
    BY <1>18, SellerAssumption DEF TaskIds, None
  <2> QED  BY <1>9, <1>10, <1>18, <2>1
<1>19. StoreOK(ts, index, rest)
  BY <1>11, <1>12, <1>15, <1>16, <1>17, <1>18 DEF QueueMatches
<1>20. Cardinality(busy \cup S) <= Workers
  <2>1. IsFiniteSet(1..n) /\ Cardinality(1..n) = n
    BY <1>3, FS_Interval
  <2>2. IsFiniteSet(S) /\ Cardinality(S) <= n
    <3> DEFINE f == [i \in 1..n |-> queue[i]]
    <3>1. f \in Surjection(1..n, S)
      BY <1>4 DEF Surjection
    <3> HIDE DEF f
    <3> QED  BY <2>1, <3>1, FS_Surjection
  <2>3. /\ Cardinality(busy \cup S) = Cardinality(busy) + Cardinality(S) - Cardinality(busy \cap S)
        /\ IsFiniteSet(busy \cap S)
    BY <1>1, <2>2, FS_Union, FS_Intersection
  <2>4. Cardinality(S) \in Nat /\ Cardinality(busy \cap S) \in Nat
    BY <2>2, <2>3, FS_CardinalityType
  <2> QED  BY <1>1, <1>3, <2>2, <2>3, <2>4, SellerAssumption
<1> QED  BY <1>6, <1>9, <1>10, <1>19, <1>20 DEF S, rest, ts

-----------------------------------------------------------------------------
(* The parts of the invariant under a step                                 *)

\* A store that stays is still well formed.
LEMMA StoreFrame ==
  ASSUME MemoryOK, UNCHANGED storeVars
  PROVE  MemoryOK'
  BY DEF MemoryOK, storeVars

\* So is a snapshot that stays.
LEMMA DiskFrame ==
  ASSUME DiskOK, UNCHANGED disk
  PROVE  DiskOK'
  BY DEF DiskOK

\* A save makes the snapshot what the memory is after the step.
LEMMA DiskSaved ==
  ASSUME MemoryOK', Save
  PROVE  DiskOK' /\ disk'.tasks = tasks'
  BY DEF MemoryOK, DiskOK, Save

\* No id beyond `created` gets a task.
LEMMA IdsStep ==
  ASSUME IdsFresh, created' \in created..MaxTasks,
         \A t \in TaskIds : t > created' => tasks'[t] = tasks[t],
         disk' = disk \/ disk'.tasks = tasks'
  PROVE  IdsFresh'
<1>1. created' \in 0..MaxTasks /\ created' >= created /\ created \in Int /\ created' \in Int
  BY SellerAssumption DEF IdsFresh
<1>2. ASSUME NEW t \in TaskIds, t > created' PROVE t > created
  BY <1>1, <1>2, SellerAssumption DEF TaskIds
<1> QED  BY <1>1, <1>2 DEF IdsFresh

\* Workers that stay, with tasks that stay.
LEMMA WorkersFrame ==
  ASSUME WorkersOK, UNCHANGED workVars,
         \A t \in TaskIds : wpc[t] # "none" => tasks'[t] = tasks[t]
  PROVE  WorkersOK'
  BY DEF WorkersOK, workVars

\* A worker goes from one of its stages to the next.
LEMMA WorkerMoves ==
  ASSUME WorkersOK, NEW t \in TaskIds, NEW label \in Holding, wpc[t] \in Holding,
         Stage(t, label), UNCHANGED active,
         tasks'[t] \in Task, tasks'[t].status # "QUEUED",
         \A u \in TaskIds \ {t} : tasks'[u] = tasks[u]
  PROVE  WorkersOK'
<1> USE DEF WorkersOK
<1>1. wpc' = [wpc EXCEPT ![t] = label]
  BY DEF Stage
<1>2. wpc' \in [TaskIds -> WorkLabels]
  BY <1>1 DEF Holding, WorkLabels
<1>3. ASSUME NEW u \in TaskIds PROVE wpc'[u] \in Holding <=> wpc[u] \in Holding
  BY <1>1
<1>4. active' = {u \in TaskIds : wpc'[u] \in Holding}
  BY <1>3
<1>5. ASSUME NEW u \in TaskIds, wpc'[u] # "none"
      PROVE  tasks'[u] \in Task /\ tasks'[u].status # "QUEUED"
  BY <1>1, <1>5
<1> QED  BY <1>2, <1>4, <1>5

\* scheduleProcessQueue, whoever calls it: every part of the store and the workers.
LEMMA ScheduleStep ==
  ASSUME MemoryOK, DiskOK, NEW busy \in SUBSET TaskIds, NEW stage \in [TaskIds -> WorkLabels],
         busy = {t \in TaskIds : stage[t] \in Holding}, Cardinality(busy) <= Workers,
         \A t \in TaskIds : stage[t] # "none" => tasks[t] \in Task /\ tasks[t].status # "QUEUED",
         Schedule(busy, stage)
  PROVE  /\ MemoryOK' /\ DiskOK' /\ WorkersOK'
         /\ disk' = disk \/ disk'.tasks = tasks'
         /\ \A t \in TaskIds : tasks[t] = NoTask => tasks'[t] = NoTask
<1> DEFINE S == ToStart(busy)
<1>1. /\ tasks' = Started(busy) /\ queue' = Remaining(busy) /\ index' = index
      /\ active' = busy \cup S
      /\ wpc' = [t \in TaskIds |-> IF t \in S THEN "delay" ELSE stage[t]]
  BY DEF Schedule
<1>2. /\ StoreOK(tasks', index', queue')
      /\ S \in SUBSET TaskIds
      /\ \A t \in S : /\ tasks[t] \in Task /\ tasks[t].status = "QUEUED"
                      /\ tasks'[t] \in Task /\ tasks'[t].status = "RUNNING"
      /\ \A t \in TaskIds \ S : tasks'[t] = tasks[t]
      /\ Cardinality(active') <= Workers
  BY <1>1, StartStore
<1> HIDE DEF S
<1>3. MemoryOK'
  BY <1>2 DEF MemoryOK
<1>4. WorkersOK'
  <2>1. wpc' \in [TaskIds -> WorkLabels]
    BY <1>1 DEF WorkLabels
  <2>2. active' = {t \in TaskIds : wpc'[t] \in Holding}
    BY <1>1, <1>2 DEF Holding
  <2>3. ASSUME NEW t \in TaskIds, wpc'[t] # "none"
        PROVE  tasks'[t] \in Task /\ tasks'[t].status # "QUEUED"
    BY <1>1, <1>2, <2>3
  <2> QED  BY <1>2, <2>1, <2>2, <2>3 DEF WorkersOK
<1>5. disk' = disk \/ Save
  BY DEF Schedule, SaveStarted
<1>6. DiskOK' /\ (disk' = disk \/ disk'.tasks = tasks')
  BY <1>3, <1>5, DiskFrame, DiskSaved
<1>7. \A t \in TaskIds : tasks[t] = NoTask => tasks'[t] = NoTask
  BY <1>2, TaskFacts
<1> QED  BY <1>3, <1>4, <1>6, <1>7

\* Pulls that stay, in a store that knows no fewer tasks.
LEMMA PullsFrame ==
  ASSUME PullsOK, created \in Nat, created' \in Nat, created <= created', UNCHANGED pullVars,
         \A p \in Pullers : ppc[p] = "introspect" => tasks'[cand[p]] = tasks[cand[p]]
  PROVE  PullsOK'
<1>1. ASSUME NEW p \in Pullers, ppc[p] = "introspect" PROVE cand[p] \in 1..created'
  BY <1>1 DEF PullsOK
<1> QED  BY <1>1 DEF PullsOK, pullVars

\* A pull goes anywhere but to introspection.
LEMMA PullMoves ==
  ASSUME PullsOK, NEW p \in Pullers, NEW label \in PullLabels \ {"introspect"},
         Goto(p, label), UNCHANGED created,
         batch' \in [Pullers -> Seq(Message)], \A q \in Pullers \ {p} : batch'[q] = batch[q],
         label \notin {"idle", "next"} => batch'[p] # <<>>,
         cand' \in [Pullers -> 0..MaxTasks], \A q \in Pullers \ {p} : cand'[q] = cand[q],
         \A q \in Pullers \ {p} : ppc[q] = "introspect" => tasks'[cand[q]] = tasks[cand[q]]
  PROVE  PullsOK'
<1>1. ppc' = [ppc EXCEPT ![p] = label]
  BY DEF Goto
<1>2. ppc' \in [Pullers -> PullLabels] /\ ppc'[p] # "introspect"
  BY <1>1 DEF PullsOK
<1>3. \A q \in Pullers \ {p} : ppc'[q] = ppc[q]
  BY <1>1 DEF PullsOK
<1>4. ASSUME NEW q \in Pullers, ppc'[q] \notin {"idle", "next"} PROVE batch'[q] # <<>>
  BY <1>1, <1>3, <1>4 DEF PullsOK
<1>5. ASSUME NEW q \in Pullers, ppc'[q] = "introspect"
      PROVE  /\ cand'[q] \in 1..created' /\ tasks'[cand'[q]] = NoTask
             /\ \A s \in Pullers \ {q} : ppc'[s] = "introspect" => cand'[s] # cand'[q]
  <2>1. q # p /\ ppc[q] = "introspect" /\ cand'[q] = cand[q]
    BY <1>2, <1>3, <1>5
  <2>2. /\ cand[q] \in 1..created /\ tasks[cand[q]] = NoTask
        /\ \A s \in Pullers \ {q} : ppc[s] = "introspect" => cand[s] # cand[q]
    BY <2>1 DEF PullsOK
  <2>3. ASSUME NEW s \in Pullers \ {q}, ppc'[s] = "introspect" PROVE cand'[s] # cand'[q]
    <3>1. s # p /\ ppc[s] = "introspect" /\ cand'[s] = cand[s]
      BY <1>2, <1>3, <2>3
    <3> QED  BY <2>1, <2>2, <3>1
  <2> QED  BY <2>1, <2>2, <2>3
<1> QED  BY <1>2, <1>4, <1>5 DEF PullsOK

-----------------------------------------------------------------------------
(* The steps                                                               *)

\* The invariant without the network.
CoreOK == MemoryOK /\ DiskOK /\ WorkersOK /\ PullsOK /\ IdsFresh

\* A step that leaves the store and the disk alone.
LEMMA QuietStep ==
  ASSUME CoreOK, UNCHANGED <<storeVars, disk, created>>
  PROVE  /\ MemoryOK' /\ DiskOK' /\ IdsFresh'
         /\ UNCHANGED workVars => WorkersOK'
         /\ UNCHANGED pullVars => PullsOK'
<1> USE DEF CoreOK
<1>1. created \in Nat /\ created \in created..MaxTasks /\ tasks' = tasks
  BY SellerAssumption DEF IdsFresh, storeVars
<1> QED  BY <1>1, StoreFrame, DiskFrame, IdsStep, WorkersFrame, PullsFrame

\* A step that saves what the memory is and leaves it so.
LEMMA SaveStep ==
  ASSUME CoreOK, UNCHANGED <<storeVars, created>>, Save
  PROVE  /\ MemoryOK' /\ DiskOK' /\ IdsFresh'
         /\ UNCHANGED workVars => WorkersOK'
         /\ UNCHANGED pullVars => PullsOK'
<1> USE DEF CoreOK
<1>1. created \in Nat /\ created \in created..MaxTasks /\ tasks' = tasks
  BY SellerAssumption DEF IdsFresh, storeVars
<1>2. MemoryOK'
  BY StoreFrame
<1> QED  BY <1>1, <1>2, DiskSaved, IdsStep, WorkersFrame, PullsFrame

\* A pull that gives up drops its batch.
LEMMA AbortMoves ==
  ASSUME PullsOK, NEW p \in Pullers, Abort(p), UNCHANGED created,
         \A q \in Pullers \ {p} : ppc[q] = "introspect" => tasks'[cand[q]] = tasks[cand[q]]
  PROVE  PullsOK'
<1>1. Goto(p, "idle") /\ "idle" \in PullLabels \ {"introspect"}
  BY DEF Abort, PullLabels
<1>2. batch' = [batch EXCEPT ![p] = <<>>] /\ cand' = [cand EXCEPT ![p] = None]
  BY DEF Abort
<1>3. batch' \in [Pullers -> Seq(Message)] /\ \A q \in Pullers \ {p} : batch'[q] = batch[q]
  BY <1>2 DEF PullsOK
<1>4. cand' \in [Pullers -> 0..MaxTasks] /\ \A q \in Pullers \ {p} : cand'[q] = cand[q]
  BY <1>2, SellerAssumption DEF PullsOK, None
<1> QED  BY <1>1, <1>3, <1>4, PullMoves

\* A pull goes on within its batch, or gives it up.
LEMMA PullProceeds ==
  ASSUME CoreOK, NEW p \in Pullers, NEW o, NEW label \in PullLabels \ {"introspect"},
         batch[p] # <<>>, Proceed(p, o, label), UNCHANGED created,
         \A q \in Pullers \ {p} : ppc[q] = "introspect" => tasks'[cand[q]] = tasks[cand[q]]
  PROVE  PullsOK'
<1> USE DEF CoreOK
<1>1. CASE o = "ok"
  <2>1. Goto(p, label) /\ UNCHANGED <<batch, cand>>
    BY <1>1 DEF Proceed
  <2> QED  BY <2>1, PullMoves DEF PullsOK
<1>2. CASE o # "ok"
  <2>1. Abort(p)
    BY <1>2 DEF Proceed
  <2> QED  BY <2>1, AbortMoves
<1> QED  BY <1>1, <1>2

\* What a pull that introspects has in hand.
LEMMA CandFacts ==
  ASSUME CoreOK, NEW p \in Pullers, ppc[p] = "introspect"
  PROVE  /\ batch[p] # <<>>
         /\ cand[p] \in 1..created /\ cand[p] \in TaskIds /\ tasks[cand[p]] = NoTask
         /\ \A q \in Pullers \ {p} : ppc[q] = "introspect" => cand[q] # cand[p]
<1>1. batch[p] # <<>> /\ cand[p] \in 1..created /\ tasks[cand[p]] = NoTask
  BY DEF CoreOK, PullsOK
<1>2. cand[p] \in TaskIds
  BY <1>1, SellerAssumption DEF CoreOK, IdsFresh, TaskIds
<1> QED  BY <1>1, <1>2 DEF CoreOK, PullsOK

\* Remembering a task nobody knew disturbs no worker.
LEMMA RememberWorkers ==
  ASSUME CoreOK, NEW t \in TaskIds, tasks[t] = NoTask, UNCHANGED workVars,
         \A u \in TaskIds \ {t} : tasks'[u] = tasks[u]
  PROVE  WorkersOK'
<1>1. wpc[t] = "none"
  BY TaskFacts DEF CoreOK, WorkersOK
<1> QED  BY <1>1, WorkersFrame DEF CoreOK

\* Scheduling beside the active workers keeps memory, snapshot and workers well formed.
LEMMA ActiveSchedule ==
  ASSUME CoreOK, Schedule(active, wpc)
  PROVE  /\ MemoryOK' /\ DiskOK' /\ WorkersOK'
         /\ disk' = disk \/ disk'.tasks = tasks'
         /\ \A t \in TaskIds : tasks[t] = NoTask => tasks'[t] = NoTask
<1>1. active \in SUBSET TaskIds /\ wpc \in [TaskIds -> WorkLabels]
  BY DEF CoreOK, WorkersOK
<1> QED  BY <1>1, ScheduleStep DEF CoreOK, WorkersOK

\* What a poll returns is a batch of messages.
LEMMA PollType ==
  ASSUME mailbox \in Seq(Message)
  PROVE  SubSeq(mailbox, 1, Least(Limit, Len(mailbox))) \in Seq(Message)
<1> DEFINE n == Least(Limit, Len(mailbox))
<1>1. n \in Nat /\ n <= Len(mailbox) /\ Len(mailbox) \in Nat
  BY SellerAssumption DEF Least
<1>2. \A j \in 1..n : mailbox[j] \in Message
  BY <1>1, ElementOfSeq
<1> HIDE DEF n
<1>3. SubSeq(mailbox, 1, n) \in Seq(Message)
  BY <1>1, <1>2, SubSeqProperties
<1> QED  BY <1>3 DEF n

\* The steps of one inbox pull.
LEMMA PullCore ==
  ASSUME CoreOK, mailbox \in Seq(Message), NEW p \in Pullers, PullStep(p)
  PROVE  CoreOK'
<1> USE DEF CoreOK
<1>0. created \in Nat /\ created \in created..MaxTasks
  BY SellerAssumption DEF IdsFresh
<1>a. {"next", "lookup", "rejectMetric", "schedule", "platformAck", "save", "ack"}
        \subseteq PullLabels \ {"introspect"}
  BY DEF PullLabels
<1>b. ppc[p] \notin {"idle", "next"} => batch[p] # <<>> /\ Tail(batch[p]) \in Seq(Message)
  BY HeadTailProperties DEF PullsOK
<1>c. batch[p] # <<>> => Envelope(p) \in Message /\ Tail(batch[p]) \in Seq(Message)
  BY HeadTailProperties DEF PullsOK, Envelope
<1>1. CASE PollInbox(p)
  <2> DEFINE b == SubSeq(mailbox, 1, Least(Limit, Len(mailbox)))
  <2>1. b \in Seq(Message)
    BY PollType
  <2> HIDE DEF b
  <2>2. batch' = [batch EXCEPT ![p] = b] /\ Goto(p, "next")
    BY <1>1 DEF PollInbox, b
  <2>3. UNCHANGED <<storeVars, disk, created>> /\ UNCHANGED workVars /\ UNCHANGED cand
    BY <1>1 DEF PollInbox
  <2>4. batch' \in [Pullers -> Seq(Message)] /\ \A q \in Pullers \ {p} : batch'[q] = batch[q]
    BY <2>1, <2>2 DEF PullsOK
  <2>5. PullsOK'
    BY <1>a, <2>2, <2>3, <2>4, PullMoves DEF storeVars, PullsOK
  <2> QED  BY <2>3, <2>5, QuietStep
<1>2. CASE SkipEnvelope(p)
  <2>1. UNCHANGED <<storeVars, disk, created>> /\ UNCHANGED workVars /\ UNCHANGED cand
    BY <1>2 DEF SkipEnvelope
  <2>2. CASE Goto(p, "idle") /\ UNCHANGED batch
    <3>1. "idle" \in PullLabels \ {"introspect"}
      BY DEF PullLabels
    <3>2. PullsOK'
      BY <2>1, <2>2, <3>1, PullMoves DEF storeVars, PullsOK
    <3> QED  BY <2>1, <3>2, QuietStep
  <2>3. CASE batch[p] # <<>> /\ batch' = [batch EXCEPT ![p] = Tail(@)] /\ UNCHANGED ppc
    <3>1. batch' \in [Pullers -> Seq(Message)] /\ \A q \in Pullers \ {p} : batch'[q] = batch[q]
      BY <1>c, <2>3 DEF PullsOK
    <3>2. Goto(p, "next")
      BY <1>2, <2>3 DEF SkipEnvelope, Goto, PullsOK
    <3>3. PullsOK'
      BY <1>a, <2>1, <3>1, <3>2, PullMoves DEF storeVars, PullsOK
    <3> QED  BY <2>1, <3>3, QuietStep
  <2> QED  BY <1>2, <2>2, <2>3 DEF SkipEnvelope
<1>3. CASE ReceiveEnvelope(p)
  <2>1. batch[p] # <<>> /\ UNCHANGED <<storeVars, disk, created>> /\ UNCHANGED workVars
    BY <1>3 DEF ReceiveEnvelope
  <2>2. PICK o : Proceed(p, o, "lookup")
    BY <1>3 DEF ReceiveEnvelope
  <2> QED  BY <1>a, <2>1, <2>2, QuietStep, PullProceeds DEF storeVars
<1>4. CASE AckHandled(p) \/ AckDuplicate(p)
  <2>1. batch[p] # <<>> /\ UNCHANGED <<storeVars, disk, created>> /\ UNCHANGED workVars
    BY <1>4, <1>b DEF AckHandled, AckDuplicate
  <2>2. AckEnvelope(p)
    BY <1>4 DEF AckHandled, AckDuplicate
  <2>3. PullsOK'
    <3>1. CASE Abort(p)
      BY <2>1, <3>1, AbortMoves DEF storeVars
    <3>2. CASE /\ Goto(p, "next")
               /\ batch' = [batch EXCEPT ![p] = Tail(@)]
               /\ cand' = [cand EXCEPT ![p] = None]
      <4>1. batch' \in [Pullers -> Seq(Message)] /\ \A q \in Pullers \ {p} : batch'[q] = batch[q]
        BY <1>c, <2>1, <3>2 DEF PullsOK
      <4>2. cand' \in [Pullers -> 0..MaxTasks] /\ \A q \in Pullers \ {p} : cand'[q] = cand[q]
        BY <3>2, SellerAssumption DEF PullsOK, None
      <4> QED  BY <1>a, <2>1, <3>2, <4>1, <4>2, PullMoves DEF storeVars
    <3> QED  BY <2>2, <3>1, <3>2 DEF AckEnvelope
  <2> QED  BY <2>1, <2>3, QuietStep
<1>5. CASE ReplayResult(p)
  <2>1. batch[p] # <<>> /\ UNCHANGED <<storeVars, disk, created>> /\ UNCHANGED workVars
    BY <1>5, <1>b DEF ReplayResult
  <2>2. PICK o : Proceed(p, o, "ack")
    BY <1>5 DEF ReplayResult
  <2> QED  BY <1>a, <2>1, <2>2, QuietStep, PullProceeds DEF storeVars
<1>6. CASE CreateTask(p)
  <2>1. /\ created < MaxTasks /\ created' = created + 1
        /\ cand' = [cand EXCEPT ![p] = created + 1] /\ ppc' = [ppc EXCEPT ![p] = "introspect"]
        /\ UNCHANGED <<storeVars, disk, batch>> /\ UNCHANGED workVars
        /\ batch[p] # <<>>
    BY <1>6, <1>b DEF CreateTask, Goto
  <2>2. created' \in created..MaxTasks /\ created' \in 0..MaxTasks /\ created' \in TaskIds
    BY <1>0, <2>1, SellerAssumption DEF TaskIds
  <2>3. tasks' = tasks /\ tasks'[created'] = NoTask
    BY <1>0, <2>1, <2>2 DEF storeVars, IdsFresh
  <2>4. IdsFresh'
    BY <2>1, <2>2, <2>3, IdsStep
  <2>5. ppc' \in [Pullers -> PullLabels] /\ cand' \in [Pullers -> 0..MaxTasks]
    BY <2>1, <2>2 DEF PullsOK, PullLabels
  <2>6. ASSUME NEW q \in Pullers \ {p}, ppc'[q] = "introspect"
        PROVE  /\ cand'[q] = cand[q] /\ cand'[q] \in 1..created /\ tasks'[cand'[q]] = NoTask
               /\ \A s \in Pullers \ {q} : ppc[s] = "introspect" => cand[s] # cand'[q]
    BY <2>1, <2>3, <2>6 DEF PullsOK
  <2>7. cand'[p] = created + 1
    BY <2>1 DEF PullsOK
  <2>8. ASSUME NEW q \in Pullers, ppc'[q] = "introspect"
        PROVE  /\ cand'[q] \in 1..created' /\ tasks'[cand'[q]] = NoTask
               /\ \A s \in Pullers \ {q} : ppc'[s] = "introspect" => cand'[s] # cand'[q]
    <3>1. CASE q = p
      <4>1. \A s \in Pullers \ {q} : ppc'[s] = "introspect" => cand'[s] # created + 1
        BY <1>0, <2>6, <3>1
      <4> QED  BY <1>0, <2>1, <2>3, <2>7, <3>1, <4>1
    <3>2. CASE q # p
      <4>1. cand'[q] \in 1..created' /\ tasks'[cand'[q]] = NoTask /\ cand'[q] # created + 1
        BY <1>0, <2>1, <2>6, <2>8, <3>2
      <4>2. ASSUME NEW s \in Pullers \ {q}, ppc'[s] = "introspect" PROVE cand'[s] # cand'[q]
        <5>1. CASE s = p
          BY <2>7, <4>1, <5>1
        <5>2. CASE s # p
          <6>1. ppc[s] = "introspect" /\ cand'[s] = cand[s]
            BY <2>1, <2>6, <4>2, <5>2 DEF PullsOK
          <6> QED  BY <2>6, <2>8, <3>2, <6>1
        <5> QED  BY <5>1, <5>2
      <4> QED  BY <4>1, <4>2
    <3> QED  BY <3>1, <3>2
  <2>9. PullsOK'
    <3>1. \A q \in Pullers : ppc'[q] \notin {"idle", "next"} => batch'[q] # <<>>
      BY <2>1 DEF PullsOK
    <3> QED  BY <2>1, <2>5, <2>8, <3>1 DEF PullsOK
  <2>10. MemoryOK' /\ DiskOK' /\ WorkersOK'
    BY <2>1, <2>3, StoreFrame, DiskFrame, WorkersFrame
  <2> QED  BY <2>4, <2>9, <2>10
<1>7. CASE IntrospectionFails(p)
  <2>1. UNCHANGED <<storeVars, disk, created>> /\ UNCHANGED workVars /\ Abort(p)
    BY <1>7 DEF IntrospectionFails
  <2> QED  BY <2>1, QuietStep, AbortMoves DEF storeVars
<1>8. CASE RejectTask(p)
  <2> DEFINE t == cand[p]
             task == Completed(NewTask(Envelope(p).req, TRUE), "rejected")
  <2>1. ppc[p] = "introspect" /\ Remember(t, task) /\ queue' = queue
        /\ UNCHANGED <<disk, created>> /\ UNCHANGED workVars
    BY <1>8 DEF RejectTask
  <2>2. PICK o : Proceed(p, o, "rejectMetric")
    BY <1>8 DEF RejectTask
  <2>3. batch[p] # <<>> /\ t \in 1..created /\ t \in TaskIds /\ tasks[t] = NoTask
    BY <1>0, <2>1, CandFacts
  <2>4. task \in Task /\ task.status # "QUEUED"
    BY <1>c, <2>3 DEF Message, Completed, NewTask, Task, Results
  <2> HIDE DEF t, task
  <2>5. MemoryOK'
    BY <2>1, <2>3, <2>4, RejectStore
  <2>6. \A u \in TaskIds \ {t} : tasks'[u] = tasks[u]
    BY <2>1 DEF Remember, MemoryOK, StoreOK
  <2>7. WorkersOK'
    BY <2>1, <2>3, <2>6, RememberWorkers
  <2>8. IdsFresh'
    BY <1>0, <2>1, <2>3, <2>6, IdsStep
  <2>9. PullsOK'
    <3>1. \A q \in Pullers \ {p} : ppc[q] = "introspect" => tasks'[cand[q]] = tasks[cand[q]]
      BY <2>1, <2>6, CandFacts DEF t
    <3> QED  BY <1>a, <2>1, <2>2, <2>3, <3>1, PullProceeds
  <2> QED  BY <2>1, <2>5, <2>7, <2>8, <2>9, DiskFrame
<1>9. CASE ReportRejected(p)
  <2>1. batch[p] # <<>> /\ UNCHANGED <<storeVars, disk, created>> /\ UNCHANGED workVars
    BY <1>9, <1>b DEF ReportRejected
  <2>2. PICK o : Proceed(p, o, "save")
    BY <1>9 DEF ReportRejected
  <2> QED  BY <1>a, <2>1, <2>2, QuietStep, PullProceeds DEF storeVars
<1>10. CASE AcceptTask(p)
  <2> DEFINE t == cand[p]
             task == NewTask(Envelope(p).req, TRUE)
  <2>1. ppc[p] = "introspect" /\ Remember(t, task) /\ InsertIntoQueue(t) /\ Save
        /\ Goto(p, "schedule") /\ UNCHANGED <<batch, cand, created>> /\ UNCHANGED workVars
    BY <1>10 DEF AcceptTask, EnqueueTask, SaveEnqueued
  <2>2. Proceed(p, "ok", "schedule")
    BY <2>1 DEF Proceed
  <2>3. batch[p] # <<>> /\ t \in 1..created /\ t \in TaskIds /\ tasks[t] = NoTask
    BY <1>0, <2>1, CandFacts
  <2>4. task \in Task /\ task.status = "QUEUED"
    BY <1>c, <2>3 DEF Message, NewTask, Task, Results
  <2> HIDE DEF t, task
  <2>5. MemoryOK'
    BY <2>1, <2>3, <2>4, EnqueueStore
  <2>6. \A u \in TaskIds \ {t} : tasks'[u] = tasks[u]
    BY <2>1 DEF Remember, MemoryOK, StoreOK
  <2>7. WorkersOK'
    BY <2>1, <2>3, <2>6, RememberWorkers
  <2>8. DiskOK' /\ disk'.tasks = tasks'
    BY <2>1, <2>5, DiskSaved
  <2>9. IdsFresh'
    BY <1>0, <2>1, <2>3, <2>6, <2>8, IdsStep
  <2>10. PullsOK'
    <3>1. \A q \in Pullers \ {p} : ppc[q] = "introspect" => tasks'[cand[q]] = tasks[cand[q]]
      BY <2>1, <2>6, CandFacts DEF t
    <3> QED  BY <1>a, <2>1, <2>2, <2>3, <3>1, PullProceeds
  <2> QED  BY <2>5, <2>7, <2>8, <2>9, <2>10
<1>11. CASE ScheduleAccepted(p)
  <2>1. ppc[p] = "schedule" /\ Schedule(active, wpc) /\ UNCHANGED created
    BY <1>11 DEF ScheduleAccepted
  <2>2. PICK o : Proceed(p, o, "platformAck")
    BY <1>11 DEF ScheduleAccepted
  <2>3. /\ MemoryOK' /\ DiskOK' /\ WorkersOK'
        /\ disk' = disk \/ disk'.tasks = tasks'
        /\ \A t \in TaskIds : tasks[t] = NoTask => tasks'[t] = NoTask
    BY <2>1, ActiveSchedule
  <2>4. IdsFresh'
    BY <1>0, <2>1, <2>3, IdsStep DEF IdsFresh
  <2>5. PullsOK'
    <3>1. \A q \in Pullers \ {p} : ppc[q] = "introspect" => tasks'[cand[q]] = tasks[cand[q]]
      BY <2>3, CandFacts
    <3> QED  BY <1>a, <1>b, <2>1, <2>2, <3>1, PullProceeds
  <2> QED  BY <2>3, <2>4, <2>5
<1>12. CASE AckPlatform(p)
  <2>1. batch[p] # <<>> /\ UNCHANGED <<storeVars, disk, created>> /\ UNCHANGED workVars
    BY <1>12, <1>b DEF AckPlatform
  <2>2. \E o : Proceed(p, o, "save")
    <3>1. Proceed(p, "ok", "save") <=> Goto(p, "save") /\ UNCHANGED <<batch, cand>>
      BY DEF Proceed
    <3> QED  BY <1>12, <3>1 DEF AckPlatform
  <2> QED  BY <1>a, <2>1, <2>2, QuietStep, PullProceeds DEF storeVars
<1>13. CASE SaveHandled(p)
  <2>1. batch[p] # <<>> /\ UNCHANGED storeVars /\ UNCHANGED created /\ Save
    BY <1>13, <1>b DEF SaveHandled
  <2>2. Goto(p, "ack") /\ UNCHANGED <<batch, cand>> /\ UNCHANGED workVars
    BY <1>13 DEF SaveHandled
  <2>3. Proceed(p, "ok", "ack")
    BY <2>2 DEF Proceed
  <2> QED  BY <1>a, <2>1, <2>2, <2>3, SaveStep, PullProceeds DEF storeVars
<1> QED  BY <1>1, <1>2, <1>3, <1>4, <1>5, <1>6, <1>7, <1>8, <1>9, <1>10, <1>11, <1>12, <1>13
         DEF PullStep

\* After a call of scheduleProcessQueue outside the pulls.
LEMMA OthersAfterSchedule ==
  ASSUME CoreOK, UNCHANGED created, UNCHANGED pullVars,
         disk' = disk \/ disk'.tasks = tasks',
         \A t \in TaskIds : tasks[t] = NoTask => tasks'[t] = NoTask
  PROVE  PullsOK' /\ IdsFresh'
<1> USE DEF CoreOK
<1>1. created \in Nat /\ created \in created..MaxTasks
  BY SellerAssumption DEF IdsFresh
<1>2. IdsFresh'
  BY <1>1, IdsStep DEF IdsFresh
<1>3. \A p \in Pullers : ppc[p] = "introspect" => tasks'[cand[p]] = tasks[cand[p]]
  BY CandFacts
<1> QED  BY <1>1, <1>2, <1>3, PullsFrame

\* The task of a worker is real, so no pull is still introspecting it.
LEMMA WorkerTask ==
  ASSUME CoreOK, NEW t \in TaskIds, wpc[t] # "none"
  PROVE  /\ tasks[t] \in Task /\ tasks[t].status # "QUEUED" /\ tasks[t] # NoTask
         /\ t <= created
         /\ \A p \in Pullers : ppc[p] = "introspect" => cand[p] # t
<1>1. tasks[t] \in Task /\ tasks[t].status # "QUEUED" /\ tasks[t] # NoTask
  BY TaskFacts DEF CoreOK, WorkersOK
<1>2. t <= created
  BY <1>1, SellerAssumption DEF CoreOK, IdsFresh, TaskIds
<1> QED  BY <1>1, <1>2 DEF CoreOK, PullsOK

\* A worker that goes on without touching the store.
LEMMA StageCore ==
  ASSUME CoreOK, NEW t \in TaskIds, NEW label \in Holding, wpc[t] \in Holding,
         Stage(t, label), UNCHANGED <<storeVars, disk, created, active>>, UNCHANGED pullVars
  PROVE  CoreOK'
<1>1. wpc[t] # "none"
  BY DEF Holding
<1>2. tasks[t] \in Task /\ tasks[t].status # "QUEUED"
  BY <1>1, WorkerTask
<1>3. WorkersOK'
  BY <1>2, WorkerMoves DEF CoreOK, storeVars
<1> QED  BY <1>3, QuietStep DEF CoreOK

\* A worker that changes its task and goes on.
LEMMA TaskCore ==
  ASSUME CoreOK, NEW t \in TaskIds, NEW label \in Holding, wpc[t] \in Holding, Stage(t, label),
         NEW task \in Task, task.status # "QUEUED", tasks' = [tasks EXCEPT ![t] = task],
         UNCHANGED <<index, queue, created, active>>, UNCHANGED pullVars,
         disk' = disk \/ Save
  PROVE  CoreOK'
<1> USE DEF CoreOK
<1>1. wpc[t] # "none"
  BY DEF Holding
<1>2. /\ tasks[t] \in Task /\ tasks[t].status # "QUEUED" /\ t <= created
      /\ \A p \in Pullers : ppc[p] = "introspect" => cand[p] # t
  BY <1>1, WorkerTask
<1>3. tasks'[t] = task /\ \A u \in TaskIds \ {t} : tasks'[u] = tasks[u]
  BY DEF MemoryOK, StoreOK
<1>4. MemoryOK'
  BY <1>2, WorkStore
<1>5. WorkersOK'
  BY <1>3, WorkerMoves
<1>6. created \in Nat /\ created \in created..MaxTasks
  BY SellerAssumption DEF IdsFresh
<1>7. DiskOK' /\ (disk' = disk \/ disk'.tasks = tasks')
  BY <1>4, DiskFrame, DiskSaved
<1>8. IdsFresh'
  BY <1>2, <1>3, <1>6, <1>7, IdsStep DEF TaskIds
<1>9. PullsOK'
  <2>1. \A p \in Pullers : ppc[p] = "introspect" => tasks'[cand[p]] = tasks[cand[p]]
    BY <1>2, <1>3, CandFacts
  <2> QED  BY <1>6, <2>1, PullsFrame
<1> QED  BY <1>4, <1>5, <1>7, <1>8, <1>9

\* finalizeTask keeps the store and the workers well formed.
LEMMA FinalizeCore ==
  ASSUME CoreOK, NEW t \in TaskIds, wpc[t] \in Holding,
         NEW res \in {"ok", "error", "runtime_error"}, FinalizeTask(t, res)
  PROVE  CoreOK'
<1>1. tasks[t] \in Task
  BY WorkerTask DEF Holding
<1>2. Completed(tasks[t], res) \in Task /\ Completed(tasks[t], res).status # "QUEUED"
  BY <1>1 DEF Completed, Task, Results
<1>3. \E label \in Holding : Stage(t, label)
  BY DEF FinalizeTask, Holding
<1> QED  BY <1>2, <1>3, TaskCore DEF FinalizeTask

\* A restart from a good snapshot.
LEMMA BootCore ==
  ASSUME IdsFresh, UNCHANGED created, NEW snapshot, Boot(snapshot), disk' = snapshot,
         snapshot = [tasks |-> snapshot.tasks, index |-> snapshot.index, queue |-> snapshot.queue],
         StoreOK(snapshot.tasks, snapshot.index, snapshot.queue),
         \A t \in TaskIds : t > created => snapshot.tasks[t] = NoTask
  PROVE  CoreOK'
<1> USE DEF Boot
<1>1. MemoryOK' /\ DiskOK'
  BY DEF MemoryOK, DiskOK
<1>2. Cardinality({}) = 0
  BY FS_EmptySet
<1>3. WorkersOK'
  BY <1>2, SellerAssumption DEF WorkersOK, WorkLabels, Holding
<1>4. PullsOK'
  BY SellerAssumption DEF PullsOK, PullLabels, None
<1>5. IdsFresh'
  BY DEF IdsFresh
<1> QED  BY <1>1, <1>3, <1>4, <1>5 DEF CoreOK

\* The steps of one worker.
LEMMA WorkCore ==
  ASSUME CoreOK, NEW t \in TaskIds, WorkStep(t)
  PROVE  CoreOK'
<1> USE DEF CoreOK
<1>1. CASE BeginExecution(t)
  BY <1>1, StageCore DEF BeginExecution, Holding
<1>2. CASE ExecutorReturns(t)
  BY <1>2, FinalizeCore DEF ExecutorReturns, Holding
<1>3. CASE ExecutorThrows(t)
  BY <1>3, FinalizeCore DEF ExecutorThrows, Holding
<1>4. CASE ExecutorDefers(t)
  <2> DEFINE task == [tasks[t] EXCEPT !.deferred = TRUE]
  <2>1. tasks[t] \in Task /\ tasks[t].status # "QUEUED"
    BY <1>4, WorkerTask DEF ExecutorDefers
  <2>2. task \in Task /\ task.status # "QUEUED"
    BY <2>1 DEF Task
  <2>3. tasks' = [tasks EXCEPT ![t] = task]
    BY <1>4 DEF ExecutorDefers
  <2> HIDE DEF task
  <2> QED  BY <1>4, <2>2, <2>3, TaskCore DEF ExecutorDefers, Holding
<1>5. CASE FailTask(t)
  BY <1>5, FinalizeCore DEF FailTask, Holding
<1>6. CASE PostLifecycleEvent(t)
  BY <1>6, StageCore DEF PostLifecycleEvent, Holding
<1>7. CASE ReportResult(t)
  BY <1>7, StageCore DEF ReportResult, Holding
<1>8. CASE ReleaseWorker(t)
  <2>1. /\ wpc[t] = "finish" /\ active' = active \ {t} /\ wpc' = [wpc EXCEPT ![t] = "reschedule"]
        /\ UNCHANGED storeVars /\ UNCHANGED created /\ Save /\ UNCHANGED pullVars
    BY <1>8 DEF ReleaseWorker, Stage
  <2>2. WorkersOK'
    <3>1. wpc' \in [TaskIds -> WorkLabels]
      BY <2>1 DEF WorkersOK, WorkLabels
    <3>2. active' = {u \in TaskIds : wpc'[u] \in Holding}
      BY <2>1 DEF WorkersOK, Holding
    <3>3. Cardinality(active') <= Workers
      <4>1. IsFiniteSet(TaskIds)
        BY FS_Interval, SellerAssumption DEF TaskIds
      <4>2. IsFiniteSet(active)
        BY <4>1, FS_Subset DEF WorkersOK
      <4>3. IsFiniteSet(active') /\ Cardinality(active') <= Cardinality(active)
        BY <2>1, <4>2, FS_Subset
      <4> QED  BY <4>2, <4>3, FS_CardinalityType, SellerAssumption DEF WorkersOK
    <3>4. \A u \in TaskIds : wpc'[u] # "none" => tasks'[u] \in Task /\ tasks'[u].status # "QUEUED"
      BY <2>1 DEF WorkersOK, storeVars
    <3> QED  BY <3>1, <3>2, <3>3, <3>4 DEF WorkersOK
  <2> QED  BY <2>1, <2>2, SaveStep
<1>9. CASE Reschedule(t)
  <2> DEFINE stage == [wpc EXCEPT ![t] = "none"]
  <2>1. wpc[t] = "reschedule" /\ Schedule(active, stage) /\ UNCHANGED created /\ UNCHANGED pullVars
    BY <1>9 DEF Reschedule
  <2>2. /\ stage \in [TaskIds -> WorkLabels] /\ active = {u \in TaskIds : stage[u] \in Holding}
        /\ \A u \in TaskIds : stage[u] # "none" => tasks[u] \in Task /\ tasks[u].status # "QUEUED"
    BY <2>1 DEF WorkersOK, WorkLabels, Holding
  <2>3. active \in SUBSET TaskIds /\ Cardinality(active) <= Workers
    BY DEF WorkersOK
  <2> HIDE DEF stage
  <2>4. /\ MemoryOK' /\ DiskOK' /\ WorkersOK'
        /\ disk' = disk \/ disk'.tasks = tasks'
        /\ \A u \in TaskIds : tasks[u] = NoTask => tasks'[u] = NoTask
    BY <2>1, <2>2, <2>3, ScheduleStep
  <2> QED  BY <2>1, <2>4, OthersAfterSchedule
<1>10. CASE UnhandledRejection(t)
  <2> DEFINE busy == active \ {t}
             snapshot == [tasks |-> Started(busy), index |-> index, queue |-> Remaining(busy)]
  <2>1. busy \in SUBSET TaskIds /\ Cardinality(busy) <= Workers
    <3>1. IsFiniteSet(TaskIds)
      BY FS_Interval, SellerAssumption DEF TaskIds
    <3>2. IsFiniteSet(active)
      BY <3>1, FS_Subset DEF WorkersOK
    <3>3. IsFiniteSet(busy) /\ Cardinality(busy) <= Cardinality(active)
      BY <3>2, FS_Subset
    <3> QED  BY <3>2, <3>3, FS_CardinalityType, SellerAssumption DEF WorkersOK
  <2>2. Boot(snapshot) /\ disk' = snapshot /\ UNCHANGED created
    BY <1>10 DEF UnhandledRejection
  <2>3. /\ StoreOK(snapshot.tasks, snapshot.index, snapshot.queue)
        /\ \A u \in TaskIds : tasks[u] = NoTask => snapshot.tasks[u] = NoTask
    <3> HIDE DEF busy
    <3> QED  BY <2>1, StartStore, TaskFacts
  <2>4. snapshot = [tasks |-> snapshot.tasks, index |-> snapshot.index, queue |-> snapshot.queue]
    OBVIOUS
  <2> HIDE DEF snapshot
  <2> QED  BY <2>2, <2>3, <2>4, BootCore DEF IdsFresh
<1>11. CASE SaveOutcome(t)
  <2>1. /\ wpc[t] = "save" /\ Stage(t, "finish") /\ UNCHANGED active
        /\ UNCHANGED storeVars /\ UNCHANGED created /\ Save /\ UNCHANGED pullVars
    BY <1>11 DEF SaveOutcome
  <2>2. tasks[t] \in Task /\ tasks[t].status # "QUEUED"
    BY <2>1, WorkerTask
  <2>3. WorkersOK'
    BY <2>1, <2>2, WorkerMoves DEF storeVars, Holding
  <2> QED  BY <2>1, <2>3, SaveStep
<1> QED  BY <1>1, <1>2, <1>3, <1>4, <1>5, <1>6, <1>7, <1>8, <1>9, <1>10, <1>11 DEF WorkStep

\* So does POST /tasks.
LEMMA PostCore ==
  ASSUME CoreOK, NEW r \in Requests, PostTask(r)
  PROVE  CoreOK'
<1> USE DEF CoreOK
<1>0. PICK routed \in BOOLEAN : EnqueueTask(created + 1, NewTask(r, routed))
  BY DEF PostTask
<1> DEFINE t == created + 1
           task == NewTask(r, routed)
<1>1. /\ created < MaxTasks /\ created' = t /\ Remember(t, task) /\ InsertIntoQueue(t) /\ Save
      /\ UNCHANGED workVars /\ UNCHANGED pullVars
  BY <1>0 DEF PostTask, EnqueueTask, SaveEnqueued
<1>2. /\ created \in Nat /\ t \in Nat /\ created <= t
      /\ t \in created..MaxTasks /\ t \in TaskIds /\ t > created
  BY <1>1, SellerAssumption DEF IdsFresh, TaskIds
<1>3. task \in Task /\ task.status = "QUEUED"
  BY DEF NewTask, Task, Results
<1>4. tasks[t] = NoTask
  BY <1>2 DEF IdsFresh
<1>5. ASSUME NEW p \in Pullers, ppc[p] = "introspect" PROVE cand[p] \in TaskIds \ {t}
  <2>1. cand[p] \in TaskIds /\ cand[p] \in 1..created
    BY <1>5, CandFacts
  <2> QED  BY <1>2, <2>1
<1> HIDE DEF t, task
<1>6. MemoryOK'
  BY <1>1, <1>2, <1>3, <1>4, EnqueueStore
<1>7. \A u \in TaskIds \ {t} : tasks'[u] = tasks[u]
  BY <1>1 DEF Remember, MemoryOK, StoreOK
<1>8. WorkersOK'
  BY <1>1, <1>2, <1>4, <1>7, RememberWorkers
<1>9. DiskOK' /\ disk'.tasks = tasks'
  BY <1>1, <1>6, DiskSaved
<1>10. IdsFresh'
  BY <1>1, <1>2, <1>7, <1>9, IdsStep DEF TaskIds
<1>11. PullsOK'
  BY <1>1, <1>2, <1>5, <1>7, PullsFrame
<1> QED  BY <1>6, <1>8, <1>9, <1>10, <1>11

\* Every step keeps the core of the invariant.
LEMMA CoreStep ==
  ASSUME CoreOK, mailbox \in Seq(Message), Next
  PROVE  CoreOK'
<1>1. ASSUME NEW r \in Requests, SendRequest(r) PROVE CoreOK'
  BY <1>1, QuietStep DEF SendRequest, CoreOK
<1>2. ASSUME SchedulePosted PROVE CoreOK'
  <2>1. Schedule(active, wpc) /\ UNCHANGED created /\ UNCHANGED pullVars
    BY <1>2 DEF SchedulePosted
  <2> QED  BY <2>1, ActiveSchedule, OthersAfterSchedule DEF CoreOK
<1>3. ASSUME Heartbeat PROVE CoreOK'
  BY <1>3, SaveStep DEF Heartbeat, CoreOK
<1>4. ASSUME Crash PROVE CoreOK'
  <2>1. Boot(disk) /\ disk' = disk /\ UNCHANGED created
    BY <1>4 DEF Crash
  <2> QED  BY <2>1, BootCore DEF CoreOK, DiskOK, IdsFresh
<1> QED  BY <1>1, <1>2, <1>3, <1>4, PostCore, PullCore, WorkCore DEF Next

-----------------------------------------------------------------------------
(* Messages, results, reports and counters                                 *)

\* Taking an envelope out leaves a queue of messages.
LEMMA RemoveType ==
  ASSUME mailbox \in Seq(Message), NEW m
  PROVE  RemoveMessage(m) \in Seq(Message)
<1> DEFINE i == CHOOSE j \in DOMAIN mailbox : mailbox[j] = m
           a == SubSeq(mailbox, 1, i - 1)
           b == SubSeq(mailbox, i + 1, Len(mailbox))
<1>1. CASE \E j \in DOMAIN mailbox : mailbox[j] = m
  <2>1. i \in 1..Len(mailbox) /\ Len(mailbox) \in Nat
    BY <1>1
  <2> HIDE DEF i
  <2>2. a \in Seq(Message) /\ b \in Seq(Message)
    <3>1. \A j \in 1..Len(mailbox) : mailbox[j] \in Message
      BY ElementOfSeq
    <3> QED  BY <2>1, <3>1, SubSeqProperties
  <2> HIDE DEF a, b
  <2>3. a \o b \in Seq(Message)
    BY <2>2, ConcatProperties
  <2> QED  BY <1>1, <2>3 DEF RemoveMessage, a, b, i
<1>2. CASE ~\E j \in DOMAIN mailbox : mailbox[j] = m
  BY <1>2 DEF RemoveMessage
<1> QED  BY <1>1, <1>2

\* The count of faults stays a number.
LEMMA AttemptType ==
  ASSUME faults \in Nat, NEW c, NEW o, Attempt(c, o)
  PROVE  faults' \in Nat
  BY DEF Attempt

\* What is sent is a result of a request.
LEMMA SendType ==
  ASSUME NetOK, NEW r \in Requests, NEW res \in Results, NEW routed, NEW c, NEW o,
         SendResult(r, res, routed, c, o)
  PROVE  sent' \in SUBSET (Requests \X Results) /\ faults' \in Nat
  BY AttemptType DEF SendResult, NetOK

\* What is reported is an outcome of a request.
LEMMA ReportType ==
  ASSUME NetOK, NEW r \in Requests, NEW event \in {"ACKED", "COMPLETED", "FAILED"}, NEW c, NEW o,
         Report(r, event, c, o)
  PROVE  /\ reported' \in [Requests -> SUBSET {"ACKED", "COMPLETED", "FAILED"}]
         /\ faults' \in Nat
  BY AttemptType DEF Report, NetOK

\* Every step keeps the network well formed.
LEMMA NetStep ==
  ASSUME CoreOK, NetOK, Next
  PROVE  NetOK'
<1>1. ASSUME NEW r \in Requests, SendRequest(r) PROVE NetOK'
  <2>1. [id |-> nsent + 1, req |-> r] \in Message
    BY DEF NetOK, Message
  <2>2. mailbox' \in Seq(Message)
    BY <1>1, <2>1, AppendProperties DEF SendRequest, NetOK
  <2> QED  BY <1>1, <2>2 DEF SendRequest, NetOK, seenVars, lifeVars
<1>2. ASSUME NEW r \in Requests, PostTask(r) PROVE NetOK'
  BY <1>2 DEF PostTask, NetOK, netVars, seenVars, lifeVars
<1>3. ASSUME NEW p \in Pullers, PullStep(p) PROVE NetOK'
  <2>0. batch[p] # <<>> => Envelope(p).req \in Requests
    <3>1. batch[p] # <<>> => Envelope(p) \in Message
      BY HeadTailProperties DEF CoreOK, PullsOK, Envelope
    <3> QED  BY <3>1 DEF Message
  <2>b. ppc[p] \notin {"idle", "next"} => batch[p] # <<>>
    BY DEF CoreOK, PullsOK
  <2>a. UNCHANGED <<posts, executed, crashes, boots, nsent>>
    BY <1>3 DEF PullStep, PollInbox, SkipEnvelope, ReceiveEnvelope, AckDuplicate, ReplayResult,
                CreateTask, IntrospectionFails, RejectTask, ReportRejected, AcceptTask,
                ScheduleAccepted, AckPlatform, SaveHandled, AckHandled, AckEnvelope,
                netVars, seenVars, lifeVars
  <2>1. CASE PollInbox(p) \/ SkipEnvelope(p) \/ CreateTask(p) \/ AcceptTask(p) \/ SaveHandled(p)
    BY <2>1, <2>a DEF PollInbox, SkipEnvelope, CreateTask, AcceptTask, SaveHandled,
                      NetOK, netVars, seenVars
  <2>2. CASE \/ ReceiveEnvelope(p) \/ IntrospectionFails(p) \/ ReportRejected(p)
             \/ ScheduleAccepted(p)
    <3>1. faults' \in Nat
      BY <2>2, AttemptType DEF ReceiveEnvelope, IntrospectionFails, ReportRejected,
                               ScheduleAccepted, NetOK
    <3> QED  BY <2>2, <2>a, <3>1 DEF ReceiveEnvelope, IntrospectionFails, ReportRejected,
                                     ScheduleAccepted, NetOK, netVars, seenVars
  <2>3. CASE AckHandled(p) \/ AckDuplicate(p)
    <3>1. batch[p] # <<>> /\ AckEnvelope(p) /\ UNCHANGED seenVars
      BY <2>3, <2>b DEF AckHandled, AckDuplicate
    <3>2. mailbox' \in Seq(Message) /\ consumed' \in SUBSET Requests /\ faults' \in Nat
      BY <2>0, <3>1, RemoveType, AttemptType DEF AckEnvelope, NetOK
    <3> QED  BY <2>a, <3>1, <3>2 DEF NetOK, seenVars
  <2>4. CASE ReplayResult(p)
    <3> DEFINE task == tasks[index[Envelope(p).req]]
    <3>1. Envelope(p).req \in Requests /\ index[Envelope(p).req] # None
      BY <2>4, <2>0, <2>b DEF ReplayResult, Known
    <3>2. task \in Task
      BY <3>1 DEF CoreOK, MemoryOK, StoreOK
    <3>3. task.req \in Requests /\ task.result \in Results
      BY <3>2 DEF Task
    <3>4. \E o : SendResult(task.req, task.result, TRUE, "replaySend", o)
      BY <2>4 DEF ReplayResult
    <3> HIDE DEF task
    <3>5. sent' \in SUBSET (Requests \X Results) /\ faults' \in Nat
      BY <3>3, <3>4, SendType
    <3> QED  BY <2>4, <2>a, <3>5 DEF ReplayResult, NetOK, netVars
  <2>5. CASE RejectTask(p)
    <3>1. Envelope(p).req \in Requests /\ "rejected" \in Results
      BY <2>5, <2>0, <2>b DEF RejectTask, Results
    <3>2. sent' \in SUBSET (Requests \X Results) /\ faults' \in Nat
      BY <2>5, <3>1, SendType DEF RejectTask
    <3> QED  BY <2>5, <2>a, <3>2 DEF RejectTask, NetOK, netVars
  <2>6. CASE AckPlatform(p)
    <3>1. Envelope(p).req \in Requests
      BY <2>6, <2>0, <2>b DEF AckPlatform
    <3>2. /\ reported' \in [Requests -> SUBSET {"ACKED", "COMPLETED", "FAILED"}]
          /\ faults' \in Nat
      BY <2>6, <3>1, ReportType DEF AckPlatform, NetOK
    <3> QED  BY <2>6, <2>a, <3>2 DEF AckPlatform, NetOK, netVars
  <2> QED  BY <1>3, <2>1, <2>2, <2>3, <2>4, <2>5, <2>6 DEF PullStep
<1>4. ASSUME NEW t \in TaskIds, WorkStep(t) PROVE NetOK'
  <2>0. wpc[t] # "none" => tasks[t].req \in Requests
    BY WorkerTask DEF Task
  <2>1. CASE BeginExecution(t)
    BY <2>0, <2>1 DEF BeginExecution, NetOK, netVars, lifeVars
  <2>2. ASSUME NEW res \in {"ok", "error", "runtime_error"}, wpc[t] # "none", FinalizeTask(t, res)
        PROVE  NetOK'
    <3>1. sent' \in SUBSET (Requests \X Results) /\ faults' \in Nat
      BY <2>0, <2>2, SendType DEF FinalizeTask, Results
    <3> QED  BY <2>2, <3>1 DEF FinalizeTask, NetOK, netVars, lifeVars
  <2>3. CASE ExecutorReturns(t) \/ ExecutorThrows(t) \/ FailTask(t)
    BY <2>2, <2>3 DEF ExecutorReturns, ExecutorThrows, FailTask
  <2>4. CASE PostLifecycleEvent(t)
    <3>1. /\ reported' \in [Requests -> SUBSET {"ACKED", "COMPLETED", "FAILED"}]
          /\ faults' \in Nat
      BY <2>0, <2>4, ReportType DEF PostLifecycleEvent
    <3> QED  BY <2>4, <3>1 DEF PostLifecycleEvent, NetOK, netVars, lifeVars
  <2>5. CASE ReportResult(t)
    <3>1. faults' \in Nat
      BY <2>5, AttemptType DEF ReportResult, NetOK
    <3> QED  BY <2>5, <3>1 DEF ReportResult, NetOK, netVars, seenVars, lifeVars
  <2>6. CASE ExecutorDefers(t) \/ SaveOutcome(t) \/ ReleaseWorker(t) \/ Reschedule(t)
    BY <2>6 DEF ExecutorDefers, SaveOutcome, ReleaseWorker, Reschedule, NetOK, netVars, seenVars, lifeVars
  <2>7. CASE UnhandledRejection(t)
    BY <2>7 DEF UnhandledRejection, Boot, NetOK, netVars, seenVars
  <2> QED  BY <1>4, <2>1, <2>3, <2>4, <2>5, <2>6, <2>7 DEF WorkStep
<1>5. ASSUME SchedulePosted PROVE NetOK'
  BY <1>5 DEF SchedulePosted, NetOK, netVars, seenVars, lifeVars
<1>6. ASSUME Heartbeat PROVE NetOK'
  BY <1>6 DEF Heartbeat, NetOK, netVars, seenVars, lifeVars
<1>7. ASSUME Crash PROVE NetOK'
  BY <1>7 DEF Crash, Boot, NetOK, netVars, seenVars
<1> QED  BY <1>1, <1>2, <1>3, <1>4, <1>5, <1>6, <1>7 DEF Next

-----------------------------------------------------------------------------
(* The invariant and what follows from it                                  *)

\* The invariant holds at first.
LEMMA InitInv == Init => IInv
<1> SUFFICES ASSUME Init PROVE IInv
  OBVIOUS
<1> USE DEF Init, EmptyStore
<1>1. MemoryOK /\ DiskOK
  <2>1. StoreOK(tasks, index, queue)
    BY TaskFacts, SellerAssumption DEF StoreOK, QueueMatches, NoDuplicates, None
  <2> QED  BY <2>1 DEF MemoryOK, DiskOK
<1>2. WorkersOK
  BY FS_EmptySet, SellerAssumption DEF WorkersOK, WorkLabels, Holding
<1>3. PullsOK
  BY SellerAssumption DEF PullsOK, PullLabels, None
<1>4. IdsFresh
  BY SellerAssumption DEF IdsFresh
<1>5. NetOK
  BY DEF NetOK
<1> QED  BY <1>1, <1>2, <1>3, <1>4, <1>5 DEF IInv

\* Every step keeps it.
LEMMA StepInv == IInv /\ [Next]_vars => IInv'
<1> SUFFICES ASSUME IInv, [Next]_vars PROVE IInv'
  OBVIOUS
<1>1. CASE Next
  BY <1>1, CoreStep, NetStep DEF IInv, CoreOK, NetOK
<1>2. CASE UNCHANGED vars
  <2>1. CoreOK /\ NetOK
    BY DEF IInv, CoreOK
  <2>2. CoreOK'
    BY <1>2, <2>1, QuietStep DEF vars, CoreOK
  <2>3. NetOK'
    BY <1>2, <2>1 DEF vars, NetOK, netVars, seenVars, lifeVars
  <2> QED  BY <2>2, <2>3 DEF IInv, CoreOK
<1> QED  BY <1>1, <1>2

\* The store, the workers, the pulls and the disk fit together in every reachable state.
THEOREM Invariant == Spec => []IInv
  BY InitInv, StepInv, PTL DEF Spec

\* Every variable of the seller controller stays in its range: createTaskRecord,
\* buildResultPayload and the queue handle nothing but tasks, and a restart loads a store
\* of the same kind.
THEOREM TypeCorrect == Spec => []TypeOK
<1>1. IInv => TypeOK
  <2> SUFFICES ASSUME IInv PROVE TypeOK
    OBVIOUS
  <2>1. disk \in [tasks : [TaskIds -> MaybeTask], index : [Requests -> 0..MaxTasks],
                  queue : Seq(TaskIds)]
    BY DEF IInv, DiskOK, StoreOK
  <2> QED  BY <2>1 DEF IInv, MemoryOK, StoreOK, WorkersOK, PullsOK, IdsFresh, NetOK, TypeOK
<1> QED  BY <1>1, Invariant, PTL

\* The queue holds the queued tasks, in memory and in every snapshot, and a worker slot is
\* held exactly while runQueuedTask runs: scheduleProcessQueue never starts a task twice
\* and never more tasks than there are workers.
THEOREM SchedulerCorrect == Spec => []SchedulerConsistent
<1>1. IInv => SchedulerConsistent
  <2> SUFFICES ASSUME IInv PROVE SchedulerConsistent
    OBVIOUS
  <2>1. ASSUME NEW ts, NEW ix, NEW q, StoreOK(ts, ix, q)
        PROVE  /\ NoDuplicates(q)
               /\ \A t \in TaskIds : ts[t].status = "QUEUED" <=> t \in InQueue(q)
    BY <2>1 DEF StoreOK, QueueMatches, InQueue
  <2>2. active = {t \in TaskIds : wpc[t] \notin {"none", "reschedule"}}
    BY DEF IInv, WorkersOK, WorkLabels, Holding
  <2> QED  BY <2>1, <2>2 DEF IInv, MemoryOK, DiskOK, WorkersOK, SchedulerConsistent
<1> QED  BY <1>1, Invariant, PTL

\* What scheduleProcessQueue leaves in the queue.
LEMMA RestSeq ==
  ASSUME queue \in Seq(TaskIds), NEW busy \in SUBSET TaskIds, Cardinality(busy) <= Workers
  PROVE  /\ IsFiniteSet(busy) /\ Cardinality(busy) \in Nat
         /\ Len(queue) \in Nat /\ DOMAIN queue = 1..Len(queue)
         /\ NumToStart(busy) \in 0..Len(queue)
         /\ NumToStart(busy) = Len(queue) \/ NumToStart(busy) = Workers - Cardinality(busy)
         /\ NumToStart(busy) <= Workers - Cardinality(busy)
         /\ Remaining(busy) \in Seq(TaskIds)
         /\ DOMAIN Remaining(busy) = 1..Len(queue) - NumToStart(busy)
         /\ \A i \in 1..Len(queue) - NumToStart(busy) :
              Remaining(busy)[i] = queue[NumToStart(busy) + i]
<1> DEFINE n == NumToStart(busy)
           rest == Remaining(busy)
<1>1. IsFiniteSet(busy) /\ Cardinality(busy) \in Nat
  <2>1. IsFiniteSet(TaskIds)
    BY FS_Interval, SellerAssumption DEF TaskIds
  <2> QED  BY <2>1, FS_Subset, FS_CardinalityType
<1>2. Len(queue) \in Nat /\ DOMAIN queue = 1..Len(queue)
  OBVIOUS
<1>3. n \in Nat /\ n <= Len(queue) /\ n <= Workers - Cardinality(busy)
  BY <1>1, <1>2, SellerAssumption DEF NumToStart, FreeSlots, Least
<1>8. n = Len(queue) \/ n = Workers - Cardinality(busy)
  BY <1>1, <1>2, SellerAssumption DEF NumToStart, FreeSlots, Least
<1>4. \A i \in 1..Len(queue) : queue[i] \in TaskIds
  BY <1>2
<1>5. rest = SubSeq(queue, n + 1, Len(queue))
  BY DEF Remaining
<1> HIDE DEF n, rest
<1>6. /\ rest \in Seq(TaskIds) /\ Len(rest) = Len(queue) - n
      /\ \A i \in 1..Len(queue) - n : rest[i] = queue[n + i]
  <2>1. n + 1 \in Int /\ Len(queue) \in Int
    BY <1>2, <1>3
  <2>2. \A i \in n + 1..Len(queue) : queue[i] \in TaskIds
    BY <1>2, <1>3, <1>4
  <2>3. /\ rest \in Seq(TaskIds)
        /\ Len(rest) = IF n + 1 <= Len(queue) THEN Len(queue) - (n + 1) + 1 ELSE 0
        /\ \A i \in 1..Len(queue) - (n + 1) + 1 : rest[i] = queue[(n + 1) + i - 1]
    BY ONLY <1>5, <2>1, <2>2, SubSeqProperties
  <2>4. Len(rest) = Len(queue) - n /\ Len(queue) - (n + 1) + 1 = Len(queue) - n
    <3>1. Len(queue) - (n + 1) + 1 = Len(queue) - n
      BY <1>2, <1>3
    <3>2. CASE n + 1 <= Len(queue)
      BY <2>3, <3>1, <3>2
    <3>3. CASE ~(n + 1 <= Len(queue))
      <4>1. \A x, y \in Nat : x <= y /\ ~(x + 1 <= y) => y - x = 0
        OBVIOUS
      <4>2. Len(queue) - n = 0
        BY <1>2, <1>3, <3>3, <4>1
      <4> QED  BY <2>3, <3>1, <3>3, <4>2
    <3> QED  BY <3>2, <3>3
  <2>5. ASSUME NEW i \in 1..Len(queue) - n PROVE rest[i] = queue[n + i]
    <3>1. (n + 1) + i - 1 = n + i
      BY <1>3
    <3>2. rest[i] = queue[(n + 1) + i - 1]
      BY <2>3, <2>4
    <3> QED  BY <3>1, <3>2
  <2> QED  BY <2>3, <2>4, <2>5
<1>7. DOMAIN rest = 1..Len(queue) - n
  BY <1>6
<1> QED  BY <1>1, <1>2, <1>3, <1>6, <1>7, <1>8 DEF n, rest

\* scheduleProcessQueue leaves no task behind while a worker is free.
LEMMA Drained ==
  ASSUME MemoryOK, NEW busy \in SUBSET TaskIds, Cardinality(busy) <= Workers,
         \A t \in busy : tasks[t].status # "QUEUED"
  PROVE  Remaining(busy) = <<>> \/ Cardinality(busy \cup ToStart(busy)) = Workers
<1> DEFINE n == NumToStart(busy)
           S == ToStart(busy)
           rest == Remaining(busy)
<1>1. /\ IsFiniteSet(busy) /\ Cardinality(busy) \in Nat
      /\ Len(queue) \in Nat /\ DOMAIN queue = 1..Len(queue)
      /\ n \in 0..Len(queue)
      /\ rest \in Seq(TaskIds) /\ DOMAIN rest = 1..Len(queue) - n
  BY RestSeq DEF MemoryOK, StoreOK
<1>5. n = Len(queue) \/ n = Workers - Cardinality(busy)
  BY RestSeq DEF MemoryOK, StoreOK
<1>2. S = {queue[i] : i \in 1..n}
  BY DEF ToStart
<1> HIDE DEF n, S, rest
<1>3. CASE n = Len(queue)
  <2>1. Len(queue) - n = 0
    BY <1>1, <1>3
  <2>2. Len(rest) = 0
    BY <1>1, <2>1
  <2> QED  BY <1>1, <2>2, EmptySeq DEF rest
<1>4. CASE n = Workers - Cardinality(busy)
  <2>0. n \in Nat
    BY <1>1
  <2>1. IsFiniteSet(1..n) /\ Cardinality(1..n) = n
    BY <2>0, FS_Interval
  <2>2. IsFiniteSet(S) /\ Cardinality(S) = n
    <3> DEFINE f == [i \in 1..n |-> queue[i]]
    <3>1. f \in Surjection(1..n, S)
      BY <1>2 DEF Surjection
    <3>2. ASSUME NEW i \in 1..n, NEW j \in 1..n, queue[i] = queue[j] PROVE i = j
      <4>1. i \in DOMAIN queue /\ j \in DOMAIN queue
        BY <1>1
      <4> QED  BY <3>2, <4>1 DEF MemoryOK, StoreOK, QueueMatches, NoDuplicates
    <3>3. f \in Bijection(1..n, S)
      BY <3>1, <3>2 DEF Bijection, Injection, Surjection, IsInjective
    <3> HIDE DEF f
    <3>4. ExistsBijection(1..n, S)
      BY <3>3 DEF ExistsBijection
    <3> QED  BY <2>1, <3>4, FS_Bijection
  <2>3. busy \cap S = {}
    <3>1. ASSUME NEW i \in 1..n PROVE tasks[queue[i]].status = "QUEUED"
      <4>1. i \in DOMAIN queue
        BY <1>1
      <4> QED  BY <4>1 DEF MemoryOK, StoreOK, QueueMatches
    <3> QED  BY <1>2, <3>1
  <2>4. Cardinality(busy \cup S) = Cardinality(busy) + Cardinality(S)
    <3>1. /\ Cardinality(busy \cup S)
             = Cardinality(busy) + Cardinality(S) - Cardinality(busy \cap S)
          /\ Cardinality(busy \cap S) = 0
      BY <1>1, <2>2, <2>3, FS_Union, FS_EmptySet
    <3> QED  BY <1>1, <2>1, <2>2, <3>1
  <2> QED  BY <1>1, <1>4, <2>2, <2>4, SellerAssumption DEF S
<1> QED  BY <1>3, <1>4, <1>5

-----------------------------------------------------------------------------
(* What a step may do to the store                                         *)

\* Index, tasks and queue stay; the snapshot may be saved.
Kept == UNCHANGED storeVars /\ (UNCHANGED disk \/ Save)

\* A new task is recorded, indexed, queued and saved.
Enqueued(t, r, routed) == tasks[t] = NoTask /\ EnqueueTask(t, NewTask(r, routed))

\* The task recorded for a token that introspection refuses.
Rejected(r) == Completed(NewTask(r, TRUE), "rejected")

\* A refused task is recorded and indexed, and not saved.
Refused(t, r) ==
  tasks[t] = NoTask /\ Remember(t, Rejected(r)) /\ UNCHANGED <<queue, disk>>

\* Workers that may stand while scheduleProcessQueue runs.
MayRun(busy) ==
  /\ busy \in SUBSET TaskIds /\ Cardinality(busy) <= Workers
  /\ \A t \in busy : tasks[t].status # "QUEUED"

\* The outcomes of an execution.
Ended == {"ok", "error", "runtime_error"}

\* A worker changes its task: it completes it with an outcome, once it has executed it, or
\* leaves its status and result alone.
Worked(t, task) ==
  /\ wpc[t] \notin {"none", "delay"} /\ task \in Task
  /\ task.req = tasks[t].req /\ task.routed = tasks[t].routed
  /\ task.status = tasks[t].status \/ task.status = "COMPLETED"
  /\ task.result = tasks[t].result \/ (task.result \in Ended /\ task.status = "COMPLETED")
  /\ tasks' = [tasks EXCEPT ![t] = task]
  /\ UNCHANGED <<index, queue>>
  /\ UNCHANGED disk \/ Save

\* The snapshot that saving these would write.
Snapshot(ts, ix, q) == [tasks |-> ts, index |-> ix, queue |-> q]

\* The process starts again: from the snapshot on disk, or from one it wrote in between.
Reloaded(snapshot) ==
  /\ disk' = snapshot /\ Boot(snapshot)
  /\ \/ snapshot = disk
     \/ \E busy \in SUBSET TaskIds :
          MayRun(busy) /\ snapshot = Snapshot(Started(busy), index, Remaining(busy))

\* A pull has asked for r's token to be introspected.
Introspecting(r) == \E p \in Pullers : ppc[p] = "introspect" /\ Envelope(p).req = r

\* Where a new task comes from: a pull that introspected its token, or a POST.
Comes(r, routed) ==
  \/ routed /\ Introspecting(r)
  \/ r \in PostReqs /\ ~Known(r)

\* Everything a step can do to the store: what the invariants of the store are proved against.
StoreStep ==
  \/ Kept
  \/ \E t \in TaskIds, r \in Requests, routed \in BOOLEAN :
       Comes(r, routed) /\ Enqueued(t, r, routed)
  \/ \E t \in TaskIds, r \in Requests : Introspecting(r) /\ Refused(t, r)
  \/ \E busy \in SUBSET TaskIds : MayRun(busy) /\ \E stage : Schedule(busy, stage)
  \/ \E t \in TaskIds : \E task : Worked(t, task)
  \/ \E snapshot : Reloaded(snapshot)

\* The envelope a pull handles names a request.
LEMMA EnvelopeType ==
  ASSUME IInv, NEW p \in Pullers, batch[p] # <<>>
  PROVE  Envelope(p).req \in Requests
<1>1. Envelope(p) \in Message
  BY HeadTailProperties DEF IInv, PullsOK, Envelope
<1> QED  BY <1>1 DEF Message

\* The scheduler may run beside the active workers, with or without one that ends.
LEMMA ActiveMayRun ==
  ASSUME IInv
  PROVE  MayRun(active) /\ \A t \in TaskIds : MayRun(active \ {t})
<1>1. IsFiniteSet(TaskIds)
  BY FS_Interval, SellerAssumption DEF TaskIds
<1>2. active \in SUBSET TaskIds /\ IsFiniteSet(active) /\ Cardinality(active) <= Workers
  BY <1>1, FS_Subset DEF IInv, WorkersOK
<1>3. \A t \in active : tasks[t].status # "QUEUED"
  BY DEF IInv, WorkersOK, Holding
<1>4. ASSUME NEW t \in TaskIds PROVE Cardinality(active \ {t}) <= Workers
  <2>1. IsFiniteSet(active \ {t}) /\ Cardinality(active \ {t}) <= Cardinality(active)
    BY <1>2, FS_Subset
  <2> QED  BY <1>2, <2>1, FS_CardinalityType, SellerAssumption
<1> QED  BY <1>2, <1>3, <1>4 DEF MayRun

\* finalizeTask is a change of its own task by a worker.
LEMMA FinalizeWorks ==
  ASSUME IInv, NEW t \in TaskIds, wpc[t] \notin {"none", "delay"}, NEW res \in Ended,
         FinalizeTask(t, res)
  PROVE  StoreStep
<1> DEFINE task == Completed(tasks[t], res)
<1>1. tasks[t] \in Task
  BY DEF IInv, WorkersOK
<1>2. /\ task \in Task /\ task.req = tasks[t].req /\ task.routed = tasks[t].routed
      /\ task.status = "COMPLETED" /\ task.result = res
  BY <1>1 DEF Completed, Task, Results, Ended
<1>3. tasks' = [tasks EXCEPT ![t] = task] /\ UNCHANGED <<index, queue>> /\ UNCHANGED disk
  BY DEF FinalizeTask
<1> HIDE DEF task
<1>4. Worked(t, task)
  BY <1>2, <1>3 DEF Worked
<1> QED  BY <1>4 DEF StoreStep

\* Every step of the runtime changes the store in one of these ways.
LEMMA NextStore ==
  ASSUME IInv, Next
  PROVE  StoreStep
<1>a. MayRun(active) /\ \A t \in TaskIds : MayRun(active \ {t})
  BY ActiveMayRun
<1>b. active \in SUBSET TaskIds
  BY <1>a DEF MayRun
<1>c. ASSUME Schedule(active, wpc) PROVE StoreStep
  BY <1>a, <1>b, <1>c DEF StoreStep
<1>1. ASSUME NEW r \in Requests, SendRequest(r) PROVE StoreStep
  BY <1>1 DEF SendRequest, StoreStep, Kept
<1>2. ASSUME NEW r \in Requests, PostTask(r) PROVE StoreStep
  <2>0. PICK routed \in BOOLEAN : EnqueueTask(created + 1, NewTask(r, routed))
    BY <1>2 DEF PostTask
  <2>1. /\ created < MaxTasks /\ Comes(r, routed)
    BY <1>2 DEF PostTask, Comes
  <2>2. created + 1 \in TaskIds /\ created + 1 > created
    BY <2>1, SellerAssumption DEF IInv, IdsFresh, TaskIds
  <2>3. tasks[created + 1] = NoTask
    BY <2>2 DEF IInv, IdsFresh
  <2>4. Enqueued(created + 1, r, routed)
    BY <2>0, <2>3 DEF Enqueued
  <2> QED  BY <2>1, <2>2, <2>4 DEF StoreStep
<1>3. ASSUME NEW p \in Pullers, PullStep(p) PROVE StoreStep
  <2>1. CASE AcceptTask(p)
    <3>1. ppc[p] = "introspect" /\ EnqueueTask(cand[p], NewTask(Envelope(p).req, TRUE))
      BY <2>1 DEF AcceptTask
    <3>2. cand[p] \in TaskIds /\ tasks[cand[p]] = NoTask /\ batch[p] # <<>>
      BY <3>1, CandFacts DEF IInv, CoreOK
    <3>3. Envelope(p).req \in Requests
      BY <3>2, EnvelopeType
    <3>4. Enqueued(cand[p], Envelope(p).req, TRUE) /\ Comes(Envelope(p).req, TRUE)
      BY <3>1, <3>2 DEF Enqueued, Comes, Introspecting
    <3> QED  BY <3>2, <3>3, <3>4 DEF StoreStep
  <2>2. CASE RejectTask(p)
    <3>1. /\ ppc[p] = "introspect" /\ Remember(cand[p], Rejected(Envelope(p).req))
          /\ UNCHANGED <<queue, disk>>
      BY <2>2 DEF RejectTask, Rejected
    <3>2. cand[p] \in TaskIds /\ tasks[cand[p]] = NoTask /\ batch[p] # <<>>
      BY <3>1, CandFacts DEF IInv, CoreOK
    <3>3. Envelope(p).req \in Requests
      BY <3>2, EnvelopeType
    <3>4. Refused(cand[p], Envelope(p).req) /\ Introspecting(Envelope(p).req)
      BY <3>1, <3>2 DEF Refused, Introspecting
    <3> QED  BY <3>2, <3>3, <3>4 DEF StoreStep
  <2>3. CASE ScheduleAccepted(p)
    BY <2>3, <1>c DEF ScheduleAccepted
  <2>4. CASE \/ PollInbox(p) \/ SkipEnvelope(p) \/ ReceiveEnvelope(p) \/ AckDuplicate(p)
             \/ ReplayResult(p) \/ CreateTask(p) \/ IntrospectionFails(p) \/ ReportRejected(p)
             \/ AckPlatform(p) \/ SaveHandled(p) \/ AckHandled(p)
    <3>1. Kept
      BY <2>4 DEF PollInbox, SkipEnvelope, ReceiveEnvelope, AckDuplicate, ReplayResult, CreateTask,
                  IntrospectionFails, ReportRejected, AckPlatform, SaveHandled, AckHandled, Kept
    <3> QED  BY <3>1 DEF StoreStep
  <2> QED  BY <1>3, <2>1, <2>2, <2>3, <2>4 DEF PullStep
<1>4. ASSUME NEW t \in TaskIds, WorkStep(t) PROVE StoreStep
  <2>1. CASE ExecutorReturns(t) \/ ExecutorThrows(t) \/ FailTask(t)
    <3>1. wpc[t] \notin {"none", "delay"}
      BY <2>1 DEF ExecutorReturns, ExecutorThrows, FailTask
    <3>2. \E res \in Ended : FinalizeTask(t, res)
      BY <2>1 DEF ExecutorReturns, ExecutorThrows, FailTask, Ended
    <3> QED  BY <3>1, <3>2, FinalizeWorks
  <2>2. CASE ExecutorDefers(t)
    <3> DEFINE task == [tasks[t] EXCEPT !.deferred = TRUE]
    <3>1. wpc[t] \notin {"none", "delay"} /\ tasks[t] \in Task
      BY <2>2 DEF ExecutorDefers, IInv, WorkersOK
    <3>2. /\ task \in Task /\ task.req = tasks[t].req /\ task.routed = tasks[t].routed
          /\ task.status = tasks[t].status /\ task.result = tasks[t].result
      BY <3>1 DEF Task
    <3>3. tasks' = [tasks EXCEPT ![t] = task] /\ UNCHANGED <<index, queue>> /\ Save
      BY <2>2 DEF ExecutorDefers
    <3> HIDE DEF task
    <3>4. Worked(t, task)
      BY <3>1, <3>2, <3>3 DEF Worked
    <3> QED  BY <3>4 DEF StoreStep
  <2>3. CASE Reschedule(t)
    BY <2>3, <1>a, <1>b DEF Reschedule, StoreStep
  <2>4. CASE UnhandledRejection(t)
    <3> DEFINE snapshot == Snapshot(Started(active \ {t}), index, Remaining(active \ {t}))
    <3>1. disk' = snapshot /\ Boot(disk')
      BY <2>4 DEF UnhandledRejection, Snapshot
    <3>2. active \ {t} \in SUBSET TaskIds
      BY <1>b
    <3>3. Reloaded(snapshot)
      BY <1>a, <3>1, <3>2 DEF Reloaded
    <3> QED  BY <3>3 DEF StoreStep
  <2>5. CASE \/ BeginExecution(t) \/ PostLifecycleEvent(t) \/ ReportResult(t) \/ SaveOutcome(t)
             \/ ReleaseWorker(t)
    <3>1. Kept
      BY <2>5 DEF BeginExecution, PostLifecycleEvent, ReportResult, SaveOutcome, ReleaseWorker, Kept
    <3> QED  BY <3>1 DEF StoreStep
  <2> QED  BY <1>4, <2>1, <2>2, <2>3, <2>4, <2>5 DEF WorkStep
<1>5. ASSUME SchedulePosted PROVE StoreStep
  BY <1>5, <1>c DEF SchedulePosted
<1>6. ASSUME Heartbeat PROVE StoreStep
  BY <1>6 DEF Heartbeat, StoreStep, Kept
<1>7. ASSUME Crash PROVE StoreStep
  <2>1. Reloaded(disk)
    BY <1>7 DEF Crash, Reloaded
  <2> QED  BY <2>1 DEF StoreStep
<1> QED  BY <1>1, <1>2, <1>3, <1>4, <1>5, <1>6, <1>7 DEF Next

-----------------------------------------------------------------------------
(* No idle worker beside a waiting task                                    *)

\* A step that neither queues nor releases, and takes back no call of scheduleProcessQueue.
LEMMA ConservingFrame ==
  ASSUME WorkConserving, UNCHANGED <<queue, active, boots>>,
         \A p \in Pullers : ppc[p] = "schedule" => ppc'[p] = "schedule",
         \A t \in TaskIds : wpc[t] = "reschedule" => wpc'[t] = "reschedule",
         posts > 0 => posts' > 0
  PROVE  WorkConserving'
  BY DEF WorkConserving, ScheduleComing

\* scheduleProcessQueue leaves an empty queue or no idle worker.
LEMMA ConservingSchedule ==
  ASSUME IInv, MayRun(active), NEW stage, Schedule(active, stage)
  PROVE  WorkConserving'
<1>1. Remaining(active) = <<>> \/ Cardinality(active \cup ToStart(active)) = Workers
  BY Drained DEF IInv, MayRun
<1> QED  BY <1>1 DEF Schedule, WorkConserving

\* A pull that queues a task goes on to schedule.
LEMMA ConservingPull ==
  ASSUME IInv, WorkConserving, NEW p \in Pullers, PullStep(p)
  PROVE  WorkConserving'
<1>1. CASE ScheduleAccepted(p)
  BY <1>1, ActiveMayRun, ConservingSchedule DEF ScheduleAccepted
<1>2. CASE AcceptTask(p)
  <2>1. ppc'[p] = "schedule"
    BY <1>2 DEF AcceptTask, Goto, IInv, PullsOK
  <2> QED  BY <2>1 DEF WorkConserving, ScheduleComing
<1>3. CASE ~ScheduleAccepted(p) /\ ~AcceptTask(p)
  <2>1. UNCHANGED <<queue, active, wpc, posts, boots>> /\ ppc[p] # "schedule"
    BY <1>3 DEF PullStep, PollInbox, SkipEnvelope, ReceiveEnvelope, AckDuplicate, ReplayResult,
                CreateTask, IntrospectionFails, RejectTask, ReportRejected, AckPlatform,
                SaveHandled, AckHandled, AckEnvelope, storeVars, workVars, lifeVars
  <2>2. ppc' = ppc \/ \E label : Goto(p, label)
    BY <1>3 DEF PullStep, PollInbox, SkipEnvelope, ReceiveEnvelope, AckDuplicate, ReplayResult,
                CreateTask, IntrospectionFails, RejectTask, ReportRejected, AckPlatform,
                SaveHandled, AckHandled, AckEnvelope, Proceed, Abort
  <2>3. \A q \in Pullers \ {p} : ppc'[q] = ppc[q]
    BY <2>2 DEF Goto, IInv, PullsOK
  <2>4. \A q \in Pullers : ppc[q] = "schedule" => ppc'[q] = "schedule"
    BY <2>1, <2>3
  <2> QED  BY <2>1, <2>4, ConservingFrame
<1> QED  BY <1>1, <1>2, <1>3

\* A worker that is released goes on to schedule.
LEMMA ConservingWork ==
  ASSUME IInv, WorkConserving, NEW t \in TaskIds, WorkStep(t)
  PROVE  WorkConserving'
<1>1. CASE Reschedule(t)
  BY <1>1, ActiveMayRun, ConservingSchedule DEF Reschedule
<1>2. CASE UnhandledRejection(t)
  <2>1. boots \in Nat /\ boots' = boots + 1
    BY <1>2 DEF UnhandledRejection, Boot, IInv, NetOK
  <2>2. boots' # 0
    BY <2>1
  <2> QED  BY <2>2 DEF WorkConserving
<1>3. CASE ReleaseWorker(t)
  <2>1. wpc'[t] = "reschedule"
    BY <1>3 DEF ReleaseWorker, Stage, IInv, WorkersOK
  <2> QED  BY <2>1 DEF WorkConserving, ScheduleComing
<1>4. CASE ~Reschedule(t) /\ ~UnhandledRejection(t) /\ ~ReleaseWorker(t)
  <2>1. UNCHANGED <<queue, active, ppc, posts, boots>> /\ wpc[t] # "reschedule"
    BY <1>4 DEF WorkStep, BeginExecution, ExecutorReturns, ExecutorThrows, ExecutorDefers, FailTask,
                FinalizeTask, PostLifecycleEvent, ReportResult, SaveOutcome, storeVars, pullVars,
                lifeVars
  <2>2. \E label : Stage(t, label)
    BY <1>4 DEF WorkStep, BeginExecution, ExecutorReturns, ExecutorThrows, ExecutorDefers, FailTask,
                FinalizeTask, PostLifecycleEvent, ReportResult, SaveOutcome
  <2>3. \A u \in TaskIds \ {t} : wpc'[u] = wpc[u]
    BY <2>2 DEF Stage, IInv, WorkersOK
  <2>4. \A u \in TaskIds : wpc[u] = "reschedule" => wpc'[u] = "reschedule"
    BY <2>1, <2>3
  <2> QED  BY <2>1, <2>4, ConservingFrame
<1> QED  BY <1>1, <1>2, <1>3, <1>4

\* Until the first restart a task waits only while every worker is busy or a handler that
\* calls scheduleProcessQueue is under way: neither an enqueue between two awaits nor a
\* worker released between two awaits is forgotten.
THEOREM NeverIdleBesideWork == Spec => []WorkConserving
<1>1. Init => WorkConserving
  BY DEF Init, WorkConserving
<1>2. IInv /\ WorkConserving /\ [Next]_vars => WorkConserving'
  <2> SUFFICES ASSUME IInv, WorkConserving, [Next]_vars PROVE WorkConserving'
    OBVIOUS
  <2>1. ASSUME NEW r \in Requests, SendRequest(r) PROVE WorkConserving'
    BY <2>1, ConservingFrame DEF SendRequest, storeVars, workVars, pullVars, lifeVars
  <2>2. ASSUME NEW r \in Requests, PostTask(r) PROVE WorkConserving'
    <3>1. posts \in Nat /\ posts' = posts + 1
      BY <2>2 DEF PostTask, IInv, NetOK
    <3>2. posts' > 0
      BY <3>1
    <3> QED  BY <3>2 DEF WorkConserving, ScheduleComing
  <2>3. ASSUME SchedulePosted PROVE WorkConserving'
    BY <2>3, ActiveMayRun, ConservingSchedule DEF SchedulePosted
  <2>4. ASSUME Heartbeat PROVE WorkConserving'
    BY <2>4, ConservingFrame DEF Heartbeat, storeVars, workVars, pullVars, lifeVars
  <2>5. ASSUME Crash PROVE WorkConserving'
    <3>1. boots \in Nat /\ boots' = boots + 1
      BY <2>5 DEF Crash, Boot, IInv, NetOK
    <3>2. boots' # 0
      BY <3>1
    <3> QED  BY <3>2 DEF WorkConserving
  <2>6. ASSUME UNCHANGED vars PROVE WorkConserving'
    BY <2>6, ConservingFrame DEF vars, storeVars, workVars, pullVars, lifeVars
  <2> QED  BY <2>1, <2>2, <2>3, <2>4, <2>5, <2>6, ConservingPull, ConservingWork DEF Next
<1> QED  BY <1>1, <1>2, Invariant, PTL DEF Spec

-----------------------------------------------------------------------------
(* The queue is sorted                                                     *)

\* Task t goes before task u, by the records of ts.
Earlier(ts, t, u) ==
  LET urgent(x) == ts[x].req \in Urgent
  IN  IF urgent(t) = urgent(u) THEN t < u ELSE urgent(t)

\* The queue q is in the order the scheduler sorts by.
Sorted(ts, q) == \A i, j \in DOMAIN q : i < j => Earlier(ts, q[i], q[j])

\* The queue is sorted in memory and on disk, and every change of it has been saved.
OrderOK ==
  /\ Sorted(tasks, queue) /\ Sorted(disk.tasks, disk.queue)
  /\ disk.queue = queue

\* Earlier is a total preorder on the tasks.
LEMMA EarlierOrder ==
  ASSUME NEW ts
  PROVE  /\ \A t, u \in TaskIds : t # u => Earlier(ts, t, u) \/ Earlier(ts, u, t)
         /\ \A t, u, v \in TaskIds :
              Earlier(ts, t, u) /\ Earlier(ts, u, v) => Earlier(ts, t, v)
<1>1. \A t \in TaskIds : t \in Int
  BY SellerAssumption DEF TaskIds
<1>2. ASSUME NEW t \in TaskIds, NEW u \in TaskIds, t # u
      PROVE  Earlier(ts, t, u) \/ Earlier(ts, u, t)
  <2>1. t < u \/ u < t
    BY <1>1, <1>2
  <2> QED  BY <2>1 DEF Earlier
<1>3. ASSUME NEW t \in TaskIds, NEW u \in TaskIds, NEW v \in TaskIds,
             Earlier(ts, t, u), Earlier(ts, u, v)
      PROVE  Earlier(ts, t, v)
  <2>1. t < u /\ u < v => t < v
    BY <1>1
  <2> QED  BY <1>3, <2>1 DEF Earlier
<1> QED  BY <1>2, <1>3

\* The order looks at nothing but the requests.
LEMMA EarlierFrame ==
  ASSUME NEW ts, NEW us, NEW t, NEW u, ts[t].req = us[t].req, ts[u].req = us[u].req
  PROVE  Earlier(ts, t, u) <=> Earlier(us, t, u)
  BY DEF Earlier

\* A set of positions that holds every position before one of its own.
LEMMA DownClosed ==
  ASSUME NEW n \in Nat, NEW S \in SUBSET (1..n), \A i \in S : \A j \in 1..i : j \in S
  PROVE  \A i \in 1..n : i \in S <=> i <= Cardinality(S)
<1>1. IsFiniteSet(S) /\ Cardinality(S) \in Nat
  <2>1. IsFiniteSet(1..n)
    BY FS_Interval
  <2> QED  BY <2>1, FS_Subset, FS_CardinalityType
<1>2. ASSUME NEW i \in S PROVE i <= Cardinality(S)
  <2>1. i \in 1..n /\ 1..i \subseteq S
    BY <1>2
  <2>2. IsFiniteSet(1..i) /\ Cardinality(1..i) = i
    BY <2>1, FS_Interval
  <2>3. Cardinality(1..i) <= Cardinality(S)
    BY <1>1, <2>1, FS_Subset
  <2> QED  BY <2>2, <2>3
<1>3. ASSUME NEW i \in 1..n, i \notin S PROVE ~(i <= Cardinality(S))
  <2>1. S \subseteq 1..(i - 1)
    <3> SUFFICES ASSUME NEW j \in S PROVE j \in 1..(i - 1)
      OBVIOUS
    <3>1. ~(i <= j)
      BY <1>3
    <3> QED  BY <3>1
  <2>2. i - 1 \in Nat /\ IsFiniteSet(1..(i - 1)) /\ Cardinality(1..(i - 1)) = i - 1
    BY FS_Interval
  <2>3. Cardinality(S) <= Cardinality(1..(i - 1))
    BY <2>1, <2>2, FS_Subset
  <2> QED  BY <1>1, <2>2, <2>3
<1> QED  BY <1>2, <1>3

\* enqueueTask's sort: the new task goes behind those before it and in front of the others.
LEMMA SortedEnqueue ==
  ASSUME MemoryOK, Sorted(tasks, queue), NEW t \in TaskIds, NEW task, tasks[t] = NoTask,
         Remember(t, task), InsertIntoQueue(t)
  PROVE  Sorted(tasks', queue')
<1> DEFINE k == Place(t)
           n == Len(queue)
           S == {i \in DOMAIN queue : Earlier(tasks', queue[i], t)}
<1>1. queue \in Seq(TaskIds) /\ n \in Nat /\ DOMAIN queue = 1..n /\ NoDuplicates(queue)
  BY DEF MemoryOK, StoreOK, QueueMatches
<1>2. k \in 1..n + 1 /\ k = 1 + Cardinality(S)
  <2>1. k \in 1..n + 1
    BY <1>1, PlaceRange
  <2>2. \A i \in DOMAIN queue : Before(queue[i], t) <=> Earlier(tasks', queue[i], t)
    BY DEF Before, Earlier
  <2>3. {i \in DOMAIN queue : Before(queue[i], t)} = S
    BY <2>2
  <2> QED  BY <2>1, <2>3 DEF Place
<1>3. \A i \in 1..n : queue[i] \in TaskIds /\ queue[i] # t
  <2>1. \A i \in 1..n : queue[i] \in TaskIds /\ tasks[queue[i]].status = "QUEUED"
    BY <1>1 DEF MemoryOK, StoreOK, QueueMatches
  <2> QED  BY <2>1, TaskFacts
<1>4. \A u \in TaskIds : u # t => tasks'[u] = tasks[u]
  BY DEF Remember, MemoryOK, StoreOK
<1>5. ASSUME NEW i \in 1..n, NEW j \in 1..n, i < j
      PROVE  Earlier(tasks', queue[i], queue[j])
  <2>1. Earlier(tasks, queue[i], queue[j])
    BY <1>1, <1>5 DEF Sorted
  <2>2. tasks'[queue[i]] = tasks[queue[i]] /\ tasks'[queue[j]] = tasks[queue[j]]
    BY <1>3, <1>4
  <2> QED  BY <2>1, <2>2, EarlierFrame
<1>6. \A i \in 1..n : i \in S <=> i <= Cardinality(S)
  <2>1. S \in SUBSET (1..n)
    BY <1>1
  <2>2. ASSUME NEW i \in S, NEW j \in 1..i PROVE j \in S
    <3>1. i \in 1..n /\ j \in 1..n /\ Earlier(tasks', queue[i], t)
      BY <1>1, <2>2
    <3>2. CASE j = i
      BY <3>2
    <3>3. CASE j # i
      <4>1. j < i
        BY <3>1, <3>3
      <4>2. Earlier(tasks', queue[j], queue[i])
        BY <1>5, <3>1, <4>1
      <4>3. Earlier(tasks', queue[j], t)
        BY <1>3, <3>1, <4>2, EarlierOrder
      <4> QED  BY <1>1, <3>1, <4>3
    <3> QED  BY <3>2, <3>3
  <2> HIDE DEF S
  <2> QED  BY <1>1, <2>1, <2>2, DownClosed
<1>7. queue' = Inserted(queue, k, t)
  BY DEF InsertIntoQueue, Inserted
<1>8. \A i \in 1..n : Earlier(tasks', queue[i], t) <=> i < k
  <2>1. Cardinality(S) \in Nat
    <3>1. IsFiniteSet(1..n) /\ S \subseteq 1..n
      BY <1>1, FS_Interval
    <3> QED  BY <3>1, FS_Subset, FS_CardinalityType
  <2>2. \A i \in 1..n : i \in S <=> Earlier(tasks', queue[i], t)
    BY <1>1
  <2> HIDE DEF S, k
  <2> QED  BY <1>2, <1>6, <2>1, <2>2
<1> HIDE DEF S, k, n
<1>9. /\ DOMAIN queue' = 1..n + 1
      /\ \A i \in 1..k - 1 : queue'[i] = queue[i]
      /\ queue'[k] = t
      /\ \A i \in k + 1..n + 1 : queue'[i] = queue[i - 1]
  <2> DEFINE v == Inserted(queue, k, t)
  <2>1. /\ v \in Seq(TaskIds) /\ Len(v) = Len(queue) + 1
        /\ \A i \in 1..k - 1 : v[i] = queue[i]
        /\ v[k] = t
        /\ \A i \in k + 1..Len(queue) + 1 : v[i] = queue[i - 1]
    <3>1. k \in 1..Len(queue) + 1
      BY <1>2 DEF n
    <3>2. queue \in Seq(TaskIds)
      BY <1>1
    <3> QED  BY ONLY <3>1, <3>2, t \in TaskIds, InsertSeq
  <2>2. DOMAIN v = 1..Len(v)
    BY <2>1
  <2> HIDE DEF v
  <2> QED  BY <1>7, <2>1, <2>2 DEF n, v
<1>10. ASSUME NEW i \in 1..n + 1, i < k PROVE i \in 1..n /\ queue'[i] = queue[i]
  BY <1>1, <1>2, <1>9, <1>10
<1>11. ASSUME NEW i \in 1..n + 1, k < i PROVE i - 1 \in 1..n /\ queue'[i] = queue[i - 1]
  BY <1>1, <1>2, <1>9, <1>11
<1> SUFFICES ASSUME NEW i \in 1..n + 1, NEW j \in 1..n + 1, i < j
             PROVE  Earlier(tasks', queue'[i], queue'[j])
  BY <1>9 DEF Sorted
<1>12. CASE j < k
  <2>1. i < k
    BY <1>2, <1>12
  <2> QED  BY <1>5, <1>10, <1>12, <2>1
<1>13. CASE j = k
  BY <1>8, <1>9, <1>10, <1>13
<1>14. CASE k < j /\ i < k
  <2>1. /\ i \in 1..n /\ queue'[i] = queue[i]
        /\ j - 1 \in 1..n /\ queue'[j] = queue[j - 1]
    BY <1>10, <1>11, <1>14
  <2>2. i < j - 1
    BY <1>2, <1>14
  <2> QED  BY <1>5, <2>1, <2>2
<1>15. CASE i = k
  <2>1. j - 1 \in 1..n /\ queue'[j] = queue[j - 1] /\ queue'[i] = t
    BY <1>9, <1>11, <1>15
  <2>2. ~(j - 1 < k)
    BY <1>2, <1>15
  <2>3. ~Earlier(tasks', queue[j - 1], t)
    BY <1>8, <2>1, <2>2
  <2> QED  BY <1>3, <2>1, <2>3, EarlierOrder
<1>16. CASE k < i
  <2>1. /\ i - 1 \in 1..n /\ queue'[i] = queue[i - 1]
        /\ j - 1 \in 1..n /\ queue'[j] = queue[j - 1]
    BY <1>2, <1>11, <1>16
  <2>2. i - 1 < j - 1
    OBVIOUS
  <2> QED  BY <1>5, <2>1, <2>2
<1>17. i < k \/ i = k \/ k < i
  BY <1>2
<1>18. j < k \/ j = k \/ k < j
  BY <1>2
<1> QED  BY <1>12, <1>13, <1>14, <1>15, <1>16, <1>17, <1>18

\* Starting a task changes its status only.
LEMMA StartedFields ==
  ASSUME MemoryOK, NEW busy \in SUBSET TaskIds, Cardinality(busy) <= Workers, NEW t \in TaskIds
  PROVE  /\ Started(busy)[t].req = tasks[t].req
         /\ Started(busy)[t].result = tasks[t].result
         /\ Started(busy)[t].routed = tasks[t].routed
         /\ \/ Started(busy)[t] = tasks[t]
            \/ tasks[t].status = "QUEUED" /\ Started(busy)[t].status = "RUNNING"
<1>1. CASE t \in ToStart(busy)
  <2>1. tasks[t] \in Task /\ tasks[t].status = "QUEUED"
    BY <1>1, StartStore
  <2>2. Started(busy)[t] = [tasks[t] EXCEPT !.status = "RUNNING"]
    BY <1>1 DEF Started
  <2> QED  BY <2>1, <2>2 DEF Task
<1>2. CASE t \notin ToStart(busy)
  BY <1>2, StartStore
<1> QED  BY <1>1, <1>2

\* The tasks started are those at the head, and the rest of the queue stays sorted.
LEMMA SortedStart ==
  ASSUME MemoryOK, Sorted(tasks, queue), NEW busy \in SUBSET TaskIds,
         Cardinality(busy) <= Workers
  PROVE  /\ Sorted(Started(busy), Remaining(busy))
         /\ \A t \in ToStart(busy), u \in InQueue(Remaining(busy)) :
              Earlier(Started(busy), t, u)
         /\ ToStart(busy) = {} => Remaining(busy) = queue
<1> DEFINE n == NumToStart(busy)
           rest == Remaining(busy)
           ts == Started(busy)
<1>1. /\ Len(queue) \in Nat /\ DOMAIN queue = 1..Len(queue)
      /\ n \in 0..Len(queue)
      /\ rest \in Seq(TaskIds) /\ DOMAIN rest = 1..Len(queue) - n
      /\ \A i \in 1..Len(queue) - n : rest[i] = queue[n + i]
  BY RestSeq DEF MemoryOK, StoreOK
<1>2. ToStart(busy) = {queue[i] : i \in 1..n}
  BY DEF ToStart
<1>3. \A t \in TaskIds : ts[t].req = tasks[t].req
  BY StartedFields
<1>4. \A i \in 1..Len(queue) : queue[i] \in TaskIds
  BY <1>1 DEF MemoryOK, StoreOK
<1> HIDE DEF n, rest, ts
<1>5. ASSUME NEW i \in 1..Len(queue), NEW j \in 1..Len(queue), i < j
      PROVE  Earlier(ts, queue[i], queue[j])
  <2>1. Earlier(tasks, queue[i], queue[j])
    BY <1>1, <1>5 DEF Sorted
  <2> QED  BY <1>3, <1>4, <2>1, EarlierFrame
<1>6. Sorted(ts, rest)
  <2> SUFFICES ASSUME NEW i \in DOMAIN rest, NEW j \in DOMAIN rest, i < j
               PROVE  Earlier(ts, rest[i], rest[j])
    BY DEF Sorted
  <2>1. /\ rest[i] = queue[n + i] /\ rest[j] = queue[n + j]
        /\ n + i \in 1..Len(queue) /\ n + j \in 1..Len(queue) /\ n + i < n + j
    BY <1>1
  <2> QED  BY <1>5, <2>1
<1>7. ASSUME NEW t \in ToStart(busy), NEW u \in InQueue(rest) PROVE Earlier(ts, t, u)
  <2>1. PICK i \in 1..n : t = queue[i]
    BY <1>2
  <2>2. PICK j \in DOMAIN rest : u = rest[j]
    BY DEF InQueue
  <2>3. /\ u = queue[n + j] /\ i \in 1..Len(queue) /\ n + j \in 1..Len(queue) /\ i < n + j
    BY <1>1, <2>1, <2>2
  <2> QED  BY <1>5, <2>1, <2>3
<1>8. ASSUME ToStart(busy) = {} PROVE rest = queue
  <2>1. n = 0
    <3>1. 1 \notin 1..n
      BY <1>2, <1>8
    <3> QED  BY <1>1, <3>1
  <2>2. DOMAIN rest = DOMAIN queue /\ \A i \in DOMAIN queue : rest[i] = queue[i]
    BY <1>1, <2>1
  <2>3. queue \in Seq(TaskIds)
    BY DEF MemoryOK, StoreOK
  <2> QED  BY <1>1, <2>2, <2>3, SeqEqual
<1> QED  BY <1>6, <1>7, <1>8 DEF rest, ts

\* The queue stays sorted, and equal to the one on disk.
LEMMA OrderStep ==
  ASSUME IInv, OrderOK, StoreStep
  PROVE  OrderOK'
<1> USE DEF OrderOK
<1>0. MemoryOK /\ DiskOK
  BY DEF IInv
<1>1. CASE Kept
  BY <1>1 DEF Kept, Save, storeVars
<1>2. ASSUME NEW t \in TaskIds, NEW r \in Requests, NEW routed, Enqueued(t, r, routed)
      PROVE  OrderOK'
  <2>1. /\ tasks[t] = NoTask /\ Remember(t, NewTask(r, routed)) /\ InsertIntoQueue(t) /\ Save
    BY <1>2 DEF Enqueued, EnqueueTask, SaveEnqueued
  <2>2. Sorted(tasks', queue')
    BY <1>0, <2>1, SortedEnqueue
  <2> QED  BY <2>1, <2>2 DEF Save
<1>3. ASSUME NEW t \in TaskIds, NEW r \in Requests, Refused(t, r) PROVE OrderOK'
  <2>1. /\ tasks[t] = NoTask /\ queue' = queue /\ disk' = disk
        /\ \A u \in TaskIds : u # t => tasks'[u] = tasks[u]
    BY <1>0, <1>3 DEF Refused, Remember, MemoryOK, StoreOK
  <2>2. \A i \in DOMAIN queue : queue[i] \in TaskIds /\ queue[i] # t
    BY <1>0, <2>1, TaskFacts DEF MemoryOK, StoreOK, QueueMatches
  <2>3. \A i \in DOMAIN queue : tasks'[queue[i]] = tasks[queue[i]]
    BY <2>1, <2>2
  <2>4. Sorted(tasks', queue')
    BY <2>1, <2>3, EarlierFrame DEF Sorted
  <2> QED  BY <2>1, <2>4
<1>4. ASSUME NEW busy \in SUBSET TaskIds, MayRun(busy), NEW stage, Schedule(busy, stage)
      PROVE  OrderOK'
  <2>1. Sorted(tasks', queue') /\ (ToStart(busy) = {} => queue' = queue)
    BY <1>0, <1>4, SortedStart DEF MayRun, Schedule
  <2>2. CASE ToStart(busy) = {}
    BY <1>4, <2>1, <2>2 DEF Schedule, SaveStarted
  <2>3. CASE ToStart(busy) # {}
    BY <1>4, <2>1, <2>3 DEF Schedule, SaveStarted, Save
  <2> QED  BY <2>2, <2>3
<1>5. ASSUME NEW t \in TaskIds, NEW task, Worked(t, task) PROVE OrderOK'
  <2>1. /\ tasks' = [tasks EXCEPT ![t] = task] /\ task.req = tasks[t].req
        /\ queue' = queue /\ (disk' = disk \/ Save)
    BY <1>5 DEF Worked
  <2>2. \A u \in TaskIds : tasks'[u].req = tasks[u].req
    BY <1>0, <2>1 DEF MemoryOK, StoreOK
  <2>3. \A i \in DOMAIN queue : queue[i] \in TaskIds
    BY <1>0 DEF MemoryOK, StoreOK
  <2>4. ASSUME NEW i \in DOMAIN queue, NEW j \in DOMAIN queue, i < j
        PROVE  Earlier(tasks', queue[i], queue[j])
    <3>1. Earlier(tasks, queue[i], queue[j])
      BY <2>4 DEF Sorted
    <3>2. tasks'[queue[i]].req = tasks[queue[i]].req /\ tasks'[queue[j]].req = tasks[queue[j]].req
      BY <2>2, <2>3
    <3> QED  BY <3>1, <3>2, EarlierFrame
  <2>5. Sorted(tasks', queue')
    BY <2>1, <2>4 DEF Sorted
  <2>6. CASE disk' = disk
    BY <2>1, <2>5, <2>6
  <2>7. CASE Save
    BY <2>5, <2>7 DEF Save
  <2> QED  BY <2>1, <2>6, <2>7
<1>6. ASSUME NEW snapshot, Reloaded(snapshot) PROVE OrderOK'
  <2>1. disk' = snapshot /\ tasks' = snapshot.tasks /\ queue' = snapshot.queue
    BY <1>6 DEF Reloaded, Boot
  <2>2. CASE snapshot = disk
    BY <2>1, <2>2
  <2>3. ASSUME NEW busy \in SUBSET TaskIds, MayRun(busy),
               snapshot = Snapshot(Started(busy), index, Remaining(busy))
        PROVE  Sorted(snapshot.tasks, snapshot.queue)
    <3>1. Sorted(Started(busy), Remaining(busy))
      BY <1>0, <2>3, SortedStart DEF MayRun
    <3> QED  BY <2>3, <3>1 DEF Snapshot
  <2> QED  BY <1>6, <2>1, <2>2, <2>3 DEF Reloaded
<1> QED  BY <1>1, <1>2, <1>3, <1>4, <1>5, <1>6 DEF StoreStep

\* The queue is sorted in every reachable state.
LEMMA Ordered == Spec => []OrderOK
<1>1. Init => OrderOK
  BY DEF Init, EmptyStore, OrderOK, Sorted
<1>2. IInv /\ OrderOK /\ [Next]_vars => OrderOK'
  <2> SUFFICES ASSUME IInv, OrderOK, [Next]_vars PROVE OrderOK'
    OBVIOUS
  <2>1. CASE Next
    BY <2>1, NextStore, OrderStep
  <2>2. CASE UNCHANGED vars
    BY <2>2 DEF vars, storeVars, OrderOK
  <2> QED  BY <2>1, <2>2
<1> QED  BY <1>1, <1>2, Invariant, PTL DEF Spec

\* Whatever step starts a queued task, no task left in the queue goes before it: a restart
\* included, because every change of the queue has been saved.
THEOREM FirstComeFirstServed == Spec => NoOvertaking
<1>1. IInv /\ OrderOK /\ [Next]_vars =>
        [\A t \in TaskIds : tasks[t].status = "QUEUED" /\ tasks'[t].status = "RUNNING"
           => \A u \in InQueue(queue') : Before(t, u)]_vars
  <2> SUFFICES ASSUME IInv, OrderOK, Next, NEW t \in TaskIds, tasks[t].status = "QUEUED",
                      tasks'[t].status = "RUNNING"
               PROVE  \A u \in InQueue(queue') : Earlier(tasks', t, u)
    BY DEF Before, Earlier
  <2>0. MemoryOK /\ DiskOK /\ OrderOK
    BY DEF IInv
  <2>1. CASE Kept
    BY <2>1 DEF Kept, storeVars
  <2>2. ASSUME NEW s \in TaskIds, NEW r \in Requests, NEW routed, Enqueued(s, r, routed)
        PROVE  FALSE
    <3>1. tasks' = [tasks EXCEPT ![s] = NewTask(r, routed)] /\ NewTask(r, routed).status = "QUEUED"
      BY <2>2 DEF Enqueued, EnqueueTask, Remember, NewTask
    <3> QED  BY <2>0, <3>1 DEF MemoryOK, StoreOK
  <2>3. ASSUME NEW s \in TaskIds, NEW r \in Requests, Refused(s, r) PROVE FALSE
    <3>1. tasks' = [tasks EXCEPT ![s] = Rejected(r)] /\ Rejected(r).status = "COMPLETED"
      BY <2>3 DEF Refused, Remember, Rejected, Completed, NewTask
    <3> QED  BY <2>0, <3>1 DEF MemoryOK, StoreOK
  <2>4. ASSUME NEW busy \in SUBSET TaskIds, MayRun(busy), tasks' = Started(busy),
               queue' = Remaining(busy)
        PROVE  \A u \in InQueue(queue') : Earlier(tasks', t, u)
    <3>1. t \in ToStart(busy)
      BY <2>0, <2>4, StartStore DEF MayRun
    <3>2. \A u \in InQueue(Remaining(busy)) : Earlier(Started(busy), t, u)
      BY <2>0, <2>4, <3>1, SortedStart DEF MayRun, OrderOK
    <3> QED  BY <2>4, <3>2
  <2>5. ASSUME NEW s \in TaskIds, NEW task, Worked(s, task) PROVE FALSE
    <3>1. tasks' = [tasks EXCEPT ![s] = task] /\ tasks[s].status # "QUEUED"
      BY <2>5 DEF Worked, IInv, WorkersOK
    <3> QED  BY <2>0, <3>1 DEF MemoryOK, StoreOK
  <2>6. ASSUME NEW snapshot, Reloaded(snapshot)
        PROVE  \A u \in InQueue(queue') : Earlier(tasks', t, u)
    <3>1. tasks' = snapshot.tasks /\ queue' = snapshot.queue
      BY <2>6 DEF Reloaded, Boot
    <3>2. CASE snapshot = disk
      <4>1. t \in InQueue(queue)
        BY <2>0 DEF MemoryOK, StoreOK, QueueMatches, InQueue
      <4>2. disk.tasks[t].status = "QUEUED"
        BY <2>0, <4>1 DEF DiskOK, StoreOK, QueueMatches, InQueue, OrderOK
      <4> QED  BY <3>1, <3>2, <4>2
    <3>3. ASSUME NEW busy \in SUBSET TaskIds, MayRun(busy),
                 snapshot = Snapshot(Started(busy), index, Remaining(busy))
          PROVE  \A u \in InQueue(queue') : Earlier(tasks', t, u)
      BY <2>4, <3>1, <3>3 DEF Snapshot
    <3> QED  BY <2>6, <3>2, <3>3 DEF Reloaded
  <2> QED  BY <2>1, <2>2, <2>3, <2>4, <2>5, <2>6, NextStore DEF StoreStep, Schedule
<1> QED  BY <1>1, Invariant, Ordered, PTL DEF Spec, NoOvertaking

-----------------------------------------------------------------------------
(* The request index                                                       *)

\* The index leads to a task of the request.
Indexed(ts, ix) == \A r \in Requests : ix[r] # None => ts[ix[r]].req = r

\* A task that no POST can have made came by the transport.
CameRouted(ts) ==
  \A t \in TaskIds : ts[t] \in Task /\ ts[t].req \notin PostReqs => ts[t].routed

\* The index leads to tasks of the request, and every request on disk, or accepted, is
\* known in both places.
IndexOK ==
  /\ Indexed(tasks, index) /\ Indexed(disk.tasks, disk.index)
  /\ CameRouted(tasks) /\ CameRouted(disk.tasks)
  /\ \A r \in Requests : disk.index[r] # None => index[r] # None
  /\ \A r \in Requests :
       index[r] # None /\ tasks[index[r]].result = "none" => disk.index[r] # None

\* Remembering a new task leaves what the index says of the other requests.
LEMMA RememberIndex ==
  ASSUME MemoryOK, NEW t \in TaskIds, NEW task \in Task, tasks[t] = NoTask, Remember(t, task)
  PROVE  /\ t # None /\ tasks'[t] = task /\ index'[task.req] = t
         /\ \A u \in TaskIds : u # t => tasks'[u] = tasks[u]
         /\ \A r \in Requests : r # task.req => index'[r] = index[r]
         /\ \A r \in Requests : index[r] # None =>
              /\ index[r] \in TaskIds /\ index[r] # t
              /\ tasks'[index[r]] = tasks[index[r]]
<1> USE DEF MemoryOK, StoreOK
<1>1. /\ tasks' = [tasks EXCEPT ![t] = task] /\ index' = [index EXCEPT ![task.req] = t]
      /\ task.req \in Requests
  BY DEF Remember, Task
<1>2. \A r \in Requests : index[r] # None => index[r] \in TaskIds /\ index[r] # t
  BY TaskFacts, SellerAssumption DEF TaskIds, None
<1>3. t # None
  BY SellerAssumption DEF TaskIds, None
<1> QED  BY <1>1, <1>2, <1>3

\* The fields of a task just made, queued or rejected.
LEMMA NewTaskFields ==
  ASSUME NEW r \in Requests, NEW routed \in BOOLEAN
  PROVE  /\ NewTask(r, routed) \in Task
         /\ NewTask(r, routed).req = r /\ NewTask(r, routed).routed = routed
         /\ NewTask(r, routed).status = "QUEUED" /\ NewTask(r, routed).result = "none"
         /\ Rejected(r) \in Task
         /\ Rejected(r).req = r /\ Rejected(r).routed = TRUE
         /\ Rejected(r).status = "COMPLETED" /\ Rejected(r).result = "rejected"
  BY DEF NewTask, Rejected, Completed, Task, Results

\* scheduleProcessQueue leaves what the index says alone.
LEMMA IndexStart ==
  ASSUME MemoryOK, IndexOK, NEW busy \in SUBSET TaskIds, MayRun(busy)
  PROVE  /\ Indexed(Started(busy), index) /\ CameRouted(Started(busy))
         /\ \A r \in Requests : index[r] # None =>
              index[r] \in TaskIds /\ Started(busy)[index[r]].result = tasks[index[r]].result
<1>1. \A r \in Requests : index[r] # None => index[r] \in TaskIds
  BY SellerAssumption DEF MemoryOK, StoreOK, TaskIds, None
<1>2. \A t \in TaskIds : /\ Started(busy)[t].req = tasks[t].req
                         /\ Started(busy)[t].result = tasks[t].result
                         /\ Started(busy)[t].routed = tasks[t].routed
  BY StartedFields DEF MayRun
<1>3. \A t \in TaskIds : Started(busy)[t] \in Task => tasks[t] \in Task
  BY StartStore DEF MayRun
<1> QED  BY <1>1, <1>2, <1>3 DEF Indexed, CameRouted, IndexOK

\* The step starts the process again.
Rebooting == \E snapshot : Reloaded(snapshot)

\* The index stays right, and forgets no request but in a restart, and none on disk.
LEMMA IndexStep ==
  ASSUME IInv, IndexOK, StoreStep
  PROVE  /\ IndexOK'
         /\ \A r \in Requests : disk.index[r] # None => disk'.index[r] # None
         /\ Rebooting \/ \A r \in Requests : index[r] # None => index'[r] # None
<1> DEFINE grows == \A r \in Requests : disk.index[r] # None => disk'.index[r] # None
           keeps == \A r \in Requests : index[r] # None => index'[r] # None
<1>0. MemoryOK /\ DiskOK
  BY DEF IInv
<1>1. CASE Kept
  <2>1. UNCHANGED <<tasks, index>>
    BY <1>1 DEF Kept, storeVars
  <2>2. CASE disk' = disk
    BY <2>1, <2>2 DEF IndexOK
  <2>3. CASE Save
    BY <2>1, <2>3 DEF IndexOK, Save
  <2> QED  BY <1>1, <2>2, <2>3 DEF Kept
<1>2. ASSUME NEW t \in TaskIds, NEW r \in Requests, NEW routed \in BOOLEAN,
             Enqueued(t, r, routed), routed \/ r \in PostReqs
      PROVE  IndexOK' /\ grows /\ keeps
  <2> DEFINE task == NewTask(r, routed)
  <2>1. tasks[t] = NoTask /\ Remember(t, task) /\ Save
    BY <1>2 DEF Enqueued, EnqueueTask, SaveEnqueued
  <2>2. task \in Task /\ task.req = r /\ task.routed = routed /\ task.result = "none"
    BY NewTaskFields
  <2> HIDE DEF task
  <2>3. /\ t # None /\ tasks'[t] = task /\ index'[r] = t
        /\ \A u \in TaskIds : u # t => tasks'[u] = tasks[u]
        /\ \A q \in Requests : q # r => index'[q] = index[q]
        /\ \A q \in Requests : index[q] # None =>
             /\ index[q] \in TaskIds /\ index[q] # t /\ tasks'[index[q]] = tasks[index[q]]
    BY <1>0, <2>1, <2>2, RememberIndex
  <2>4. Indexed(tasks', index')
    BY <2>2, <2>3 DEF Indexed, IndexOK
  <2>5. CameRouted(tasks')
    BY <1>2, <2>2, <2>3 DEF CameRouted, IndexOK
  <2>6. disk'.tasks = tasks' /\ disk'.index = index'
    BY <2>1 DEF Save
  <2>7. keeps /\ grows
    BY <2>3, <2>6 DEF IndexOK
  <2> QED  BY <2>4, <2>5, <2>6, <2>7 DEF IndexOK
<1>3. ASSUME NEW t \in TaskIds, NEW r \in Requests, Refused(t, r)
      PROVE  IndexOK' /\ grows /\ keeps
  <2> DEFINE task == Rejected(r)
  <2>1. tasks[t] = NoTask /\ Remember(t, task) /\ disk' = disk
    BY <1>3 DEF Refused
  <2>2. task \in Task /\ task.req = r /\ task.routed = TRUE /\ task.result = "rejected"
    BY NewTaskFields
  <2> HIDE DEF task
  <2>3. /\ t # None /\ tasks'[t] = task /\ index'[r] = t
        /\ \A u \in TaskIds : u # t => tasks'[u] = tasks[u]
        /\ \A q \in Requests : q # r => index'[q] = index[q]
        /\ \A q \in Requests : index[q] # None =>
             /\ index[q] \in TaskIds /\ index[q] # t /\ tasks'[index[q]] = tasks[index[q]]
    BY <1>0, <2>1, <2>2, RememberIndex
  <2>4. Indexed(tasks', index')
    BY <2>2, <2>3 DEF Indexed, IndexOK
  <2>5. CameRouted(tasks')
    BY <2>2, <2>3 DEF CameRouted, IndexOK
  <2>6. keeps /\ grows
    BY <2>1, <2>3
  <2>7. \A q \in Requests : disk'.index[q] # None => index'[q] # None
    BY <2>1, <2>3 DEF IndexOK
  <2>8. ASSUME NEW q \in Requests, index'[q] # None, tasks'[index'[q]].result = "none"
        PROVE  disk'.index[q] # None
    <3>1. q # r
      BY <2>2, <2>3, <2>8
    <3> QED  BY <2>1, <2>3, <2>8, <3>1 DEF IndexOK
  <2> QED  BY <2>1, <2>4, <2>5, <2>6, <2>7, <2>8 DEF IndexOK
<1>4. ASSUME NEW busy \in SUBSET TaskIds, MayRun(busy), NEW stage, Schedule(busy, stage)
      PROVE  IndexOK' /\ grows /\ keeps
  <2>1. tasks' = Started(busy) /\ index' = index /\ (disk' = disk \/ Save)
    BY <1>4 DEF Schedule, SaveStarted
  <2>2. /\ Indexed(tasks', index') /\ CameRouted(tasks')
        /\ \A r \in Requests : index[r] # None => tasks'[index[r]].result = tasks[index[r]].result
    BY <1>0, <1>4, <2>1, IndexStart
  <2>3. CASE disk' = disk
    BY <2>1, <2>2, <2>3 DEF IndexOK
  <2>4. CASE Save
    BY <2>1, <2>2, <2>4 DEF IndexOK, Save
  <2> QED  BY <2>1, <2>3, <2>4
<1>5. ASSUME NEW t \in TaskIds, NEW task, Worked(t, task)
      PROVE  IndexOK' /\ grows /\ keeps
  <2>1. /\ tasks' = [tasks EXCEPT ![t] = task] /\ index' = index
        /\ task.req = tasks[t].req /\ task.routed = tasks[t].routed
        /\ task.result = "none" => tasks[t].result = "none"
        /\ disk' = disk \/ Save
    BY <1>5 DEF Worked, Ended
  <2>2. tasks[t] \in Task
    BY <1>5 DEF Worked, IInv, WorkersOK
  <2>3. \A u \in TaskIds : /\ tasks'[u].req = tasks[u].req /\ tasks'[u].routed = tasks[u].routed
                           /\ tasks'[u].result = "none" => tasks[u].result = "none"
                           /\ tasks'[u] \in Task => tasks[u] \in Task
    BY <1>0, <2>1, <2>2 DEF MemoryOK, StoreOK
  <2>4. \A r \in Requests : index[r] # None => index[r] \in TaskIds
    BY <1>0, SellerAssumption DEF MemoryOK, StoreOK, TaskIds, None
  <2>5. Indexed(tasks', index') /\ CameRouted(tasks')
    BY <2>1, <2>3, <2>4 DEF Indexed, CameRouted, IndexOK
  <2>6. CASE disk' = disk
    BY <2>1, <2>3, <2>4, <2>5, <2>6 DEF IndexOK
  <2>7. CASE Save
    BY <2>1, <2>5, <2>7 DEF IndexOK, Save
  <2> QED  BY <2>1, <2>6, <2>7
<1>6. ASSUME NEW snapshot, Reloaded(snapshot)
      PROVE  IndexOK' /\ grows
  <2>1. disk' = snapshot /\ tasks' = snapshot.tasks /\ index' = snapshot.index
    BY <1>6 DEF Reloaded, Boot
  <2>2. CASE snapshot = disk
    BY <2>1, <2>2 DEF IndexOK
  <2>3. ASSUME NEW busy \in SUBSET TaskIds, MayRun(busy),
               snapshot = Snapshot(Started(busy), index, Remaining(busy))
        PROVE  IndexOK' /\ grows
    <3>1. Indexed(Started(busy), index) /\ CameRouted(Started(busy))
      BY <1>0, <2>3, IndexStart
    <3>2. snapshot.tasks = Started(busy) /\ snapshot.index = index
      BY <2>3 DEF Snapshot
    <3> QED  BY <2>1, <3>1, <3>2 DEF IndexOK
  <2> QED  BY <1>6, <2>2, <2>3 DEF Reloaded
<1> QED  BY <1>1, <1>2, <1>3, <1>4, <1>5, <1>6 DEF StoreStep, Comes, Rebooting, Kept, storeVars

-----------------------------------------------------------------------------
(* What a pull and a worker have promised                                  *)

\* A result of request r has been sent.
Answered(r) == \E res \in Results : <<r, res>> \in sent

\* What holds of the envelope in hand once the pull is at its label.
Promise(p) ==
  LET r == Envelope(p).req
  IN  /\ ppc[p] \in {"rejectMetric", "schedule", "platformAck", "save"} => index[r] # None
      /\ ppc[p] \in {"schedule", "platformAck"} => disk.index[r] # None
      /\ ppc[p] = "ack" => disk.index[r] # None \/ Answered(r)

\* A task about to report its end has an outcome, and sent it if it has a return route.
Outcome(t) ==
  wpc[t] = "event" =>
    /\ tasks[t].result \in {"ok", "error", "runtime_error"}
    /\ tasks[t].routed => <<tasks[t].req, tasks[t].result>> \in sent

\* All promises and outcomes.
PromisesOK == (\A p \in Pullers : Promise(p)) /\ (\A t \in TaskIds : Outcome(t))

\* No step takes a sent result back.
LEMMA SentGrows ==
  ASSUME Next
  PROVE  sent \subseteq sent'
<1>1. ASSUME NEW r \in Requests, SendRequest(r) \/ PostTask(r) PROVE sent \subseteq sent'
  BY <1>1 DEF SendRequest, PostTask, seenVars
<1>2. ASSUME NEW p \in Pullers, PullStep(p) PROVE sent \subseteq sent'
  BY <1>2 DEF PullStep, PollInbox, SkipEnvelope, ReceiveEnvelope, AckDuplicate, ReplayResult,
              CreateTask, IntrospectionFails, RejectTask, ReportRejected, AcceptTask,
              ScheduleAccepted, AckPlatform, SaveHandled, AckHandled, SendResult, seenVars
<1>3. ASSUME NEW t \in TaskIds, WorkStep(t) PROVE sent \subseteq sent'
  BY <1>3 DEF WorkStep, BeginExecution, ExecutorReturns, ExecutorThrows, ExecutorDefers, FailTask,
              FinalizeTask, PostLifecycleEvent, ReportResult, SaveOutcome, ReleaseWorker,
              Reschedule, UnhandledRejection, SendResult, seenVars
<1>4. ASSUME SchedulePosted \/ Heartbeat \/ Crash PROVE sent \subseteq sent'
  BY <1>4 DEF SchedulePosted, Heartbeat, Crash, seenVars
<1> QED  BY <1>1, <1>2, <1>3, <1>4 DEF Next

\* What every step of a running process preserves.
Growing ==
  /\ \A r \in Requests : disk.index[r] # None => disk'.index[r] # None
  /\ \A r \in Requests : index[r] # None => index'[r] # None
  /\ sent \subseteq sent'

\* Between restarts, what is known and what was sent only grows.
LEMMA RunningGrows ==
  ASSUME IInv, IndexOK, Next, UNCHANGED boots
  PROVE  Growing
<1>1. ~Rebooting
  <2>1. boots \in Nat
    BY DEF IInv, NetOK
  <2> QED  BY <2>1 DEF Rebooting, Reloaded, Boot
<1> QED  BY <1>1, NextStore, IndexStep, SentGrows DEF Growing

\* A promise about the envelope in hand outlives such a step.
LEMMA PromiseKept ==
  ASSUME IInv, NEW p \in Pullers, Promise(p), ppc'[p] = ppc[p], batch'[p] = batch[p], Growing
  PROVE  Promise(p)'
<1>1. CASE ppc[p] \in {"idle", "next"}
  BY <1>1 DEF Promise
<1>2. CASE ppc[p] \notin {"idle", "next"}
  <2>1. batch[p] # <<>>
    BY <1>2 DEF IInv, PullsOK
  <2>2. Envelope(p).req \in Requests /\ Envelope(p)' = Envelope(p)
    BY <2>1, EnvelopeType DEF Envelope
  <2> QED  BY <2>2 DEF Promise, Answered, Growing
<1> QED  BY <1>1, <1>2

\* A step of pull p that leaves the other pulls alone.
LEMMA PullFrame ==
  ASSUME IInv, NEW p \in Pullers, PullStep(p)
  PROVE  /\ UNCHANGED boots
         /\ \A q \in Pullers \ {p} : ppc'[q] = ppc[q] /\ batch'[q] = batch[q]
<1>1. UNCHANGED boots
  BY DEF PullStep, PollInbox, SkipEnvelope, ReceiveEnvelope, AckDuplicate, ReplayResult,
         CreateTask, IntrospectionFails, RejectTask, ReportRejected, AcceptTask,
         ScheduleAccepted, AckPlatform, SaveHandled, AckHandled, lifeVars
<1>2. ppc' = ppc \/ \E label : ppc' = [ppc EXCEPT ![p] = label]
  BY DEF PullStep, PollInbox, SkipEnvelope, ReceiveEnvelope, AckDuplicate, ReplayResult,
         CreateTask, IntrospectionFails, RejectTask, ReportRejected, AcceptTask,
         ScheduleAccepted, AckPlatform, SaveHandled, AckHandled, AckEnvelope, Proceed, Abort, Goto
<1>3. batch' = batch \/ \E b : batch' = [batch EXCEPT ![p] = b]
  BY DEF PullStep, PollInbox, SkipEnvelope, ReceiveEnvelope, AckDuplicate, ReplayResult,
         CreateTask, IntrospectionFails, RejectTask, ReportRejected, AcceptTask,
         ScheduleAccepted, AckPlatform, SaveHandled, AckHandled, AckEnvelope, Proceed, Abort
<1> QED  BY <1>1, <1>2, <1>3 DEF IInv, PullsOK

\* Where a pull that goes on, or gives up, stands.
LEMMA ProceedLabel ==
  ASSUME IInv, NEW p \in Pullers, NEW o, NEW label, Proceed(p, o, label)
  PROVE  \/ ppc'[p] = "idle"
         \/ o = "ok" /\ ppc'[p] = label /\ batch'[p] = batch[p]
  BY DEF Proceed, Abort, Goto, IInv, PullsOK

\* A pull keeps its word at every label.
LEMMA PromiseStep ==
  ASSUME IInv, IndexOK, IndexOK', NEW p \in Pullers, Promise(p), PullStep(p), Growing
  PROVE  Promise(p)'
<1>0. ppc[p] \notin {"idle", "next"} => /\ Envelope(p).req \in Requests
                                        /\ batch'[p] = batch[p] => Envelope(p)' = Envelope(p)
  <2>1. ppc[p] \notin {"idle", "next"} => batch[p] # <<>>
    BY DEF IInv, PullsOK
  <2> QED  BY <2>1, EnvelopeType DEF Envelope
<1>a. ppc'[p] \in {"idle", "next", "lookup", "introspect"} => Promise(p)'
  BY DEF Promise
<1>b. \A label : Goto(p, label) => ppc'[p] = label
  BY DEF Goto, IInv, PullsOK
<1>1. CASE \/ PollInbox(p) \/ SkipEnvelope(p) \/ ReceiveEnvelope(p) \/ CreateTask(p)
           \/ IntrospectionFails(p) \/ AckDuplicate(p) \/ AckHandled(p)
  <2>1. ppc'[p] \in {"idle", "next", "lookup", "introspect"}
    BY <1>1, <1>b DEF PollInbox, SkipEnvelope, ReceiveEnvelope, CreateTask, IntrospectionFails,
                      AckDuplicate, AckHandled, AckEnvelope, Proceed, Abort
  <2> QED  BY <1>a, <2>1
<1>2. CASE ReplayResult(p)
  <2> DEFINE r == Envelope(p).req
             task == tasks[index[r]]
  <2>1. r \in Requests /\ index[r] # None
    BY <1>0, <1>2 DEF ReplayResult, Known
  <2>2. task \in Task /\ task.req = r
    BY <2>1 DEF IInv, MemoryOK, StoreOK, IndexOK, Indexed
  <2>3. PICK o : SendResult(task.req, task.result, TRUE, "replaySend", o) /\ Proceed(p, o, "ack")
    BY <1>2 DEF ReplayResult
  <2>4. task.result \in Results
    BY <2>2 DEF Task
  <2> HIDE DEF r, task
  <2>5. o = "ok" => <<r, task.result>> \in sent'
    BY <2>2, <2>3 DEF SendResult
  <2>6. CASE ppc'[p] = "idle"
    BY <1>a, <2>6
  <2>7. CASE o = "ok" /\ ppc'[p] = "ack" /\ batch'[p] = batch[p]
    <3>1. Envelope(p)' = Envelope(p)
      BY <1>0, <1>2, <2>7 DEF ReplayResult
    <3>2. \E res \in Results : <<r, res>> \in sent'
      BY <2>4, <2>5, <2>7
    <3> QED  BY <2>7, <3>1, <3>2 DEF Promise, Answered, r
  <2> QED  BY <2>3, <2>6, <2>7, ProceedLabel
<1>3. CASE RejectTask(p)
  <2>1. /\ ppc[p] = "introspect"
        /\ Remember(cand[p], Rejected(Envelope(p).req))
    BY <1>3 DEF RejectTask, Rejected
  <2>2. PICK o : Proceed(p, o, "rejectMetric")
    BY <1>3 DEF RejectTask
  <2>3. Envelope(p).req \in Requests /\ cand[p] \in TaskIds /\ tasks[cand[p]] = NoTask
    BY <1>0, <2>1, CandFacts DEF IInv, CoreOK
  <2>4. index'[Envelope(p).req] # None
    <3>1. Rejected(Envelope(p).req) \in Task /\ Rejected(Envelope(p).req).req = Envelope(p).req
      BY <2>3, NewTaskFields
    <3> QED  BY <2>1, <2>3, <3>1, RememberIndex DEF IInv
  <2>5. CASE ppc'[p] = "idle"
    BY <1>a, <2>5
  <2>6. CASE ppc'[p] = "rejectMetric" /\ batch'[p] = batch[p]
    BY <1>0, <2>1, <2>4, <2>6 DEF Promise
  <2> QED  BY <2>2, <2>5, <2>6, ProceedLabel
<1>4. CASE AcceptTask(p)
  <2>1. /\ ppc[p] = "introspect" /\ ppc'[p] = "schedule" /\ batch'[p] = batch[p]
        /\ Remember(cand[p], NewTask(Envelope(p).req, TRUE)) /\ Save
    BY <1>4, <1>b DEF AcceptTask, EnqueueTask, SaveEnqueued
  <2>2. Envelope(p).req \in Requests /\ cand[p] \in TaskIds /\ tasks[cand[p]] = NoTask
    BY <1>0, <2>1, CandFacts DEF IInv, CoreOK
  <2>3. index'[Envelope(p).req] # None
    <3> DEFINE task == NewTask(Envelope(p).req, TRUE)
    <3>1. task \in Task /\ task.req = Envelope(p).req /\ Remember(cand[p], task)
      BY <2>1, <2>2, NewTaskFields
    <3> HIDE DEF task
    <3> QED  BY <2>2, <3>1, RememberIndex DEF IInv
  <2>4. disk'.index = index'
    BY <2>1 DEF Save
  <2> QED  BY <1>0, <2>1, <2>3, <2>4 DEF Promise
<1>5. CASE ReportRejected(p) \/ ScheduleAccepted(p) \/ AckPlatform(p)
  <2>1. ppc[p] \in {"rejectMetric", "schedule", "platformAck"}
    BY <1>5 DEF ReportRejected, ScheduleAccepted, AckPlatform
  <2>2. /\ ppc'[p] \in {"idle", "save", "platformAck"}
        /\ ppc'[p] # "idle" => batch'[p] = batch[p]
        /\ ppc'[p] = "platformAck" => ppc[p] = "schedule"
    BY <1>5, <1>b, ProceedLabel DEF ReportRejected, ScheduleAccepted, AckPlatform
  <2>3. CASE ppc'[p] = "idle"
    BY <1>a, <2>3
  <2>4. CASE ppc'[p] # "idle"
    <3>1. Envelope(p).req \in Requests /\ Envelope(p)' = Envelope(p)
      BY <1>0, <2>1, <2>2, <2>4
    <3> QED  BY <2>1, <2>2, <2>4, <3>1 DEF Promise, Growing
  <2> QED  BY <2>3, <2>4
<1>6. CASE SaveHandled(p)
  <2>1. ppc[p] = "save" /\ ppc'[p] = "ack" /\ batch'[p] = batch[p] /\ Save /\ index' = index
    BY <1>6, <1>b DEF SaveHandled, storeVars
  <2>2. disk'.index[Envelope(p).req] # None
    BY <2>1 DEF Promise, Save
  <2> QED  BY <1>0, <2>1, <2>2 DEF Promise
<1> QED  BY <1>1, <1>2, <1>3, <1>4, <1>5, <1>6 DEF PullStep

\* A worker reaches its report through finalizeTask, and its task stays as it is meanwhile.
LEMMA EventTasks ==
  ASSUME IInv, Next, NEW t \in TaskIds, wpc'[t] = "event"
  PROVE  \/ wpc[t] = "event" /\ tasks'[t] = tasks[t]
         \/ \E res \in {"ok", "error", "runtime_error"} : wpc[t] # "none" /\ FinalizeTask(t, res)
<1>0. MemoryOK /\ WorkersOK
  BY DEF IInv
<1>a. ASSUME NEW busy \in SUBSET TaskIds, MayRun(busy), NEW stage, Schedule(busy, stage)
      PROVE  stage[t] = "event" /\ tasks'[t] = tasks[t]
  <2>1. t \notin ToStart(busy)
    BY <1>a DEF Schedule
  <2> QED  BY <1>0, <1>a, <2>1, StartStore DEF Schedule, MayRun
<1>b. active \in SUBSET TaskIds /\ MayRun(active)
  BY ActiveMayRun DEF MayRun
<1>c. ASSUME NEW u \in TaskIds, tasks[u] = NoTask, NEW task, Remember(u, task), UNCHANGED workVars
      PROVE  wpc[t] = "event" /\ tasks'[t] = tasks[t]
  <2>1. wpc[t] = "event" /\ u # t
    BY <1>0, <1>c, TaskFacts DEF workVars, WorkersOK
  <2> QED  BY <1>0, <1>c, <2>1 DEF Remember, MemoryOK, StoreOK
<1>1. ASSUME NEW r \in Requests, SendRequest(r)
      PROVE  wpc[t] = "event" /\ tasks'[t] = tasks[t]
  BY <1>1 DEF SendRequest, storeVars, workVars
<1>2. ASSUME NEW r \in Requests, PostTask(r)
      PROVE  wpc[t] = "event" /\ tasks'[t] = tasks[t]
  <2>1. /\ created < MaxTasks /\ UNCHANGED workVars
        /\ \E routed \in BOOLEAN : Remember(created + 1, NewTask(r, routed))
    BY <1>2 DEF PostTask, EnqueueTask
  <2>2. created + 1 \in TaskIds /\ created + 1 > created
    BY <2>1, SellerAssumption DEF IInv, IdsFresh, TaskIds
  <2>3. tasks[created + 1] = NoTask
    BY <2>2 DEF IInv, IdsFresh
  <2> QED  BY <1>c, <2>1, <2>2, <2>3
<1>3. ASSUME NEW p \in Pullers, PullStep(p)
      PROVE  wpc[t] = "event" /\ tasks'[t] = tasks[t]
  <2>1. CASE AcceptTask(p) \/ RejectTask(p)
    <3>1. ppc[p] = "introspect" /\ UNCHANGED workVars /\ \E task : Remember(cand[p], task)
      BY <2>1 DEF AcceptTask, RejectTask, EnqueueTask
    <3>2. cand[p] \in TaskIds /\ tasks[cand[p]] = NoTask
      BY <3>1, CandFacts DEF IInv, CoreOK
    <3> QED  BY <1>c, <3>1, <3>2
  <2>2. CASE ScheduleAccepted(p)
    BY <2>2, <1>a, <1>b DEF ScheduleAccepted
  <2>3. CASE ~AcceptTask(p) /\ ~RejectTask(p) /\ ~ScheduleAccepted(p)
    BY <1>3, <2>3 DEF PullStep, PollInbox, SkipEnvelope, ReceiveEnvelope, AckDuplicate,
                ReplayResult, CreateTask, IntrospectionFails, ReportRejected, AckPlatform,
                SaveHandled, AckHandled, storeVars, workVars
  <2> QED  BY <2>1, <2>2, <2>3
<1>4. ASSUME NEW u \in TaskIds, WorkStep(u)
      PROVE  \/ wpc[t] = "event" /\ tasks'[t] = tasks[t]
             \/ \E res \in {"ok", "error", "runtime_error"} : wpc[t] # "none" /\ FinalizeTask(t, res)
  <2>1. CASE ExecutorReturns(u) \/ ExecutorThrows(u) \/ FailTask(u)
    <3>1. /\ wpc[u] # "none"
          /\ \E res \in {"ok", "error", "runtime_error"} : FinalizeTask(u, res)
      BY <2>1 DEF ExecutorReturns, ExecutorThrows, FailTask
    <3>2. CASE u = t
      BY <3>1, <3>2
    <3>3. CASE u # t
      BY <1>0, <3>1, <3>3 DEF FinalizeTask, Stage, WorkersOK, MemoryOK, StoreOK
    <3> QED  BY <3>2, <3>3
  <2>2. CASE ExecutorDefers(u)
    BY <1>0, <2>2 DEF ExecutorDefers, Stage, WorkersOK, MemoryOK, StoreOK
  <2>3. CASE Reschedule(u)
    <3>1. [wpc EXCEPT ![u] = "none"][t] = "event" /\ tasks'[t] = tasks[t]
      BY <2>3, <1>a, <1>b DEF Reschedule
    <3> QED  BY <1>0, <3>1 DEF WorkersOK
  <2>4. CASE UnhandledRejection(u)
    BY <2>4 DEF UnhandledRejection, Boot
  <2>5. CASE \/ BeginExecution(u) \/ PostLifecycleEvent(u) \/ ReportResult(u) \/ SaveOutcome(u)
             \/ ReleaseWorker(u)
    <3>1. tasks' = tasks /\ \E label : label # "event" /\ Stage(u, label)
      BY <2>5 DEF BeginExecution, PostLifecycleEvent, ReportResult, SaveOutcome, ReleaseWorker,
                  storeVars
    <3> QED  BY <1>0, <3>1 DEF Stage, WorkersOK
  <2> QED  BY <1>4, <2>1, <2>2, <2>3, <2>4, <2>5 DEF WorkStep
<1>5. ASSUME SchedulePosted PROVE wpc[t] = "event" /\ tasks'[t] = tasks[t]
  BY <1>5, <1>a, <1>b DEF SchedulePosted
<1>6. ASSUME Heartbeat PROVE wpc[t] = "event" /\ tasks'[t] = tasks[t]
  BY <1>6 DEF Heartbeat, storeVars, workVars
<1>7. ~Crash
  BY DEF Crash, Boot
<1> QED  BY <1>1, <1>2, <1>3, <1>4, <1>5, <1>6, <1>7 DEF Next

\* A worker that reports a result has recorded it, and sent it if there is a return route.
LEMMA OutcomeStep ==
  ASSUME IInv, PromisesOK, Next, NEW t \in TaskIds
  PROVE  Outcome(t)'
<1> SUFFICES ASSUME wpc'[t] = "event"
             PROVE  /\ tasks'[t].result \in {"ok", "error", "runtime_error"}
                    /\ tasks'[t].routed => <<tasks'[t].req, tasks'[t].result>> \in sent'
  BY DEF Outcome
<1>1. CASE wpc[t] = "event" /\ tasks'[t] = tasks[t]
  BY <1>1, SentGrows DEF PromisesOK, Outcome
<1>2. ASSUME NEW res \in {"ok", "error", "runtime_error"}, wpc[t] # "none", FinalizeTask(t, res)
      PROVE  /\ tasks'[t].result \in {"ok", "error", "runtime_error"}
             /\ tasks'[t].routed => <<tasks'[t].req, tasks'[t].result>> \in sent'
  <2>1. tasks[t] \in Task
    BY <1>2 DEF IInv, WorkersOK
  <2>2. tasks'[t] = Completed(tasks[t], res)
    BY <1>2 DEF FinalizeTask, IInv, MemoryOK, StoreOK
  <2>3. tasks'[t].result = res /\ tasks'[t].req = tasks[t].req /\ tasks'[t].routed = tasks[t].routed
    BY <2>1, <2>2 DEF Completed, Task
  <2>4. PICK o : /\ SendResult(tasks[t].req, res, tasks[t].routed, "resultSend", o)
                 /\ Stage(t, IF o = "ok" THEN "event"
                             ELSE IF res = "runtime_error" THEN "rejecting" ELSE "failing")
    BY <1>2 DEF FinalizeTask
  <2>5. o = "ok"
    BY <2>4 DEF Stage, IInv, WorkersOK
  <2>6. tasks[t].routed => <<tasks[t].req, res>> \in sent'
    BY <2>4, <2>5 DEF SendResult
  <2> QED  BY <2>3, <2>6
<1> QED  BY <1>1, <1>2, EventTasks

\* Who removes a message from the mailbox.
LEMMA ConsumedStep ==
  ASSUME IInv, IndexOK, PromisesOK, Next
  PROVE  \A r \in consumed' : r \in consumed \/ disk.index[r] # None \/ Answered(r)
<1>1. ASSUME NEW p \in Pullers, AckHandled(p) \/ AckDuplicate(p)
      PROVE  \A r \in consumed' : r \in consumed \/ disk.index[r] # None \/ Answered(r)
  <2> DEFINE r == Envelope(p).req
  <2>1. consumed' \subseteq consumed \cup {r}
    BY <1>1 DEF AckHandled, AckDuplicate, AckEnvelope
  <2>2. r \in Requests
    BY <1>1, EnvelopeType DEF AckHandled, AckDuplicate, IInv, PullsOK
  <2>3. CASE AckHandled(p)
    <3>1. disk.index[r] # None \/ Answered(r)
      BY <2>3 DEF AckHandled, PromisesOK, Promise
    <3> QED  BY <2>1, <3>1
  <2>4. CASE AckDuplicate(p)
    <3>1. disk.index[r] # None
      BY <2>2, <2>4 DEF AckDuplicate, Known, IndexOK
    <3> QED  BY <2>1, <3>1
  <2> QED  BY <1>1, <2>3, <2>4
<1>2. ASSUME NEW p \in Pullers, PullStep(p), ~AckHandled(p), ~AckDuplicate(p)
      PROVE  consumed' = consumed
  BY <1>2 DEF PullStep, PollInbox, SkipEnvelope, ReceiveEnvelope, ReplayResult, CreateTask,
              IntrospectionFails, RejectTask, ReportRejected, AcceptTask, ScheduleAccepted,
              AckPlatform, SaveHandled, netVars
<1>3. ASSUME NEW t \in TaskIds, WorkStep(t) PROVE consumed' = consumed
  BY <1>3 DEF WorkStep, BeginExecution, ExecutorReturns, ExecutorThrows, ExecutorDefers, FailTask,
              FinalizeTask, PostLifecycleEvent, ReportResult, SaveOutcome, ReleaseWorker,
              Reschedule, UnhandledRejection, netVars
<1>4. ASSUME \/ \E r \in Requests : SendRequest(r) \/ PostTask(r)
             \/ SchedulePosted \/ Heartbeat \/ Crash
      PROVE  consumed' = consumed
  BY <1>4 DEF SendRequest, PostTask, SchedulePosted, Heartbeat, Crash, netVars
<1> QED  BY <1>1, <1>2, <1>3, <1>4 DEF Next

\* Who reports an event to the platform, and what is so when it does.
LEMMA ReportedStep ==
  ASSUME IInv, IndexOK, PromisesOK, Next, NEW r \in Requests
  PROVE  /\ "ACKED" \in reported'[r] => "ACKED" \in reported[r] \/ disk.index[r] # None
         /\ "COMPLETED" \in reported'[r] /\ r \notin PostReqs =>
              "COMPLETED" \in reported[r] \/ <<r, "ok">> \in sent
         /\ "FAILED" \in reported'[r] /\ r \notin PostReqs =>
              "FAILED" \in reported[r] \/ \E res \in {"error", "runtime_error"} : <<r, res>> \in sent
<1>0. reported \in [Requests -> SUBSET {"ACKED", "COMPLETED", "FAILED"}]
  BY DEF IInv, NetOK
<1>1. ASSUME NEW p \in Pullers, AckPlatform(p)
      PROVE  reported'[r] \subseteq reported[r] \cup (IF disk.index[r] # None THEN {"ACKED"} ELSE {})
  <2>1. Envelope(p).req \in Requests /\ disk.index[Envelope(p).req] # None
    BY <1>1, EnvelopeType DEF AckPlatform, IInv, PullsOK, PromisesOK, Promise
  <2>2. \/ reported' = reported
        \/ reported' = [reported EXCEPT ![Envelope(p).req] = @ \cup {"ACKED"}]
    BY <1>1 DEF AckPlatform, Report
  <2> QED  BY <1>0, <2>1, <2>2
<1>2. ASSUME NEW t \in TaskIds, PostLifecycleEvent(t)
      PROVE  /\ "ACKED" \in reported'[r] => "ACKED" \in reported[r]
             /\ "COMPLETED" \in reported'[r] /\ r \notin PostReqs =>
                  "COMPLETED" \in reported[r] \/ <<r, "ok">> \in sent
             /\ "FAILED" \in reported'[r] /\ r \notin PostReqs =>
                  \/ "FAILED" \in reported[r]
                  \/ \E res \in {"error", "runtime_error"} : <<r, res>> \in sent
  <2> DEFINE event == IF tasks[t].result = "ok" THEN "COMPLETED" ELSE "FAILED"
  <2>1. wpc[t] = "event" /\ tasks[t] \in Task
    BY <1>2 DEF PostLifecycleEvent, IInv, WorkersOK
  <2>2. \/ reported' = reported
        \/ reported' = [reported EXCEPT ![tasks[t].req] = @ \cup {event}]
    BY <1>2 DEF PostLifecycleEvent, Report
  <2>3. tasks[t].req \notin PostReqs => <<tasks[t].req, tasks[t].result>> \in sent
    BY <2>1 DEF PromisesOK, Outcome, IndexOK, CameRouted
  <2>4. tasks[t].result \in {"ok", "error", "runtime_error"}
    BY <2>1 DEF PromisesOK, Outcome
  <2>5. CASE tasks[t].req # r \/ reported' = reported
    <3>1. reported'[r] = reported[r]
      BY <1>0, <2>1, <2>2, <2>5 DEF Task
    <3> QED  BY <3>1
  <2>6. CASE tasks[t].req = r /\ reported' # reported
    <3>1. reported'[r] = reported[r] \cup {event}
      BY <1>0, <2>2, <2>6
    <3>2. CASE tasks[t].result = "ok"
      BY <2>3, <2>6, <3>1, <3>2
    <3>3. CASE tasks[t].result # "ok"
      <4>1. event = "FAILED" /\ tasks[t].result \in {"error", "runtime_error"}
        BY <2>4, <3>3
      <4> QED  BY <2>3, <2>6, <3>1, <4>1
    <3> QED  BY <3>2, <3>3
  <2> QED  BY <2>5, <2>6
<1>3. ASSUME NEW p \in Pullers, PullStep(p), ~AckPlatform(p) PROVE reported' = reported
  BY <1>3 DEF PullStep, PollInbox, SkipEnvelope, ReceiveEnvelope, AckDuplicate, ReplayResult,
              CreateTask, IntrospectionFails, RejectTask, ReportRejected, AcceptTask,
              ScheduleAccepted, SaveHandled, AckHandled, seenVars
<1>4. ASSUME NEW t \in TaskIds, WorkStep(t), ~PostLifecycleEvent(t) PROVE reported' = reported
  BY <1>4 DEF WorkStep, BeginExecution, ExecutorReturns, ExecutorThrows, ExecutorDefers, FailTask,
              FinalizeTask, ReportResult, SaveOutcome, ReleaseWorker, Reschedule,
              UnhandledRejection, seenVars
<1>5. ASSUME \/ \E q \in Requests : SendRequest(q) \/ PostTask(q)
             \/ SchedulePosted \/ Heartbeat \/ Crash
      PROVE  reported' = reported
  BY <1>5 DEF SendRequest, PostTask, SchedulePosted, Heartbeat, Crash, seenVars
<1> QED  BY <1>1, <1>2, <1>3, <1>4, <1>5 DEF Next

\* The promises with the two properties they carry.
DeliveryOK == IndexOK /\ PromisesOK /\ NoSilentLoss /\ ReportsTruthful

\* Every step keeps them.
LEMMA DeliveryStep ==
  ASSUME IInv, DeliveryOK, Next
  PROVE  DeliveryOK'
<1> USE DEF DeliveryOK
<1>1. /\ IndexOK'
      /\ \A r \in Requests : disk.index[r] # None => disk'.index[r] # None
  BY NextStore, IndexStep
<1>2. sent \subseteq sent'
  BY SentGrows
<1>3. NoSilentLoss'
  <2>1. consumed' \subseteq Requests
    BY StepInv DEF IInv, NetOK
  <2>2. \A r \in Requests : Answered(r) => \E res \in Results : <<r, res>> \in sent'
    BY <1>2 DEF Answered
  <2>3. \A r \in consumed : disk.index[r] # None \/ Answered(r)
    BY DEF NoSilentLoss, Answered
  <2>4. ASSUME NEW r \in consumed'
        PROVE  disk'.index[r] # None \/ \E res \in Results : <<r, res>> \in sent'
    <3>1. disk.index[r] # None \/ Answered(r)
      BY <2>3, <2>4, ConsumedStep
    <3> QED  BY <1>1, <2>1, <2>2, <2>4, <3>1
  <2> QED  BY <2>4 DEF NoSilentLoss
<1>4. ReportsTruthful'
  <2>1. ASSUME NEW r \in Requests, "ACKED" \in reported'[r] PROVE disk'.index[r] # None
    BY <1>1, <2>1, ReportedStep DEF ReportsTruthful
  <2>2. ASSUME NEW r \in Requests \ PostReqs, "COMPLETED" \in reported'[r]
        PROVE  <<r, "ok">> \in sent'
    BY <1>2, <2>2, ReportedStep DEF ReportsTruthful
  <2>3. ASSUME NEW r \in Requests \ PostReqs, "FAILED" \in reported'[r]
        PROVE  \E res \in {"error", "runtime_error"} : <<r, res>> \in sent'
    BY <1>2, <2>3, ReportedStep DEF ReportsTruthful
  <2> QED  BY <2>1, <2>2, <2>3 DEF ReportsTruthful
<1>5. ASSUME NEW p \in Pullers PROVE Promise(p)'
  <2>0. Promise(p)
    BY DEF PromisesOK
  <2>1. CASE boots' # boots
    <3>1. Crash \/ \E t \in TaskIds : UnhandledRejection(t)
      <4>1. ~\E q \in Pullers : PullStep(q)
        BY <2>1, PullFrame
      <4> QED  BY <2>1, <4>1 DEF Next, SendRequest, PostTask, SchedulePosted, Heartbeat, Crash,
                   WorkStep, BeginExecution, ExecutorReturns, ExecutorThrows, ExecutorDefers,
                   FailTask, FinalizeTask, PostLifecycleEvent, ReportResult, SaveOutcome,
                   ReleaseWorker, Reschedule, lifeVars
    <3>2. ppc'[p] = "idle"
      BY <3>1 DEF Crash, UnhandledRejection, Boot
    <3> QED  BY <3>2 DEF Promise
  <2>2. CASE boots' = boots
    <3>1. Growing
      BY <2>2, RunningGrows
    <3>2. ASSUME NEW q \in Pullers, PullStep(q) PROVE Promise(p)'
      <4>1. CASE q = p
        BY <1>1, <2>0, <3>1, <3>2, <4>1, PromiseStep
      <4>2. CASE q # p
        BY <2>0, <3>1, <3>2, <4>2, PullFrame, PromiseKept
      <4> QED  BY <4>1, <4>2
    <3>3. CASE ~\E q \in Pullers : PullStep(q)
      <4>1. UNCHANGED pullVars
        <5>1. boots \in Nat
          BY DEF IInv, NetOK
        <5>2. boots' # boots + 1
          BY <2>2, <5>1
        <5>3. UNCHANGED pullVars \/ boots' = boots + 1
          BY <3>3 DEF Next, SendRequest, PostTask, SchedulePosted, Heartbeat,
                   WorkStep, BeginExecution, ExecutorReturns, ExecutorThrows, ExecutorDefers,
                   FailTask, FinalizeTask, PostLifecycleEvent, ReportResult, SaveOutcome,
                   ReleaseWorker, Reschedule, Crash, UnhandledRejection, Boot
        <5> QED  BY <5>2, <5>3
      <4> QED  BY <2>0, <3>1, <4>1, PromiseKept DEF pullVars
    <3> QED  BY <3>2, <3>3
  <2> QED  BY <2>1, <2>2
<1>6. ASSUME NEW t \in TaskIds PROVE Outcome(t)'
  BY <1>6, OutcomeStep
<1> QED  BY <1>1, <1>3, <1>4, <1>5, <1>6 DEF PromisesOK

\* They hold in every reachable state.
LEMMA Delivery == Spec => []DeliveryOK
<1>1. Init => DeliveryOK
  <2> SUFFICES ASSUME Init PROVE DeliveryOK
    OBVIOUS
  <2>1. IndexOK
    BY TaskFacts DEF Init, EmptyStore, IndexOK, Indexed, CameRouted
  <2>2. PromisesOK
    BY DEF Init, PromisesOK, Promise, Outcome
  <2>3. NoSilentLoss /\ ReportsTruthful
    BY DEF Init, NoSilentLoss, ReportsTruthful
  <2> QED  BY <2>1, <2>2, <2>3 DEF DeliveryOK
<1>2. IInv /\ DeliveryOK /\ [Next]_vars => DeliveryOK'
  <2> SUFFICES ASSUME IInv, DeliveryOK, [Next]_vars PROVE DeliveryOK'
    OBVIOUS
  <2>1. CASE Next
    BY <2>1, DeliveryStep
  <2>2. CASE UNCHANGED vars
    <3> USE <2>2 DEF vars, storeVars, workVars, pullVars, netVars, seenVars
    <3>1. IndexOK'
      BY DEF DeliveryOK, IndexOK
    <3>2. PromisesOK'
      BY DEF DeliveryOK, PromisesOK, Promise, Outcome, Envelope, Answered
    <3>3. NoSilentLoss' /\ ReportsTruthful'
      BY DEF DeliveryOK, NoSilentLoss, ReportsTruthful
    <3> QED  BY <3>1, <3>2, <3>3 DEF DeliveryOK
  <2> QED  BY <2>1, <2>2
<1> QED  BY <1>1, <1>2, Invariant, PTL DEF Spec

\* The seller acknowledges a message only when a crash will not lose its request: the
\* request is in the snapshot, or its result has been sent.
THEOREM NothingSilentlyLost == Spec => []NoSilentLoss
  BY Delivery, PTL DEF DeliveryOK

\* Whatever the platform has been told about a request is so: an ACKED request survives a
\* crash, and a completion event follows the result it is about.
THEOREM TruthfulReports == Spec => []ReportsTruthful
  BY Delivery, PTL DEF DeliveryOK

-----------------------------------------------------------------------------
(* One inbox loop executes a request once                                  *)

\* One inbox loop pulls, and it ends a pull before it starts the next.
OneLoop == \A p, q \in Pullers : p = q

\* Requests that nobody sends to POST /tasks.
Unposted == Requests \ PostReqs

\* A task still to be run is the one its request is known by, and has no result.
Owned(ts, ix) ==
  \A t \in TaskIds : ts[t].status \in {"QUEUED", "RUNNING"} /\ ts[t].req \in Unposted
    => ix[ts[t].req] = t /\ ts[t].result = "none"

\* A task on disk is a task in memory, of the same request.
SameRequests ==
  \A t \in TaskIds : disk.tasks[t] \in Task
    => tasks[t] \in Task /\ tasks[t].req = disk.tasks[t].req

\* A worker that has not finished executing has a running task.
Running == \A t \in TaskIds : wpc[t] \in {"delay", "executing"} => tasks[t].status = "RUNNING"

\* Nothing was executed for a task still to be executed, and what was executed is on disk.
Unexecuted ==
  \A t \in TaskIds : /\ tasks[t].status = "QUEUED" \/ wpc[t] = "delay"
                     /\ tasks[t].req \in Unposted
                     => executed[tasks[t].req] = 0

\* A request that was executed is known on disk: a restart does not forget it.
ExecutedKnown == \A r \in Unposted : executed[r] # 0 => disk.index[r] # None

\* While a token is introspected nothing else makes its request known.
IntrospectsUnknown ==
  \A p \in Pullers : ppc[p] = "introspect" /\ Envelope(p).req \in Unposted
    => index[Envelope(p).req] = None

\* The invariant of a single execution.
OnceOK ==
  /\ Owned(tasks, index) /\ Owned(disk.tasks, disk.index) /\ SameRequests
  /\ Running /\ Unexecuted /\ ExecutedKnown /\ IntrospectsUnknown
  /\ AtMostOnce

\* Starting tasks leaves them the tasks their requests are known by.
LEMMA OwnedStart ==
  ASSUME MemoryOK, Owned(tasks, index), NEW busy \in SUBSET TaskIds, MayRun(busy)
  PROVE  /\ Owned(Started(busy), index)
         /\ \A t \in TaskIds : /\ Started(busy)[t].req = tasks[t].req
                               /\ tasks[t] \in Task <=> Started(busy)[t] \in Task
                               /\ Started(busy)[t].status = "QUEUED" => tasks[t].status = "QUEUED"
<1>1. \A t \in TaskIds : /\ Started(busy)[t].req = tasks[t].req
                         /\ Started(busy)[t].result = tasks[t].result
                         /\ \/ Started(busy)[t] = tasks[t]
                            \/ tasks[t].status = "QUEUED" /\ Started(busy)[t].status = "RUNNING"
  BY StartedFields DEF MayRun
<1>2. \A t \in TaskIds : tasks[t] \in Task <=> Started(busy)[t] \in Task
  BY StartStore DEF MayRun
<1>3. \A t \in TaskIds : Started(busy)[t].status \in {"QUEUED", "RUNNING"}
                         => tasks[t].status \in {"QUEUED", "RUNNING"}
  BY <1>1
<1> QED  BY <1>1, <1>2, <1>3 DEF Owned

\* The store's part of OnceOK.
LEMMA OwnedStep ==
  ASSUME IInv, Owned(tasks, index), Owned(disk.tasks, disk.index), SameRequests,
         IntrospectsUnknown, StoreStep
  PROVE  Owned(tasks', index') /\ Owned(disk'.tasks, disk'.index) /\ SameRequests'
<1> DEFINE good == Owned(tasks', index') /\ Owned(disk'.tasks, disk'.index) /\ SameRequests'
<1>0. MemoryOK /\ DiskOK
  BY DEF IInv
<1>a. ASSUME Save, Owned(tasks', index') PROVE good
  BY <1>a DEF Save, SameRequests
<1>1. CASE Kept
  BY <1>1, <1>a DEF Kept, storeVars, SameRequests
<1>b. ASSUME NEW t \in TaskIds, NEW task \in Task, tasks[t] = NoTask, Remember(t, task),
             task.result = "none" \/ task.status = "COMPLETED",
             task.req \in Unposted => index[task.req] = None
      PROVE  Owned(tasks', index')
  <2> SUFFICES ASSUME NEW u \in TaskIds, tasks'[u].status \in {"QUEUED", "RUNNING"},
                      tasks'[u].req \in Unposted
               PROVE  index'[tasks'[u].req] = u /\ tasks'[u].result = "none"
    BY DEF Owned
  <2>1. /\ tasks'[t] = task /\ index'[task.req] = t
        /\ \A v \in TaskIds : v # t => tasks'[v] = tasks[v]
        /\ \A r \in Requests : r # task.req => index'[r] = index[r]
    BY <1>0, <1>b, RememberIndex
  <2>2. CASE u = t
    BY <1>b, <2>1, <2>2
  <2>3. CASE u # t
    <3>1. /\ tasks'[u] = tasks[u] /\ index[tasks[u].req] = u /\ tasks[u].result = "none"
          /\ tasks[u].req \in Unposted
      BY <2>1, <2>3 DEF Owned
    <3>2. tasks[u].req # task.req
      BY <1>b, <3>1, SellerAssumption DEF None, TaskIds
    <3> QED  BY <2>1, <3>1, <3>2 DEF Unposted
  <2> QED  BY <2>2, <2>3
<1>c. ASSUME NEW r \in Requests, Introspecting(r), r \in Unposted PROVE index[r] = None
  BY <1>c DEF Introspecting, IntrospectsUnknown
<1>2. ASSUME NEW t \in TaskIds, NEW r \in Requests, NEW routed \in BOOLEAN,
             Comes(r, routed), Enqueued(t, r, routed)
      PROVE  good
  <2> DEFINE task == NewTask(r, routed)
  <2>1. tasks[t] = NoTask /\ Remember(t, task) /\ Save
    BY <1>2 DEF Enqueued, EnqueueTask, SaveEnqueued
  <2>2. task \in Task /\ task.req = r /\ task.result = "none"
    BY NewTaskFields
  <2>3. r \in Unposted => index[r] = None
    BY <1>2, <1>c DEF Comes, Unposted
  <2> HIDE DEF task
  <2>4. Owned(tasks', index')
    BY <1>b, <2>1, <2>2, <2>3
  <2> QED  BY <1>a, <2>1, <2>4
<1>3. ASSUME NEW t \in TaskIds, NEW r \in Requests, Introspecting(r), Refused(t, r)
      PROVE  good
  <2> DEFINE task == Rejected(r)
  <2>1. tasks[t] = NoTask /\ Remember(t, task) /\ disk' = disk
    BY <1>3 DEF Refused
  <2>2. task \in Task /\ task.req = r /\ task.status = "COMPLETED"
    BY NewTaskFields
  <2> HIDE DEF task
  <2>3. Owned(tasks', index')
    BY <1>3, <1>b, <1>c, <2>1, <2>2
  <2>4. \A u \in TaskIds : u # t => tasks'[u] = tasks[u]
    BY <1>0, <2>1, <2>2, RememberIndex
  <2>5. disk.tasks[t] \notin Task
    BY <2>1, TaskFacts DEF SameRequests
  <2>6. SameRequests'
    BY <2>1, <2>4, <2>5 DEF SameRequests
  <2> QED  BY <2>1, <2>3, <2>6
<1>4. ASSUME NEW busy \in SUBSET TaskIds, MayRun(busy), NEW stage, Schedule(busy, stage)
      PROVE  good
  <2>1. tasks' = Started(busy) /\ index' = index /\ (disk' = disk \/ Save)
    BY <1>4 DEF Schedule, SaveStarted
  <2>2. Owned(tasks', index') /\ \A t \in TaskIds : /\ tasks'[t].req = tasks[t].req
                                                    /\ tasks[t] \in Task <=> tasks'[t] \in Task
    BY <1>0, <1>4, <2>1, OwnedStart
  <2>3. CASE disk' = disk
    BY <2>2, <2>3 DEF SameRequests
  <2>4. CASE Save
    BY <1>a, <2>2, <2>4
  <2> QED  BY <2>1, <2>3, <2>4
<1>5. ASSUME NEW t \in TaskIds, NEW task, Worked(t, task) PROVE good
  <2>1. /\ tasks' = [tasks EXCEPT ![t] = task] /\ index' = index /\ task \in Task
        /\ task.req = tasks[t].req
        /\ task.status \in {"QUEUED", "RUNNING"} =>
             task.status = tasks[t].status /\ task.result = tasks[t].result
        /\ disk' = disk \/ Save
    BY <1>5 DEF Worked
  <2>2. tasks[t] \in Task
    BY <1>5 DEF Worked, IInv, WorkersOK
  <2>3. \A u \in TaskIds : /\ tasks'[u].req = tasks[u].req
                           /\ tasks[u] \in Task <=> tasks'[u] \in Task
                           /\ tasks'[u].status \in {"QUEUED", "RUNNING"} =>
                                /\ tasks'[u].status = tasks[u].status
                                /\ tasks'[u].result = tasks[u].result
    BY <1>0, <2>1, <2>2 DEF MemoryOK, StoreOK
  <2>4. Owned(tasks', index')
    BY <2>1, <2>3 DEF Owned
  <2>5. CASE disk' = disk
    BY <2>3, <2>4, <2>5 DEF SameRequests
  <2>6. CASE Save
    BY <1>a, <2>4, <2>6
  <2> QED  BY <2>1, <2>5, <2>6
<1>6. ASSUME NEW snapshot, Reloaded(snapshot) PROVE good
  <2>1. disk' = snapshot /\ tasks' = snapshot.tasks /\ index' = snapshot.index
    BY <1>6 DEF Reloaded, Boot
  <2>2. Owned(snapshot.tasks, snapshot.index)
    <3>1. ASSUME NEW busy \in SUBSET TaskIds, MayRun(busy),
                 snapshot = Snapshot(Started(busy), index, Remaining(busy))
          PROVE  Owned(snapshot.tasks, snapshot.index)
      <4>1. Owned(Started(busy), index)
        BY <1>0, <3>1, OwnedStart
      <4> QED  BY <3>1, <4>1 DEF Snapshot
    <3> QED  BY <1>6, <3>1 DEF Reloaded
  <2> QED  BY <2>1, <2>2 DEF SameRequests
<1> QED  BY <1>1, <1>2, <1>3, <1>4, <1>5, <1>6 DEF StoreStep

\* How a worker gets to its execution.
LEMMA DelayTasks ==
  ASSUME IInv, Next, NEW t \in TaskIds, wpc'[t] \in {"delay", "executing"}
  PROVE  \/ wpc[t] = wpc'[t] /\ tasks'[t] = tasks[t]
         \/ wpc'[t] = "executing" /\ BeginExecution(t)
         \/ /\ wpc'[t] = "delay" /\ tasks[t].status = "QUEUED"
            /\ tasks'[t].status = "RUNNING" /\ tasks'[t].req = tasks[t].req
<1> DEFINE same == wpc[t] = wpc'[t] /\ tasks'[t] = tasks[t]
           starts == /\ wpc'[t] = "delay" /\ tasks[t].status = "QUEUED"
                     /\ tasks'[t].status = "RUNNING" /\ tasks'[t].req = tasks[t].req
<1>0. MemoryOK /\ WorkersOK
  BY DEF IInv
<1>a. ASSUME NEW busy \in SUBSET TaskIds, MayRun(busy), NEW stage, Schedule(busy, stage)
      PROVE  starts \/ (stage[t] = wpc'[t] /\ tasks'[t] = tasks[t])
  <2>1. CASE t \in ToStart(busy)
    <3>1. /\ tasks[t].status = "QUEUED" /\ Started(busy)[t].status = "RUNNING"
          /\ Started(busy)[t].req = tasks[t].req
      BY <1>0, <1>a, <2>1, StartStore, StartedFields DEF MayRun
    <3> QED  BY <1>a, <2>1, <3>1 DEF Schedule
  <2>2. CASE t \notin ToStart(busy)
    BY <1>0, <1>a, <2>2, StartStore DEF Schedule, MayRun
  <2> QED  BY <2>1, <2>2
<1>b. active \in SUBSET TaskIds /\ MayRun(active)
  BY ActiveMayRun DEF MayRun
<1>c. ASSUME NEW u \in TaskIds, tasks[u] = NoTask, NEW task, Remember(u, task), UNCHANGED workVars
      PROVE  same
  <2>1. wpc[t] = wpc'[t] /\ u # t
    BY <1>0, <1>c, TaskFacts DEF workVars, WorkersOK
  <2> QED  BY <1>0, <1>c, <2>1 DEF Remember, MemoryOK, StoreOK
<1>1. ASSUME NEW r \in Requests, SendRequest(r) PROVE same
  BY <1>1 DEF SendRequest, storeVars, workVars
<1>2. ASSUME NEW r \in Requests, PostTask(r) PROVE same
  <2>1. /\ created < MaxTasks /\ UNCHANGED workVars
        /\ \E routed \in BOOLEAN : Remember(created + 1, NewTask(r, routed))
    BY <1>2 DEF PostTask, EnqueueTask
  <2>2. created + 1 \in TaskIds /\ created + 1 > created
    BY <2>1, SellerAssumption DEF IInv, IdsFresh, TaskIds
  <2>3. tasks[created + 1] = NoTask
    BY <2>2 DEF IInv, IdsFresh
  <2> QED  BY <1>c, <2>1, <2>2, <2>3
<1>3. ASSUME NEW p \in Pullers, PullStep(p) PROVE same \/ starts
  <2>1. CASE AcceptTask(p) \/ RejectTask(p)
    <3>1. ppc[p] = "introspect" /\ UNCHANGED workVars /\ \E task : Remember(cand[p], task)
      BY <2>1 DEF AcceptTask, RejectTask, EnqueueTask
    <3>2. cand[p] \in TaskIds /\ tasks[cand[p]] = NoTask
      BY <3>1, CandFacts DEF IInv, CoreOK
    <3> QED  BY <1>c, <3>1, <3>2
  <2>2. CASE ScheduleAccepted(p)
    BY <2>2, <1>a, <1>b DEF ScheduleAccepted
  <2>3. CASE ~AcceptTask(p) /\ ~RejectTask(p) /\ ~ScheduleAccepted(p)
    BY <1>3, <2>3 DEF PullStep, PollInbox, SkipEnvelope, ReceiveEnvelope, AckDuplicate,
                ReplayResult, CreateTask, IntrospectionFails, ReportRejected, AckPlatform,
                SaveHandled, AckHandled, storeVars, workVars
  <2> QED  BY <2>1, <2>2, <2>3
<1>4. ASSUME NEW u \in TaskIds, WorkStep(u)
      PROVE  same \/ starts \/ (wpc'[t] = "executing" /\ BeginExecution(t))
  <2>1. CASE ExecutorReturns(u) \/ ExecutorThrows(u) \/ FailTask(u)
    <3>1. \E res : FinalizeTask(u, res)
      BY <2>1 DEF ExecutorReturns, ExecutorThrows, FailTask
    <3> QED  BY <1>0, <3>1 DEF FinalizeTask, Stage, WorkersOK, MemoryOK, StoreOK
  <2>2. CASE ExecutorDefers(u)
    BY <1>0, <2>2 DEF ExecutorDefers, Stage, WorkersOK, MemoryOK, StoreOK
  <2>3. CASE Reschedule(u)
    <3>1. starts \/ ([wpc EXCEPT ![u] = "none"][t] = wpc'[t] /\ tasks'[t] = tasks[t])
      BY <2>3, <1>a, <1>b DEF Reschedule
    <3> QED  BY <1>0, <3>1 DEF WorkersOK
  <2>4. CASE UnhandledRejection(u)
    BY <2>4 DEF UnhandledRejection, Boot
  <2>5. CASE PostLifecycleEvent(u) \/ ReportResult(u) \/ SaveOutcome(u) \/ ReleaseWorker(u)
    <3>1. tasks' = tasks /\ \E label : label \notin {"delay", "executing"} /\ Stage(u, label)
      BY <2>5 DEF PostLifecycleEvent, ReportResult, SaveOutcome, ReleaseWorker, storeVars
    <3> QED  BY <1>0, <3>1 DEF Stage, WorkersOK
  <2>6. CASE BeginExecution(u)
    <3>1. tasks' = tasks /\ wpc' = [wpc EXCEPT ![u] = "executing"]
      BY <2>6 DEF BeginExecution, Stage, storeVars
    <3>2. CASE u = t
      BY <1>0, <2>6, <3>1, <3>2 DEF WorkersOK
    <3>3. CASE u # t
      BY <1>0, <3>1, <3>3 DEF WorkersOK
    <3> QED  BY <3>2, <3>3
  <2> QED  BY <1>4, <2>1, <2>2, <2>3, <2>4, <2>5, <2>6 DEF WorkStep
<1>5. ASSUME SchedulePosted PROVE same \/ starts
  BY <1>5, <1>a, <1>b DEF SchedulePosted
<1>6. ASSUME Heartbeat PROVE same
  BY <1>6 DEF Heartbeat, storeVars, workVars
<1>7. ~Crash
  BY DEF Crash, Boot
<1> QED  BY <1>1, <1>2, <1>3, <1>4, <1>5, <1>6, <1>7 DEF Next

\* A worker that waits or executes holds a RUNNING task.
LEMMA RunningStep ==
  ASSUME IInv, Running, Next
  PROVE  Running'
<1> SUFFICES ASSUME NEW t \in TaskIds, wpc'[t] \in {"delay", "executing"}
             PROVE  tasks'[t].status = "RUNNING"
  BY DEF Running
<1>1. CASE wpc[t] = wpc'[t] /\ tasks'[t] = tasks[t]
  BY <1>1 DEF Running
<1>2. CASE BeginExecution(t)
  BY <1>2 DEF BeginExecution, storeVars, Running
<1> QED  BY <1>1, <1>2, DelayTasks

\* How a task gets into the queue: a restart brings none back.
LEMMA QueuedTasks ==
  ASSUME IInv, OrderOK, SameRequests, StoreStep, NEW t \in TaskIds, tasks'[t].status = "QUEUED"
  PROVE  \/ tasks[t].status = "QUEUED" /\ tasks'[t].req = tasks[t].req
         \/ tasks'[t].req \in PostReqs \/ Introspecting(tasks'[t].req)
<1> DEFINE was == tasks[t].status = "QUEUED" /\ tasks'[t].req = tasks[t].req
<1>0. MemoryOK /\ DiskOK
  BY DEF IInv
<1>1. CASE Kept
  BY <1>1 DEF Kept, storeVars
<1>2. ASSUME NEW u \in TaskIds, NEW r \in Requests, NEW routed \in BOOLEAN,
             Comes(r, routed), Enqueued(u, r, routed)
      PROVE  was \/ tasks'[t].req \in PostReqs \/ Introspecting(tasks'[t].req)
  <2> DEFINE task == NewTask(r, routed)
  <2>1. tasks[u] = NoTask /\ Remember(u, task) /\ task \in Task /\ task.req = r
    BY <1>2, NewTaskFields DEF Enqueued, EnqueueTask
  <2> HIDE DEF task
  <2>2. tasks'[u] = task /\ \A v \in TaskIds : v # u => tasks'[v] = tasks[v]
    BY <1>0, <2>1, RememberIndex
  <2>3. CASE t = u
    BY <1>2, <2>1, <2>2, <2>3 DEF Comes
  <2>4. CASE t # u
    BY <2>2, <2>4
  <2> QED  BY <2>3, <2>4
<1>3. ASSUME NEW u \in TaskIds, NEW r \in Requests, Refused(u, r) PROVE was
  <2>1. /\ tasks' = [tasks EXCEPT ![u] = Rejected(r)] /\ Rejected(r).status = "COMPLETED"
    BY <1>3, NewTaskFields DEF Refused, Remember
  <2> QED  BY <1>0, <2>1 DEF MemoryOK, StoreOK
<1>4. ASSUME NEW busy \in SUBSET TaskIds, MayRun(busy), tasks' = Started(busy) PROVE was
  BY <1>0, <1>4, StartedFields DEF MayRun
<1>5. ASSUME NEW u \in TaskIds, NEW task, Worked(u, task) PROVE was
  <2>1. /\ tasks' = [tasks EXCEPT ![u] = task] /\ tasks[u].status # "QUEUED"
        /\ task.status = tasks[u].status \/ task.status = "COMPLETED"
    BY <1>5 DEF Worked, IInv, WorkersOK
  <2> QED  BY <1>0, <2>1 DEF MemoryOK, StoreOK
<1>6. ASSUME NEW snapshot, Reloaded(snapshot) PROVE was
  <2>1. tasks' = snapshot.tasks
    BY <1>6 DEF Reloaded, Boot
  <2>2. CASE snapshot = disk
    <3>1. disk.tasks[t].status = "QUEUED" /\ disk.tasks[t] \in MaybeTask
      BY <1>0, <2>1, <2>2 DEF DiskOK, StoreOK
    <3>2. disk.tasks[t] \in Task
      BY <3>1, TaskFacts
    <3>3. \E i \in DOMAIN disk.queue : disk.queue[i] = t
      BY <1>0, <3>1 DEF DiskOK, StoreOK, QueueMatches
    <3>4. tasks[t].status = "QUEUED"
      BY <1>0, <3>3 DEF OrderOK, MemoryOK, StoreOK, QueueMatches
    <3> QED  BY <2>1, <2>2, <3>2, <3>4 DEF SameRequests
  <2>3. ASSUME NEW busy \in SUBSET TaskIds, MayRun(busy),
               snapshot = Snapshot(Started(busy), index, Remaining(busy))
        PROVE  was
    BY <1>4, <2>1, <2>3 DEF Snapshot
  <2> QED  BY <1>6, <2>2, <2>3 DEF Reloaded
<1> QED  BY <1>1, <1>2, <1>3, <1>4, <1>5, <1>6 DEF StoreStep, Schedule

\* What introspects has not been executed.
LEMMA IntrospectedFresh ==
  ASSUME IndexOK, ExecutedKnown, IntrospectsUnknown, NEW r \in Unposted, Introspecting(r)
  PROVE  executed[r] = 0
<1>1. index[r] = None
  BY DEF IntrospectsUnknown, Introspecting
<1>2. disk.index[r] = None
  BY <1>1 DEF IndexOK, Unposted
<1> QED  BY <1>2 DEF ExecutedKnown

\* Only BeginExecution calls the executor.
LEMMA ExecutedFrame ==
  ASSUME Next
  PROVE  executed' = executed \/ \E t \in TaskIds : BeginExecution(t)
<1>1. ASSUME NEW p \in Pullers, PullStep(p) PROVE executed' = executed
  BY <1>1 DEF PullStep, PollInbox, SkipEnvelope, ReceiveEnvelope, AckDuplicate, ReplayResult,
              CreateTask, IntrospectionFails, RejectTask, ReportRejected, AcceptTask,
              ScheduleAccepted, AckPlatform, SaveHandled, AckHandled, seenVars
<1>2. ASSUME NEW t \in TaskIds, WorkStep(t), ~BeginExecution(t) PROVE executed' = executed
  BY <1>2 DEF WorkStep, ExecutorReturns, ExecutorThrows, ExecutorDefers, FailTask, FinalizeTask,
              PostLifecycleEvent, ReportResult, SaveOutcome, ReleaseWorker, Reschedule,
              UnhandledRejection, seenVars
<1>3. ASSUME \/ \E r \in Requests : SendRequest(r) \/ PostTask(r)
             \/ SchedulePosted \/ Heartbeat \/ Crash
      PROVE  executed' = executed
  BY <1>3 DEF SendRequest, PostTask, SchedulePosted, Heartbeat, Crash, seenVars
<1> QED  BY <1>1, <1>2, <1>3 DEF Next

\* A worker that starts to execute is the first for its request.
LEMMA ExecuteOnce ==
  ASSUME IInv, IndexOK, OnceOK, Next, NEW t \in TaskIds, BeginExecution(t)
  PROVE  Unexecuted' /\ ExecutedKnown' /\ AtMostOnce'
<1> DEFINE r == tasks[t].req
<1>1. /\ wpc[t] = "delay" /\ wpc' = [wpc EXCEPT ![t] = "executing"]
      /\ executed' = [executed EXCEPT ![r] = @ + 1]
      /\ UNCHANGED <<tasks, index, disk>>
  BY DEF BeginExecution, Stage, storeVars
<1>2. tasks[t] \in Task /\ tasks[t].status = "RUNNING" /\ r \in Requests
  BY <1>1 DEF IInv, WorkersOK, OnceOK, Running, Task
<1>3. r \in Unposted => index[r] = t /\ tasks[t].result = "none" /\ executed[r] = 0
  BY <1>1, <1>2 DEF OnceOK, Owned, Unexecuted
<1>4. executed \in [Requests -> Nat] /\ wpc \in [TaskIds -> WorkLabels]
  BY DEF IInv, NetOK, WorkersOK
<1> HIDE DEF r
<1>5. executed'[r] = executed[r] + 1 /\ \A q \in Requests : q # r => executed'[q] = executed[q]
  BY <1>1, <1>2, <1>4
<1>6. ASSUME NEW u \in TaskIds, tasks'[u].status = "QUEUED" \/ wpc'[u] = "delay",
             tasks'[u].req \in Unposted
      PROVE  executed'[tasks'[u].req] = 0
  <2>1. tasks[u].status = "QUEUED" \/ wpc[u] = "delay"
    BY <1>1, <1>4, <1>6
  <2>2. executed[tasks[u].req] = 0 /\ tasks[u].req \in Unposted
    BY <1>1, <1>6, <2>1 DEF OnceOK, Unexecuted
  <2>3. u # t
    BY <1>1, <1>2, <1>4, <1>6
  <2>4. tasks[u].status \in {"QUEUED", "RUNNING"}
    BY <2>1 DEF OnceOK, Running
  <2>5. index[tasks[u].req] = u
    BY <2>2, <2>4 DEF OnceOK, Owned
  <2>6. tasks[u].req # r
    BY <1>3, <2>2, <2>3, <2>5
  <2> QED  BY <1>1, <1>5, <2>2, <2>6 DEF Unposted
<1>7. ASSUME NEW q \in Unposted, executed'[q] # 0 PROVE disk'.index[q] # None
  <2>1. CASE q # r
    BY <1>1, <1>5, <1>7, <2>1 DEF OnceOK, ExecutedKnown, Unposted
  <2>2. CASE q = r
    <3>1. index[r] # None /\ tasks[index[r]].result = "none"
      BY <1>3, <1>7, <2>2, SellerAssumption DEF None, TaskIds
    <3> QED  BY <1>1, <1>2, <2>2, <3>1 DEF IndexOK
  <2> QED  BY <2>1, <2>2
<1>8. ASSUME NEW q \in Requests \ PostReqs PROVE executed'[q] <= 1
  <2>1. CASE q # r
    BY <1>5, <2>1 DEF OnceOK, AtMostOnce
  <2>2. CASE q = r
    <3>1. executed'[r] = 0 + 1
      BY <1>3, <1>5, <2>2 DEF Unposted
    <3> QED  BY <2>2, <3>1
  <2> QED  BY <2>1, <2>2
<1> QED  BY <1>6, <1>7, <1>8 DEF Unexecuted, ExecutedKnown, AtMostOnce

\* With one loop, nothing but the loop and POST makes a request known.
LEMMA IntrospectsStep ==
  ASSUME IInv, OneLoop, IntrospectsUnknown, Next
  PROVE  IntrospectsUnknown'
<1> SUFFICES ASSUME NEW p \in Pullers, ppc'[p] = "introspect", Envelope(p)'.req \in Unposted
             PROVE  index'[Envelope(p)'.req] = None
  BY DEF IntrospectsUnknown
<1>0. ppc \in [Pullers -> PullLabels]
  BY DEF IInv, PullsOK
<1>1. ASSUME NEW q \in Pullers, PullStep(q) PROVE index'[Envelope(p)'.req] = None
  <2>1. q = p
    BY DEF OneLoop
  <2>2. CASE CreateTask(p)
    BY <2>2 DEF CreateTask, Known, storeVars, Envelope
  <2>3. CASE ~CreateTask(p)
    <3>1. ppc'[p] # "introspect"
      BY <1>0, <1>1, <2>1, <2>3 DEF PullStep, PollInbox, SkipEnvelope, ReceiveEnvelope,
            AckDuplicate, ReplayResult, IntrospectionFails, RejectTask, ReportRejected, AcceptTask,
            ScheduleAccepted, AckPlatform, SaveHandled, AckHandled, AckEnvelope, Proceed, Abort, Goto
    <3> QED  BY <3>1
  <2> QED  BY <2>2, <2>3
<1>2. ASSUME UNCHANGED pullVars,
             UNCHANGED index \/ \E r \in Requests : PostTask(r)
      PROVE  index'[Envelope(p)'.req] = None
  <2>1. /\ ppc[p] = "introspect" /\ Envelope(p)' = Envelope(p)
    BY <1>2 DEF pullVars, Envelope
  <2>2. index[Envelope(p).req] = None /\ Envelope(p).req \in Unposted
    BY <2>1 DEF IntrospectsUnknown
  <2>3. CASE UNCHANGED index
    BY <2>1, <2>2, <2>3
  <2>4. ASSUME NEW r \in Requests, PostTask(r) PROVE index'[Envelope(p)'.req] = None
    <3>1. r \in PostReqs /\ index' = [index EXCEPT ![r] = created + 1]
      BY <2>4 DEF PostTask, EnqueueTask, Remember, NewTask
    <3>2. index \in [Requests -> 0..MaxTasks] /\ Envelope(p).req # r
      BY <2>2, <3>1 DEF IInv, MemoryOK, StoreOK, Unposted
    <3> QED  BY <2>1, <2>2, <3>1, <3>2 DEF Unposted
  <2> QED  BY <1>2, <2>3, <2>4
<1>3. ASSUME NEW r \in Requests, SendRequest(r) PROVE UNCHANGED pullVars /\ UNCHANGED index
  BY <1>3 DEF SendRequest, storeVars
<1>4. ASSUME NEW r \in Requests, PostTask(r) PROVE UNCHANGED pullVars
  BY <1>4 DEF PostTask
<1>5. ASSUME NEW t \in TaskIds, WorkStep(t) PROVE UNCHANGED pullVars /\ UNCHANGED index
  <2>1. ~UnhandledRejection(t)
    BY DEF UnhandledRejection, Boot
  <2> QED  BY <1>5, <2>1 DEF WorkStep, BeginExecution, ExecutorReturns, ExecutorThrows,
             ExecutorDefers, FailTask, FinalizeTask, PostLifecycleEvent, ReportResult, SaveOutcome,
             ReleaseWorker, Reschedule, Schedule, storeVars
<1>6. ASSUME SchedulePosted \/ Heartbeat PROVE UNCHANGED pullVars /\ UNCHANGED index
  BY <1>6 DEF SchedulePosted, Heartbeat, Schedule, storeVars
<1>7. ~Crash
  BY DEF Crash, Boot
<1> QED  BY <1>1, <1>2, <1>3, <1>4, <1>5, <1>6, <1>7 DEF Next

\* Every step keeps the invariant of a single execution.
LEMMA OnceStep ==
  ASSUME IInv, OrderOK, IndexOK, OneLoop, OnceOK, Next
  PROVE  OnceOK'
<1>1. /\ Owned(tasks', index') /\ Owned(disk'.tasks, disk'.index) /\ SameRequests'
      /\ Running' /\ IntrospectsUnknown'
  BY NextStore, OwnedStep, RunningStep, IntrospectsStep DEF OnceOK
<1>2. CASE \E t \in TaskIds : BeginExecution(t)
  BY <1>1, <1>2, ExecuteOnce DEF OnceOK
<1>3. CASE executed' = executed /\ ~\E t \in TaskIds : BeginExecution(t)
  <2>1. AtMostOnce'
    BY <1>3 DEF OnceOK, AtMostOnce
  <2>2. ExecutedKnown'
    BY <1>3, NextStore, IndexStep DEF OnceOK, ExecutedKnown, Unposted
  <2>3. ASSUME NEW t \in TaskIds, tasks'[t].status = "QUEUED" \/ wpc'[t] = "delay",
               tasks'[t].req \in Unposted
        PROVE  executed'[tasks'[t].req] = 0
    <3>1. CASE tasks'[t].status = "QUEUED"
      <4>1. CASE tasks[t].status = "QUEUED" /\ tasks'[t].req = tasks[t].req
        BY <1>3, <2>3, <4>1 DEF OnceOK, Unexecuted
      <4>2. CASE Introspecting(tasks'[t].req)
        BY <1>3, <2>3, <4>2, IntrospectedFresh DEF OnceOK
      <4>3. tasks'[t].req \notin PostReqs
        BY <2>3 DEF Unposted
      <4> QED  BY <3>1, <4>1, <4>2, <4>3, NextStore, QueuedTasks DEF OnceOK
    <3>2. CASE wpc'[t] = "delay"
      <4>1. CASE wpc[t] = "delay" /\ tasks'[t] = tasks[t]
        BY <1>3, <2>3, <4>1 DEF OnceOK, Unexecuted
      <4>2. CASE tasks[t].status = "QUEUED" /\ tasks'[t].req = tasks[t].req
        BY <1>3, <2>3, <4>2 DEF OnceOK, Unexecuted
      <4> QED  BY <3>2, <4>1, <4>2, DelayTasks
    <3> QED  BY <2>3, <3>1, <3>2
  <2>4. Unexecuted'
    BY <2>3 DEF Unexecuted
  <2> QED  BY <1>1, <2>1, <2>2, <2>4 DEF OnceOK
<1> QED  BY <1>2, <1>3, ExecutedFrame

\* It holds in every reachable state, when one loop pulls.
LEMMA Once ==
  ASSUME OneLoop
  PROVE  Spec => []OnceOK
<1>1. Init => OnceOK
  <2> SUFFICES ASSUME Init PROVE OnceOK
    OBVIOUS
  <2> USE DEF Init, EmptyStore
  <2>1. Owned(tasks, index) /\ Owned(disk.tasks, disk.index) /\ SameRequests
    BY TaskFacts DEF Owned, SameRequests, NoTask
  <2>2. Running /\ Unexecuted /\ ExecutedKnown /\ IntrospectsUnknown
    BY TaskFacts DEF Running, Unexecuted, ExecutedKnown, IntrospectsUnknown, Unposted
  <2>3. AtMostOnce
    BY DEF AtMostOnce
  <2> QED  BY <2>1, <2>2, <2>3 DEF OnceOK
<1>2. IInv /\ OrderOK /\ DeliveryOK /\ OnceOK /\ [Next]_vars => OnceOK'
  <2> SUFFICES ASSUME IInv, OrderOK, DeliveryOK, OnceOK, [Next]_vars PROVE OnceOK'
    OBVIOUS
  <2>1. CASE Next
    BY <2>1, OnceStep DEF DeliveryOK
  <2>2. CASE UNCHANGED vars
    BY <2>2 DEF vars, storeVars, workVars, pullVars, seenVars, OnceOK, Owned, SameRequests, Running,
                Unexecuted, ExecutedKnown, IntrospectsUnknown, AtMostOnce, Envelope
  <2> QED  BY <2>1, <2>2
<1> QED  BY <1>1, <1>2, Invariant, Ordered, Delivery, PTL DEF Spec

\* One inbox loop executes a request that is not also posted at most once, however often
\* its message is delivered, whichever calls fail and whenever the process crashes.
THEOREM ExecutedAtMostOnce ==
  ASSUME OneLoop
  PROVE  Spec => []AtMostOnce
<1>1. OnceOK => AtMostOnce
  BY DEF OnceOK
<1> QED  BY <1>1, Once, PTL

-----------------------------------------------------------------------------
(* One result per request                                                  *)

\* The process is not killed, and no call fails once a result exists.
Steady == MaxCrashes = 0 /\ {"resultSend", "resultMetric"} \cap FaultyCalls = {}

\* No worker is in the error path of executeTask.
NeverFailing == \A t \in TaskIds : wpc[t] \notin {"failing", "rejecting"}

\* What was sent for a request nobody posts is the result of the task it is known by.
Settled ==
  \A r \in Unposted : \A res \in Results : <<r, res>> \in sent
    => index[r] # None /\ tasks[index[r]].result = res /\ res # "none"

\* While a token is introspected its request, when nobody posts it, has no answer and no task.
Unanswered(p) ==
  ppc[p] = "introspect" /\ Envelope(p).req \in Unposted =>
    /\ ~Answered(Envelope(p).req)
    /\ \A t \in TaskIds : ~(tasks[t] \in Task /\ tasks[t].req = Envelope(p).req)

\* Every task's request is known; a task still to be run has no result, and of a request
\* nobody posts it is the one the request is known by.
TasksKnown ==
  \A t \in TaskIds :
    /\ tasks[t] \in Task => index[tasks[t].req] # None
    /\ tasks[t].status \in {"QUEUED", "RUNNING"} =>
         tasks[t].result = "none" /\ (tasks[t].req \in Unposted => index[tasks[t].req] = t)

\* The invariant of a single result.
SteadyOK ==
  /\ NeverFailing /\ Running /\ Settled /\ TasksKnown
  /\ \A p \in Pullers : Unanswered(p)

\* No call that sends a result, or counts one, fails.
LEMMA NoneFails ==
  ASSUME Steady, NEW c \in {"resultSend", "resultMetric"}, NEW o, Attempt(c, o)
  PROVE  o = "ok"
  BY DEF Steady, Attempt

\* Without those failures and without crashes the process never starts again.
LEMMA NeverRestarts ==
  ASSUME IInv, Steady, NeverFailing, Next
  PROVE  ~Crash /\ (\A t \in TaskIds : ~UnhandledRejection(t) /\ ~FailTask(t)) /\ UNCHANGED boots
<1>1. ~Crash
  <2>1. crashes \in Nat
    BY DEF IInv, NetOK
  <2>2. ~(crashes < 0)
    BY <2>1
  <2> QED  BY <2>2 DEF Crash, Steady
<1>2. \A t \in TaskIds : ~UnhandledRejection(t) /\ ~FailTask(t)
  BY DEF NeverFailing, UnhandledRejection, FailTask
<1>3. UNCHANGED boots
  <2>1. \A p \in Pullers : PullStep(p) => UNCHANGED boots
    BY PullFrame
  <2> QED  BY <1>1, <1>2, <2>1 DEF Next, SendRequest, PostTask, SchedulePosted, Heartbeat,
             WorkStep, BeginExecution, ExecutorReturns, ExecutorThrows, ExecutorDefers,
             FinalizeTask, PostLifecycleEvent, ReportResult, SaveOutcome,
             ReleaseWorker, Reschedule, lifeVars
<1> QED  BY <1>1, <1>2, <1>3

\* Without those failures no worker enters the error path.
LEMMA NeverFailingStep ==
  ASSUME IInv, Steady, NeverFailing, Next
  PROVE  NeverFailing'
<1>0. wpc \in [TaskIds -> WorkLabels]
  BY DEF IInv, WorkersOK
<1>a. ~Crash /\ \A t \in TaskIds : ~UnhandledRejection(t) /\ ~FailTask(t)
  BY NeverRestarts
<1>b. ASSUME UNCHANGED wpc PROVE NeverFailing'
  BY <1>b DEF NeverFailing
<1>c. ASSUME NEW t \in TaskIds, NEW label, label \notin {"failing", "rejecting"}, Stage(t, label)
      PROVE  NeverFailing'
  BY <1>0, <1>c DEF Stage, NeverFailing
<1>d. ASSUME NEW busy, Schedule(busy, wpc) PROVE NeverFailing'
  BY <1>d DEF Schedule, NeverFailing
<1>1. ASSUME NEW t \in TaskIds, WorkStep(t) PROVE NeverFailing'
  <2>1. ASSUME NEW res, FinalizeTask(t, res) PROVE NeverFailing'
    <3>1. PICK o : /\ SendResult(tasks[t].req, res, tasks[t].routed, "resultSend", o)
                   /\ Stage(t, IF o = "ok" THEN "event"
                               ELSE IF res = "runtime_error" THEN "rejecting" ELSE "failing")
      BY <2>1 DEF FinalizeTask
    <3>2. o = "ok"
      BY <3>1, NoneFails DEF SendResult
    <3> QED  BY <1>c, <3>1, <3>2
  <2>2. CASE ReportResult(t)
    <3>1. PICK o : /\ Attempt("resultMetric", o)
                   /\ Stage(t, IF o = "ok" THEN "save"
                       ELSE IF tasks[t].result = "runtime_error" THEN "rejecting" ELSE "failing")
      BY <2>2 DEF ReportResult
    <3>2. o = "ok"
      BY <3>1, NoneFails
    <3> QED  BY <1>c, <3>1, <3>2
  <2>3. CASE Reschedule(t)
    <3> DEFINE stage == [wpc EXCEPT ![t] = "none"]
    <3>1. Schedule(active, stage)
      BY <2>3 DEF Reschedule
    <3>2. \A u \in TaskIds : stage[u] \notin {"failing", "rejecting"}
      BY <1>0 DEF NeverFailing
    <3> HIDE DEF stage
    <3> QED  BY <3>1, <3>2 DEF Schedule, NeverFailing
  <2>4. CASE \/ BeginExecution(t) \/ ExecutorDefers(t) \/ PostLifecycleEvent(t) \/ SaveOutcome(t)
             \/ ReleaseWorker(t)
    <3>1. \E label : label \notin {"failing", "rejecting"} /\ Stage(t, label)
      BY <2>4 DEF BeginExecution, ExecutorDefers, PostLifecycleEvent, SaveOutcome, ReleaseWorker
    <3> QED  BY <1>c, <3>1
  <2> QED  BY <1>1, <1>a, <2>1, <2>2, <2>3, <2>4 DEF WorkStep, ExecutorReturns, ExecutorThrows
<1>2. ASSUME NEW p \in Pullers, PullStep(p) PROVE NeverFailing'
  <2>1. CASE ScheduleAccepted(p)
    BY <1>d, <2>1 DEF ScheduleAccepted
  <2>2. CASE ~ScheduleAccepted(p)
    BY <1>2, <1>b, <2>2 DEF PullStep, PollInbox, SkipEnvelope, ReceiveEnvelope, AckDuplicate,
          ReplayResult, CreateTask, IntrospectionFails, RejectTask, ReportRejected, AcceptTask,
          AckPlatform, SaveHandled, AckHandled, workVars
  <2> QED  BY <2>1, <2>2
<1> QED  BY <1>1, <1>2, <1>a, <1>b, <1>d DEF Next, SendRequest, PostTask, SchedulePosted, Heartbeat,
                                          workVars

\* A new task, of a request that may be posted or has no task.
LEMMA KnownRemember ==
  ASSUME IInv, TasksKnown, NEW t \in TaskIds, NEW task \in Task, tasks[t] = NoTask,
         Remember(t, task), task.result = "none" \/ task.status = "COMPLETED",
         \A u \in TaskIds :
           tasks[u] \in Task /\ tasks[u].req = task.req => tasks[u].req \notin Unposted
  PROVE  TasksKnown'
<1>1. /\ t # None /\ tasks'[t] = task /\ index'[task.req] = t
      /\ \A u \in TaskIds : u # t => tasks'[u] = tasks[u]
      /\ \A r \in Requests : r # task.req => index'[r] = index[r]
  BY RememberIndex DEF IInv
<1>2. ASSUME NEW u \in TaskIds
      PROVE  /\ tasks'[u] \in Task => index'[tasks'[u].req] # None
             /\ tasks'[u].status \in {"QUEUED", "RUNNING"} =>
                  /\ tasks'[u].result = "none"
                  /\ tasks'[u].req \in Unposted => index'[tasks'[u].req] = u
  <2>1. CASE u = t
    BY <1>1, <2>1
  <2>2. CASE u # t /\ tasks[u] \in Task
    <3>1. tasks'[u] = tasks[u] /\ tasks[u].req \in Requests
      BY <1>1, <2>2 DEF Task
    <3>2. CASE tasks[u].req = task.req
      BY <1>1, <2>2, <3>1, <3>2 DEF TasksKnown
    <3>3. CASE tasks[u].req # task.req
      BY <1>1, <2>2, <3>1, <3>3 DEF TasksKnown
    <3> QED  BY <3>2, <3>3
  <2>3. CASE u # t /\ tasks[u] \notin Task
    <3>1. tasks'[u] = NoTask
      BY <1>1, <2>3 DEF IInv, MemoryOK, StoreOK, MaybeTask
    <3> QED  BY <3>1, TaskFacts DEF NoTask
  <2> QED  BY <2>1, <2>2, <2>3
<1> QED  BY <1>2 DEF TasksKnown

\* Between restarts a request nobody posts stays known by its task.
LEMMA KnownStep ==
  ASSUME IInv, SteadyOK, StoreStep, ~Rebooting
  PROVE  TasksKnown'
<1>0. MemoryOK /\ TasksKnown
  BY DEF IInv, SteadyOK
<1>1. CASE Kept
  BY <1>0, <1>1 DEF Kept, storeVars, TasksKnown
<1>a. ASSUME NEW r \in Requests, Introspecting(r) \/ r \in PostReqs, NEW u \in TaskIds,
             tasks[u] \in Task, tasks[u].req = r
      PROVE  r \notin Unposted
  <2>1. CASE Introspecting(r)
    BY <1>a, <2>1 DEF Introspecting, SteadyOK, Unanswered
  <2>2. CASE r \in PostReqs
    BY <2>2 DEF Unposted
  <2> QED  BY <1>a, <2>1, <2>2
<1>2. ASSUME NEW t \in TaskIds, NEW r \in Requests, NEW routed \in BOOLEAN,
             Comes(r, routed), Enqueued(t, r, routed)
      PROVE  TasksKnown'
  <2> DEFINE task == NewTask(r, routed)
  <2>1. /\ tasks[t] = NoTask /\ Remember(t, task) /\ task \in Task /\ task.req = r
        /\ task.result = "none"
    BY <1>2, NewTaskFields DEF Enqueued, EnqueueTask
  <2>2. Introspecting(r) \/ r \in PostReqs
    BY <1>2 DEF Comes
  <2> HIDE DEF task
  <2> QED  BY <1>0, <1>a, <2>1, <2>2, KnownRemember
<1>3. ASSUME NEW t \in TaskIds, NEW r \in Requests, Introspecting(r), Refused(t, r)
      PROVE  TasksKnown'
  <2> DEFINE task == Rejected(r)
  <2>1. /\ tasks[t] = NoTask /\ Remember(t, task) /\ task \in Task /\ task.req = r
        /\ task.status = "COMPLETED"
    BY <1>3, NewTaskFields DEF Refused
  <2> HIDE DEF task
  <2> QED  BY <1>0, <1>3, <1>a, <2>1, KnownRemember
<1>4. ASSUME NEW busy \in SUBSET TaskIds, MayRun(busy), NEW stage, Schedule(busy, stage)
      PROVE  TasksKnown'
  <2>1. tasks' = Started(busy) /\ index' = index
    BY <1>4 DEF Schedule
  <2>2. \A t \in TaskIds : /\ tasks'[t].req = tasks[t].req
                           /\ tasks'[t].result = tasks[t].result
                           /\ tasks'[t].routed = tasks[t].routed
                           /\ \/ tasks'[t] = tasks[t]
                              \/ tasks[t].status = "QUEUED" /\ tasks'[t].status = "RUNNING"
    BY <1>0, <1>4, <2>1, StartedFields DEF MayRun
  <2>3. \A t \in TaskIds : tasks'[t] \in Task => tasks[t] \in Task
    BY <1>0, <1>4, <2>1, StartStore DEF MayRun
  <2>4. \A t \in TaskIds : tasks'[t].status \in {"QUEUED", "RUNNING"} =>
                             tasks[t].status \in {"QUEUED", "RUNNING"}
    BY <2>2
  <2> QED  BY <1>0, <2>1, <2>2, <2>3, <2>4 DEF TasksKnown
<1>5. ASSUME NEW t \in TaskIds, NEW task, Worked(t, task) PROVE TasksKnown'
  <2>1. /\ tasks' = [tasks EXCEPT ![t] = task] /\ index' = index /\ task \in Task
        /\ task.req = tasks[t].req /\ task.routed = tasks[t].routed
        /\ task.status \in {"QUEUED", "RUNNING"} =>
             task.status = tasks[t].status /\ task.result = tasks[t].result
    BY <1>5 DEF Worked
  <2>2. tasks[t] \in Task
    BY <1>5 DEF Worked, IInv, WorkersOK
  <2>3. \A u \in TaskIds : /\ tasks'[u].req = tasks[u].req /\ tasks'[u].routed = tasks[u].routed
                           /\ tasks'[u] \in Task => tasks[u] \in Task
                           /\ tasks'[u].status \in {"QUEUED", "RUNNING"} =>
                                /\ tasks'[u].status = tasks[u].status
                                /\ tasks'[u].result = tasks[u].result
    BY <1>0, <2>1, <2>2 DEF MemoryOK, StoreOK
  <2> QED  BY <1>0, <2>1, <2>3 DEF TasksKnown
<1> QED  BY <1>1, <1>2, <1>3, <1>4, <1>5 DEF StoreStep, Rebooting

\* Scheduling changes the result of no task.
LEMMA ResultsKept ==
  ASSUME IInv, NEW busy \in SUBSET TaskIds, MayRun(busy), NEW stage, Schedule(busy, stage)
  PROVE  \A t \in TaskIds : /\ tasks'[t].result = tasks[t].result
                            /\ tasks'[t].req = tasks[t].req /\ tasks'[t].routed = tasks[t].routed
                            /\ tasks'[t] \in Task => tasks[t] \in Task
<1>1. tasks' = Started(busy) /\ MemoryOK
  BY DEF Schedule, IInv
<1>2. \A t \in TaskIds : /\ tasks'[t].result = tasks[t].result
                         /\ tasks'[t].req = tasks[t].req /\ tasks'[t].routed = tasks[t].routed
  BY <1>1, StartedFields DEF MayRun
<1>3. \A t \in TaskIds : tasks'[t] \in Task => tasks[t] \in Task
  BY <1>1, StartStore DEF MayRun
<1> QED  BY <1>2, <1>3

\* A step that sends nothing and changes no result leaves the sent results settled.
LEMMA SettledFrame ==
  ASSUME IInv, Settled, UNCHANGED <<sent, index>>,
         \A t \in TaskIds : tasks'[t].result = tasks[t].result
  PROVE  Settled'
<1>1. \A r \in Requests : index[r] # None => index[r] \in TaskIds
  BY SellerAssumption DEF IInv, MemoryOK, StoreOK, TaskIds, None
<1> QED  BY <1>1 DEF Settled, Unposted

\* Scheduling leaves them settled.
LEMMA SettledSchedule ==
  ASSUME IInv, Settled, NEW stage, Schedule(active, stage), UNCHANGED sent
  PROVE  Settled'
<1>1. active \in SUBSET TaskIds /\ MayRun(active)
  BY ActiveMayRun DEF MayRun
<1>2. \A t \in TaskIds : tasks'[t].result = tasks[t].result
  BY <1>1, ResultsKept
<1> QED  BY <1>2, SettledFrame DEF Schedule

\* A request nobody answered, or one that may be posted, becomes known, perhaps with its answer.
LEMMA SettledRemember ==
  ASSUME IInv, Settled, NEW t \in TaskIds, NEW task \in Task, tasks[t] = NoTask,
         Remember(t, task), task.req \in Unposted => ~Answered(task.req),
         sent' = sent \/ (task.result # "none" /\ sent' = sent \cup {<<task.req, task.result>>})
  PROVE  Settled'
<1>1. /\ t # None /\ tasks'[t] = task /\ index'[task.req] = t
      /\ \A r \in Requests : r # task.req => index'[r] = index[r]
      /\ \A r \in Requests : index[r] # None => tasks'[index[r]] = tasks[index[r]]
  BY RememberIndex DEF IInv
<1>2. ASSUME NEW r \in Unposted, NEW res \in Results, <<r, res>> \in sent'
      PROVE  index'[r] # None /\ tasks'[index'[r]].result = res /\ res # "none"
  <2>1. CASE r = task.req
    <3>1. <<r, res>> \notin sent
      BY <2>1 DEF Answered
    <3>2. res = task.result /\ task.result # "none"
      BY <1>2, <3>1
    <3> QED  BY <1>1, <2>1, <3>2
  <2>2. CASE r # task.req
    <3>1. <<r, res>> \in sent
      BY <1>2, <2>2
    <3> QED  BY <1>1, <2>2, <3>1 DEF Settled, Unposted
  <2> QED  BY <2>1, <2>2
<1> QED  BY <1>2 DEF Settled

\* A pull leaves them settled: it sends a result only from the record.
LEMMA SettledPull ==
  ASSUME IInv, IndexOK, SteadyOK, NEW p \in Pullers, PullStep(p)
  PROVE  Settled'
<1>0. Settled
  BY DEF SteadyOK
<1>a. ppc[p] \notin {"idle", "next"} => Envelope(p).req \in Requests
  BY EnvelopeType DEF IInv, PullsOK
<1>1. CASE ReplayResult(p)
  <2> DEFINE r == Envelope(p).req
             task == tasks[index[r]]
  <2>1. r \in Requests /\ index[r] # None /\ task.result # "none"
    BY <1>1, <1>a DEF ReplayResult, Known
  <2>2. task \in Task /\ task.req = r
    BY <2>1 DEF IInv, MemoryOK, StoreOK, IndexOK, Indexed
  <2>3. sent' = sent \/ sent' = sent \cup {<<task.req, task.result>>}
    BY <1>1 DEF ReplayResult, SendResult
  <2>4. UNCHANGED <<tasks, index>>
    BY <1>1 DEF ReplayResult, storeVars
  <2>5. ASSUME NEW q \in Unposted, NEW res \in Results, <<q, res>> \in sent'
        PROVE  index[q] # None /\ tasks[index[q]].result = res /\ res # "none"
    <3>1. CASE <<q, res>> \in sent
      BY <1>0, <3>1 DEF Settled
    <3>2. CASE <<q, res>> = <<r, task.result>>
      BY <2>1, <3>2
    <3> QED  BY <2>2, <2>3, <2>5, <3>1, <3>2
  <2> QED  BY <2>4, <2>5 DEF Settled
<1>2. CASE RejectTask(p)
  <2> DEFINE task == Rejected(Envelope(p).req)
  <2>1. /\ ppc[p] = "introspect" /\ Remember(cand[p], task)
        /\ \E o : SendResult(Envelope(p).req, "rejected", TRUE, "rejectSend", o)
    BY <1>2 DEF RejectTask, Rejected
  <2>2. /\ Envelope(p).req \in Requests /\ cand[p] \in TaskIds /\ tasks[cand[p]] = NoTask
        /\ Envelope(p).req \in Unposted => ~Answered(Envelope(p).req)
    BY <1>a, <2>1, CandFacts DEF IInv, CoreOK, SteadyOK, Unanswered
  <2>3. task \in Task /\ task.req = Envelope(p).req /\ task.result = "rejected"
    BY <2>2, NewTaskFields
  <2>4. sent' = sent \/ sent' = sent \cup {<<Envelope(p).req, "rejected">>}
    BY <2>1 DEF SendResult
  <2> HIDE DEF task
  <2> QED  BY <1>0, <2>1, <2>2, <2>3, <2>4, SettledRemember
<1>3. CASE AcceptTask(p)
  <2> DEFINE task == NewTask(Envelope(p).req, TRUE)
  <2>1. ppc[p] = "introspect" /\ Remember(cand[p], task) /\ sent' = sent
    BY <1>3 DEF AcceptTask, EnqueueTask, seenVars
  <2>2. /\ Envelope(p).req \in Requests /\ cand[p] \in TaskIds /\ tasks[cand[p]] = NoTask
        /\ Envelope(p).req \in Unposted => ~Answered(Envelope(p).req)
    BY <1>a, <2>1, CandFacts DEF IInv, CoreOK, SteadyOK, Unanswered
  <2>3. task \in Task /\ task.req = Envelope(p).req
    BY <2>2, NewTaskFields
  <2> HIDE DEF task
  <2> QED  BY <1>0, <2>1, <2>2, <2>3, SettledRemember
<1>4. CASE ScheduleAccepted(p)
  BY <1>0, <1>4, SettledSchedule DEF ScheduleAccepted, seenVars
<1>5. CASE ~ReplayResult(p) /\ ~RejectTask(p) /\ ~AcceptTask(p) /\ ~ScheduleAccepted(p)
  <2>1. UNCHANGED <<sent, tasks, index>>
    BY <1>5 DEF PullStep, PollInbox, SkipEnvelope, ReceiveEnvelope, AckDuplicate, CreateTask,
                IntrospectionFails, ReportRejected, AckPlatform, SaveHandled, AckHandled,
                storeVars, seenVars
  <2> QED  BY <1>0, <2>1, SettledFrame
<1> QED  BY <1>1, <1>2, <1>3, <1>4, <1>5

\* A worker leaves them settled: it records the result it sends.
LEMMA SettledWork ==
  ASSUME IInv, IndexOK, SteadyOK, NEW t \in TaskIds, WorkStep(t), ~UnhandledRejection(t), ~FailTask(t)
  PROVE  Settled'
<1>0. Settled /\ MemoryOK
  BY DEF SteadyOK, IInv
<1>1. ASSUME NEW res \in {"ok", "error", "runtime_error"}, wpc[t] = "executing", FinalizeTask(t, res)
      PROVE  Settled'
  <2>1. tasks[t] \in Task /\ tasks[t].status = "RUNNING" /\ tasks[t].result = "none"
    BY <1>1 DEF IInv, WorkersOK, SteadyOK, Running, TasksKnown
  <2>2. tasks[t].req \in Unposted => index[tasks[t].req] = t
    BY <2>1 DEF SteadyOK, TasksKnown
  <2>3. /\ tasks' = [tasks EXCEPT ![t] = Completed(tasks[t], res)] /\ index' = index
        /\ sent' = sent \/ sent' = sent \cup {<<tasks[t].req, res>>}
    BY <1>1 DEF FinalizeTask, SendResult
  <2>4. tasks'[t].result = res /\ \A u \in TaskIds : u # t => tasks'[u] = tasks[u]
    BY <1>0, <2>1, <2>3 DEF Completed, Task, MemoryOK, StoreOK
  <2>5. t # None /\ \A r \in Unposted : index[r] # None => index[r] \in TaskIds
    BY <1>0, SellerAssumption DEF Unposted, MemoryOK, StoreOK, TaskIds, None
  <2>6. ASSUME NEW r \in Unposted, NEW s \in Results, <<r, s>> \in sent'
        PROVE  index[r] # None /\ tasks'[index[r]].result = s /\ s # "none"
    <3>1. CASE <<r, s>> \in sent
      <4>1. index[r] # None /\ tasks[index[r]].result = s /\ s # "none"
        BY <1>0, <3>1 DEF Settled
      <4> QED  BY <2>1, <2>4, <2>5, <4>1
    <3>2. CASE <<r, s>> = <<tasks[t].req, res>>
      <4>1. r = tasks[t].req /\ s = res
        BY <3>2
      <4> QED  BY <2>2, <2>4, <2>5, <3>2, <4>1
    <3> QED  BY <2>3, <2>6, <3>1, <3>2
  <2> QED  BY <2>3, <2>6 DEF Settled
<1>2. CASE ExecutorReturns(t) \/ ExecutorThrows(t)
  BY <1>1, <1>2 DEF ExecutorReturns, ExecutorThrows
<1>3. CASE ExecutorDefers(t)
  <2>1. /\ tasks' = [tasks EXCEPT ![t].deferred = TRUE] /\ UNCHANGED <<index, sent>>
        /\ tasks[t] \in Task
    BY <1>3 DEF ExecutorDefers, seenVars, IInv, WorkersOK
  <2>2. \A u \in TaskIds : tasks'[u].result = tasks[u].result
    BY <1>0, <2>1 DEF MemoryOK, StoreOK, Task
  <2> QED  BY <1>0, <2>1, <2>2, SettledFrame
<1>4. CASE Reschedule(t)
  BY <1>0, <1>4, SettledSchedule DEF Reschedule, seenVars
<1>5. CASE \/ BeginExecution(t) \/ PostLifecycleEvent(t) \/ ReportResult(t) \/ SaveOutcome(t)
           \/ ReleaseWorker(t)
  <2>1. UNCHANGED <<sent, tasks, index>>
    BY <1>5 DEF BeginExecution, PostLifecycleEvent, ReportResult, SaveOutcome, ReleaseWorker,
                storeVars, seenVars
  <2> QED  BY <1>0, <2>1, SettledFrame
<1> QED  BY <1>2, <1>3, <1>4, <1>5 DEF WorkStep

\* Every step leaves them settled.
LEMMA SettledStep ==
  ASSUME IInv, IndexOK, Steady, SteadyOK, Next
  PROVE  Settled'
<1>0. Settled
  BY DEF SteadyOK
<1>1. ~Crash /\ \A t \in TaskIds : ~UnhandledRejection(t) /\ ~FailTask(t)
  BY NeverRestarts DEF SteadyOK
<1>2. ASSUME NEW r \in Requests, PostTask(r) PROVE Settled'
  <2>0. PICK routed \in BOOLEAN : EnqueueTask(created + 1, NewTask(r, routed))
    BY <1>2 DEF PostTask
  <2> DEFINE task == NewTask(r, routed)
  <2>1. created < MaxTasks /\ Remember(created + 1, task) /\ sent' = sent
    BY <1>2, <2>0 DEF PostTask, EnqueueTask, seenVars
  <2>2. created + 1 \in TaskIds /\ created + 1 > created
    BY <2>1, SellerAssumption DEF IInv, IdsFresh, TaskIds
  <2>3. tasks[created + 1] = NoTask
    BY <2>2 DEF IInv, IdsFresh
  <2>4. task \in Task /\ task.req = r
    BY NewTaskFields
  <2>5. r \notin Unposted
    BY <1>2 DEF PostTask, Unposted
  <2> HIDE DEF task
  <2> QED  BY <1>0, <2>1, <2>2, <2>3, <2>4, <2>5, SettledRemember
<1>3. ASSUME NEW r \in Requests, SendRequest(r) PROVE Settled'
  BY <1>0, <1>3, SettledFrame DEF SendRequest, storeVars, seenVars
<1>4. ASSUME SchedulePosted PROVE Settled'
  BY <1>0, <1>4, SettledSchedule DEF SchedulePosted, seenVars
<1>5. ASSUME Heartbeat PROVE Settled'
  BY <1>0, <1>5, SettledFrame DEF Heartbeat, storeVars, seenVars
<1> QED  BY <1>1, <1>2, <1>3, <1>4, <1>5, SettledPull, SettledWork DEF Next

\* Steps outside the loop answer nothing it introspects.
LEMMA UnansweredFrame ==
  ASSUME IInv, NEW p \in Pullers, Unanswered(p), UNCHANGED pullVars,
         \/ sent' = sent
         \/ \E t \in TaskIds : \E res : tasks[t] \in Task /\ sent' = sent \cup {<<tasks[t].req, res>>},
         \A t \in TaskIds : tasks'[t] \in Task /\ tasks'[t].req \in Unposted =>
                              tasks[t] \in Task /\ tasks[t].req = tasks'[t].req
  PROVE  Unanswered(p)'
<1> SUFFICES ASSUME ppc[p] = "introspect", Envelope(p).req \in Unposted
             PROVE  /\ \A res \in Results : <<Envelope(p).req, res>> \notin sent'
                    /\ \A t \in TaskIds : ~(tasks'[t] \in Task /\ tasks'[t].req = Envelope(p).req)
  BY DEF Unanswered, Answered, pullVars, Envelope
<1>1. /\ \A res \in Results : <<Envelope(p).req, res>> \notin sent
      /\ \A t \in TaskIds : ~(tasks[t] \in Task /\ tasks[t].req = Envelope(p).req)
  BY DEF Unanswered, Answered
<1>2. ASSUME NEW res \in Results, <<Envelope(p).req, res>> \in sent' PROVE FALSE
  <2>1. PICK t \in TaskIds : \E s : tasks[t] \in Task /\ sent' = sent \cup {<<tasks[t].req, s>>}
    BY <1>1, <1>2
  <2>2. tasks[t].req = Envelope(p).req
    BY <1>1, <1>2, <2>1
  <2> QED  BY <1>1, <2>1, <2>2
<1> QED  BY <1>1, <1>2

\* A worker does not answer the request whose token is being introspected.
LEMMA UnansweredWork ==
  ASSUME IInv, NEW p \in Pullers, Unanswered(p), NEW t \in TaskIds, WorkStep(t),
         ~UnhandledRejection(t)
  PROVE  Unanswered(p)'
<1>0. MemoryOK
  BY DEF IInv
<1>1. UNCHANGED pullVars
  BY DEF WorkStep, BeginExecution, ExecutorReturns, ExecutorThrows, ExecutorDefers, FailTask,
         FinalizeTask, PostLifecycleEvent, ReportResult, SaveOutcome, ReleaseWorker, Reschedule
<1>2. ASSUME NEW res \in {"ok", "error", "runtime_error"}, wpc[t] # "none", FinalizeTask(t, res)
      PROVE  Unanswered(p)'
  <2>1. tasks[t] \in Task
    BY <1>2 DEF IInv, WorkersOK
  <2>2. /\ tasks' = [tasks EXCEPT ![t] = Completed(tasks[t], res)]
        /\ sent' = sent \/ sent' = sent \cup {<<tasks[t].req, res>>}
    BY <1>2 DEF FinalizeTask, SendResult
  <2>3. \A u \in TaskIds : u # t => tasks'[u] = tasks[u]
    BY <1>0, <2>2 DEF MemoryOK, StoreOK
  <2>4. tasks'[t].req = tasks[t].req
    BY <1>0, <2>1, <2>2 DEF Completed, Task, MemoryOK, StoreOK
  <2>5. \A u \in TaskIds : tasks'[u] \in Task /\ tasks'[u].req \in Unposted =>
                             tasks[u] \in Task /\ tasks[u].req = tasks'[u].req
    BY <2>1, <2>3, <2>4
  <2> QED  BY <1>1, <2>1, <2>2, <2>5, UnansweredFrame
<1>3. CASE ExecutorReturns(t) \/ ExecutorThrows(t) \/ FailTask(t)
  BY <1>2, <1>3 DEF ExecutorReturns, ExecutorThrows, FailTask
<1>4. CASE ExecutorDefers(t)
  <2>1. /\ tasks' = [tasks EXCEPT ![t].deferred = TRUE] /\ sent' = sent
        /\ tasks[t] \in Task
    BY <1>4 DEF ExecutorDefers, seenVars, IInv, WorkersOK
  <2>2. \A u \in TaskIds : u # t => tasks'[u] = tasks[u]
    BY <1>0, <2>1 DEF MemoryOK, StoreOK
  <2>3. tasks'[t].req = tasks[t].req
    BY <1>0, <2>1 DEF Task, MemoryOK, StoreOK
  <2>4. \A u \in TaskIds : tasks'[u] \in Task /\ tasks'[u].req \in Unposted =>
                             tasks[u] \in Task /\ tasks[u].req = tasks'[u].req
    BY <2>1, <2>2, <2>3
  <2> QED  BY <1>1, <2>1, <2>4, UnansweredFrame
<1>5. CASE Reschedule(t)
  <2>1. active \in SUBSET TaskIds /\ MayRun(active)
    BY ActiveMayRun DEF MayRun
  <2>2. \A u \in TaskIds : /\ tasks'[u].req = tasks[u].req
                           /\ tasks'[u] \in Task => tasks[u] \in Task
    BY <1>5, <2>1, ResultsKept DEF Reschedule
  <2> QED  BY <1>1, <1>5, <2>2, UnansweredFrame DEF Reschedule, seenVars
<1>6. CASE \/ BeginExecution(t) \/ PostLifecycleEvent(t) \/ ReportResult(t) \/ SaveOutcome(t)
           \/ ReleaseWorker(t)
  <2>1. UNCHANGED <<sent, tasks>>
    BY <1>6 DEF BeginExecution, PostLifecycleEvent, ReportResult, SaveOutcome, ReleaseWorker,
                storeVars, seenVars
  <2> QED  BY <1>1, <2>1, UnansweredFrame
<1> QED  BY <1>3, <1>4, <1>5, <1>6 DEF WorkStep

\* Nothing does, while one loop pulls.
LEMMA UnansweredStep ==
  ASSUME IInv, Steady, OneLoop, SteadyOK, Next, NEW p \in Pullers
  PROVE  Unanswered(p)'
<1>0. Unanswered(p) /\ MemoryOK
  BY DEF SteadyOK, IInv
<1>1. ~Crash /\ \A t \in TaskIds : ~UnhandledRejection(t)
  BY NeverRestarts DEF SteadyOK
<1>2. ASSUME NEW q \in Pullers, PullStep(q) PROVE Unanswered(p)'
  <2>1. q = p
    BY DEF OneLoop
  <2>2. CASE CreateTask(p)
    <3>1. /\ ppc[p] = "lookup" /\ ~Known(Envelope(p).req) /\ UNCHANGED <<tasks, sent, batch>>
      BY <2>2 DEF CreateTask, storeVars, seenVars
    <3>2. Envelope(p).req \in Requests
      BY <3>1, EnvelopeType DEF IInv, PullsOK
    <3>3. Envelope(p).req \in Unposted => ~Answered(Envelope(p).req)
      BY <3>1, <3>2 DEF Answered, Known, SteadyOK, Settled
    <3>4. \A t \in TaskIds : ~(tasks[t] \in Task /\ tasks[t].req = Envelope(p).req)
      BY <3>1 DEF Known, SteadyOK, TasksKnown
    <3> QED  BY <3>1, <3>3, <3>4 DEF Unanswered, Answered, Envelope
  <2>3. CASE ~CreateTask(p)
    <3>1. ppc'[p] # "introspect"
      BY <1>2, <2>1, <2>3 DEF IInv, PullsOK, PullStep, PollInbox, SkipEnvelope, ReceiveEnvelope,
            AckDuplicate, ReplayResult, IntrospectionFails, RejectTask, ReportRejected, AcceptTask,
            ScheduleAccepted, AckPlatform, SaveHandled, AckHandled, AckEnvelope, Proceed, Abort, Goto
    <3> QED  BY <3>1 DEF Unanswered
  <2> QED  BY <2>2, <2>3
<1>3. ASSUME NEW t \in TaskIds, WorkStep(t) PROVE Unanswered(p)'
  BY <1>0, <1>1, <1>3, UnansweredWork
<1>4. ASSUME NEW r \in Requests, SendRequest(r) PROVE Unanswered(p)'
  BY <1>0, <1>4, UnansweredFrame DEF SendRequest, storeVars, seenVars
<1>5. ASSUME NEW r \in Requests, PostTask(r) PROVE Unanswered(p)'
  <2>0. PICK routed \in BOOLEAN : EnqueueTask(created + 1, NewTask(r, routed))
    BY <1>5 DEF PostTask
  <2>1. /\ created < MaxTasks /\ Remember(created + 1, NewTask(r, routed))
        /\ UNCHANGED pullVars /\ sent' = sent /\ r \notin Unposted
    BY <1>5, <2>0 DEF PostTask, EnqueueTask, seenVars, Unposted
  <2>2. created + 1 \in TaskIds /\ created + 1 > created
    BY <2>1, SellerAssumption DEF IInv, IdsFresh, TaskIds
  <2>3. /\ tasks' = [tasks EXCEPT ![created + 1] = NewTask(r, routed)]
        /\ NewTask(r, routed).req = r
    BY <2>1, NewTaskFields DEF Remember
  <2>4. \A u \in TaskIds : tasks'[u] \in Task /\ tasks'[u].req \in Unposted =>
                             tasks[u] \in Task /\ tasks[u].req = tasks'[u].req
    BY <1>0, <2>1, <2>3 DEF MemoryOK, StoreOK
  <2> QED  BY <1>0, <2>1, <2>4, UnansweredFrame
<1>6. ASSUME SchedulePosted PROVE Unanswered(p)'
  <2>1. active \in SUBSET TaskIds /\ MayRun(active)
    BY ActiveMayRun DEF MayRun
  <2>2. \A u \in TaskIds : /\ tasks'[u].req = tasks[u].req
                           /\ tasks'[u] \in Task => tasks[u] \in Task
    BY <1>6, <2>1, ResultsKept DEF SchedulePosted
  <2> QED  BY <1>0, <1>6, <2>2, UnansweredFrame DEF SchedulePosted, seenVars
<1>7. ASSUME Heartbeat PROVE Unanswered(p)'
  BY <1>0, <1>7, UnansweredFrame DEF Heartbeat, storeVars, seenVars
<1> QED  BY <1>1, <1>2, <1>3, <1>4, <1>5, <1>6, <1>7 DEF Next

\* The invariant of a single result holds in every reachable state.
LEMMA AlwaysSteady ==
  ASSUME OneLoop, Steady
  PROVE  Spec => []SteadyOK
<1>1. Init => SteadyOK
  <2> SUFFICES ASSUME Init PROVE SteadyOK
    OBVIOUS
  <2>1. NeverFailing /\ Running /\ Settled
    BY DEF Init, NeverFailing, Running, Settled
  <2>2. TasksKnown /\ \A p \in Pullers : Unanswered(p)
    BY TaskFacts DEF Init, EmptyStore, TasksKnown, Unanswered, NoTask
  <2> QED  BY <2>1, <2>2 DEF SteadyOK
<1>2. IInv /\ DeliveryOK /\ SteadyOK /\ [Next]_vars => SteadyOK'
  <2> SUFFICES ASSUME IInv, DeliveryOK, SteadyOK, [Next]_vars PROVE SteadyOK'
    OBVIOUS
  <2>1. CASE Next
    <3>1. IndexOK
      BY DEF DeliveryOK
    <3>2. NeverFailing' /\ Running'
      BY <2>1, NeverFailingStep, RunningStep DEF SteadyOK
    <3>3. TasksKnown'
      <4>1. ~Rebooting
        <5>1. UNCHANGED boots /\ boots \in Nat
          BY <2>1, NeverRestarts DEF SteadyOK, IInv, NetOK
        <5> QED  BY <5>1 DEF Rebooting, Reloaded, Boot
      <4> QED  BY <2>1, <4>1, NextStore, KnownStep
    <3>4. Settled' /\ \A p \in Pullers : Unanswered(p)'
      BY <2>1, <3>1, SettledStep, UnansweredStep
    <3> QED  BY <3>2, <3>3, <3>4 DEF SteadyOK
  <2>2. CASE UNCHANGED vars
    BY <2>2 DEF vars, storeVars, workVars, pullVars, seenVars, SteadyOK, NeverFailing, Running,
                Settled, TasksKnown, Unanswered, Answered, Envelope
  <2> QED  BY <2>1, <2>2
<1> QED  BY <1>1, <1>2, Invariant, Delivery, PTL DEF Spec

\* With one inbox loop, no crash, and no failure of the calls made once a result exists,
\* every result sent for a request nobody posts is the same one, however often it is sent.
THEOREM OneResult ==
  ASSUME OneLoop, Steady
  PROVE  Spec => []SameResult
<1>1. IInv /\ SteadyOK => SameResult
  <2> SUFFICES ASSUME IInv, SteadyOK, NEW r \in Requests \ PostReqs
               PROVE  Cardinality({x \in sent : x[1] = r}) <= 1
    BY DEF SameResult
  <2> DEFINE own == {x \in sent : x[1] = r}
             only == <<r, tasks[index[r]].result>>
  <2>1. own \subseteq {only}
    <3> SUFFICES ASSUME NEW x \in sent, x[1] = r PROVE x = only
      OBVIOUS
    <3>1. x \in Requests \X Results
      BY DEF IInv, NetOK
    <3>2. x = <<r, x[2]>> /\ x[2] \in Results
      BY <3>1
    <3>3. tasks[index[r]].result = x[2]
      BY <3>2 DEF SteadyOK, Settled, Unposted
    <3> QED  BY <3>2, <3>3
  <2> HIDE DEF own, only
  <2>2. IsFiniteSet({only}) /\ Cardinality({only}) = 1
    BY FS_Singleton
  <2>3. Cardinality(own) <= 1
    BY <2>1, <2>2, FS_Subset
  <2> QED  BY <2>3 DEF own
<1> QED  BY <1>1, Invariant, AlwaysSteady, PTL

-----------------------------------------------------------------------------
(* The service the seller implements                                       *)

\* What a task record says of its request, when `saved` is the index on disk and `runs` how
\* often each request was executed: it is on disk unless it was refused, an outcome comes
\* from an execution, and a refused request that nobody posts was not executed.
Earned(task, saved, runs) ==
  LET r == task.req
  IN  /\ task.result # "rejected" => saved[r] # None
      /\ task.result \in Ended => runs[r] > 0
      /\ task.result = "rejected" /\ r \in Unposted => runs[r] = 0
      /\ task.status = "QUEUED" => task.result = "none"

\* All tasks of a store are as they say.
AllEarned(ts, saved, runs) == \A t \in TaskIds : ts[t] \in Task => Earned(ts[t], saved, runs)

\* A request that nobody posts has one task, the one it is known by.
OneTask(ts, ix) ==
  \A t \in TaskIds : ts[t] \in Task /\ ts[t].req \in Unposted => ix[ts[t].req] = t

\* A task refused on disk is refused in memory.
DiskRejected ==
  \A t \in TaskIds : disk.tasks[t].result = "rejected" => tasks[t].result = "rejected"

\* A worker runs no refused task, and has executed the task it is past the delay of.
WorkersEarned ==
  \A t \in TaskIds :
    /\ wpc[t] # "none" => tasks[t].result # "rejected"
    /\ wpc[t] \notin {"none", "delay"} => executed[tasks[t].req] > 0

\* The invariant behind the service.
ServiceOK ==
  /\ AllEarned(tasks, disk.index, executed) /\ AllEarned(disk.tasks, disk.index, executed)
  /\ OneTask(tasks, index) /\ OneTask(disk.tasks, disk.index)
  /\ DiskRejected /\ WorkersEarned

\* How a worker comes to hold its task: it held it, or it starts a queued one.
LEMMA HeldTasks ==
  ASSUME IInv, Next, NEW t \in TaskIds, wpc'[t] # "none"
  PROVE  \/ /\ wpc[t] # "none" /\ tasks'[t].req = tasks[t].req
            /\ tasks'[t].result = tasks[t].result \/ tasks'[t].result \in Ended
            /\ wpc[t] = "delay" => wpc'[t] = "delay" \/ BeginExecution(t)
         \/ /\ wpc'[t] = "delay" /\ tasks[t].status = "QUEUED"
            /\ tasks'[t].result = tasks[t].result /\ tasks'[t].req = tasks[t].req
<1> DEFINE same == wpc[t] = wpc'[t] /\ tasks'[t] = tasks[t]
           held == /\ wpc[t] # "none" /\ tasks'[t].req = tasks[t].req
                   /\ tasks'[t].result = tasks[t].result \/ tasks'[t].result \in Ended
                   /\ wpc[t] = "delay" => wpc'[t] = "delay" \/ BeginExecution(t)
           starts == /\ wpc'[t] = "delay" /\ tasks[t].status = "QUEUED"
                     /\ tasks'[t].result = tasks[t].result /\ tasks'[t].req = tasks[t].req
<1>0. MemoryOK /\ WorkersOK
  BY DEF IInv
<1>s. ASSUME same PROVE held
  BY <1>s
<1>a. ASSUME NEW busy \in SUBSET TaskIds, MayRun(busy), NEW stage, Schedule(busy, stage)
      PROVE  starts \/ (stage[t] = wpc'[t] /\ tasks'[t] = tasks[t])
  <2>1. CASE t \in ToStart(busy)
    <3>1. /\ tasks[t].status = "QUEUED" /\ Started(busy)[t].result = tasks[t].result
          /\ Started(busy)[t].req = tasks[t].req
      BY <1>0, <1>a, <2>1, StartStore, StartedFields DEF MayRun
    <3> QED  BY <1>a, <2>1, <3>1 DEF Schedule
  <2>2. CASE t \notin ToStart(busy)
    BY <1>0, <1>a, <2>2, StartStore DEF Schedule, MayRun
  <2> QED  BY <2>1, <2>2
<1>b. active \in SUBSET TaskIds /\ MayRun(active)
  BY ActiveMayRun DEF MayRun
<1>c. ASSUME NEW u \in TaskIds, tasks[u] = NoTask, NEW task, Remember(u, task), UNCHANGED workVars
      PROVE  same
  <2>1. wpc[t] = wpc'[t] /\ u # t
    BY <1>0, <1>c, TaskFacts DEF workVars, WorkersOK
  <2> QED  BY <1>0, <1>c, <2>1 DEF Remember, MemoryOK, StoreOK
<1>1. ASSUME NEW r \in Requests, SendRequest(r) PROVE same
  BY <1>1 DEF SendRequest, storeVars, workVars
<1>2. ASSUME NEW r \in Requests, PostTask(r) PROVE same
  <2>1. /\ created < MaxTasks /\ UNCHANGED workVars
        /\ \E routed \in BOOLEAN : Remember(created + 1, NewTask(r, routed))
    BY <1>2 DEF PostTask, EnqueueTask
  <2>2. created + 1 \in TaskIds /\ created + 1 > created
    BY <2>1, SellerAssumption DEF IInv, IdsFresh, TaskIds
  <2>3. tasks[created + 1] = NoTask
    BY <2>2 DEF IInv, IdsFresh
  <2> QED  BY <1>c, <2>1, <2>2, <2>3
<1>3. ASSUME NEW p \in Pullers, PullStep(p) PROVE same \/ starts
  <2>1. CASE AcceptTask(p) \/ RejectTask(p)
    <3>1. ppc[p] = "introspect" /\ UNCHANGED workVars /\ \E task : Remember(cand[p], task)
      BY <2>1 DEF AcceptTask, RejectTask, EnqueueTask
    <3>2. cand[p] \in TaskIds /\ tasks[cand[p]] = NoTask
      BY <3>1, CandFacts DEF IInv, CoreOK
    <3> QED  BY <1>c, <3>1, <3>2
  <2>2. CASE ScheduleAccepted(p)
    BY <2>2, <1>a, <1>b DEF ScheduleAccepted
  <2>3. CASE ~AcceptTask(p) /\ ~RejectTask(p) /\ ~ScheduleAccepted(p)
    BY <1>3, <2>3 DEF PullStep, PollInbox, SkipEnvelope, ReceiveEnvelope, AckDuplicate,
                ReplayResult, CreateTask, IntrospectionFails, ReportRejected, AckPlatform,
                SaveHandled, AckHandled, storeVars, workVars
  <2> QED  BY <2>1, <2>2, <2>3
<1>4. ASSUME NEW u \in TaskIds, WorkStep(u) PROVE held \/ starts
  <2>1. ASSUME NEW res \in Ended, wpc[u] \notin {"none", "delay"}, FinalizeTask(u, res) PROVE held
    <3>1. CASE u # t
      BY <1>0, <1>s, <2>1, <3>1 DEF FinalizeTask, Stage, WorkersOK, MemoryOK, StoreOK
    <3>2. CASE u = t
      <4>1. tasks[t] \in Task /\ tasks'[t] = Completed(tasks[t], res)
        BY <1>0, <2>1, <3>2 DEF FinalizeTask, WorkersOK, MemoryOK, StoreOK
      <4>2. tasks'[t].req = tasks[t].req /\ tasks'[t].result = res
        BY <4>1 DEF Completed, Task
      <4> QED  BY <2>1, <3>2, <4>2
    <3> QED  BY <3>1, <3>2
  <2>2. CASE ExecutorReturns(u) \/ ExecutorThrows(u) \/ FailTask(u)
    <3>1. wpc[u] \notin {"none", "delay"} /\ \E res \in Ended : FinalizeTask(u, res)
      BY <2>2 DEF ExecutorReturns, ExecutorThrows, FailTask, Ended
    <3> QED  BY <2>1, <3>1
  <2>3. CASE ExecutorDefers(u)
    <3>1. /\ wpc[u] = "executing" /\ wpc' = [wpc EXCEPT ![u] = "finish"]
          /\ tasks' = [tasks EXCEPT ![u].deferred = TRUE] /\ tasks[u] \in Task
      BY <1>0, <2>3 DEF ExecutorDefers, Stage, WorkersOK
    <3>2. CASE u # t
      BY <1>0, <1>s, <3>1, <3>2 DEF WorkersOK, MemoryOK, StoreOK
    <3>3. CASE u = t
      <4>1. tasks'[t].req = tasks[t].req /\ tasks'[t].result = tasks[t].result
        BY <1>0, <3>1, <3>3 DEF MemoryOK, StoreOK, Task
      <4> QED  BY <3>1, <3>3, <4>1
    <3> QED  BY <3>2, <3>3
  <2>4. CASE Reschedule(u)
    <3>1. starts \/ ([wpc EXCEPT ![u] = "none"][t] = wpc'[t] /\ tasks'[t] = tasks[t])
      BY <2>4, <1>a, <1>b DEF Reschedule
    <3>2. CASE [wpc EXCEPT ![u] = "none"][t] = wpc'[t] /\ tasks'[t] = tasks[t]
      <4>1. wpc'[t] = wpc[t]
        BY <1>0, <3>2 DEF WorkersOK
      <4> QED  BY <1>s, <3>2, <4>1
    <3> QED  BY <3>1, <3>2
  <2>5. CASE UnhandledRejection(u)
    BY <2>5 DEF UnhandledRejection, Boot
  <2>6. CASE \/ BeginExecution(u) \/ PostLifecycleEvent(u) \/ ReportResult(u) \/ SaveOutcome(u)
             \/ ReleaseWorker(u)
    <3>1. /\ tasks' = tasks /\ wpc[u] # "none" /\ \E label : wpc' = [wpc EXCEPT ![u] = label]
          /\ wpc[u] = "delay" => BeginExecution(u)
      BY <2>6 DEF BeginExecution, PostLifecycleEvent, ReportResult, SaveOutcome, ReleaseWorker,
                  storeVars, Stage
    <3>2. CASE u # t
      BY <1>0, <1>s, <3>1, <3>2 DEF WorkersOK
    <3>3. CASE u = t
      BY <3>1, <3>3
    <3> QED  BY <3>2, <3>3
  <2> QED  BY <1>4, <2>2, <2>3, <2>4, <2>5, <2>6 DEF WorkStep
<1>5. ASSUME SchedulePosted PROVE same \/ starts
  BY <1>5, <1>a, <1>b DEF SchedulePosted
<1>6. ASSUME Heartbeat PROVE same
  BY <1>6 DEF Heartbeat, storeVars, workVars
<1>7. ~Crash
  BY DEF Crash, Boot
<1>8. held \/ starts
  <2> HIDE DEF same, held, starts
  <2> QED  BY <1>s, <1>1, <1>2, <1>3, <1>4, <1>5, <1>6, <1>7 DEF Next
<1> QED  BY <1>8


\* A task with the same request and result says the same, of an index that forgot nothing.
LEMMA EarnedAgain ==
  ASSUME NEW old, NEW task, NEW saved, NEW grown, NEW runs, Earned(old, saved, runs),
         task.req = old.req, task.result = old.result,
         task.status = "QUEUED" => old.status = "QUEUED",
         saved[old.req] # None => grown[old.req] # None
  PROVE  Earned(task, grown, runs)
  BY DEF Earned

\* A new task, of a request that has none unless it may be posted.
LEMMA OneRemembered ==
  ASSUME MemoryOK, OneTask(tasks, index), NEW t \in TaskIds, NEW task \in Task, tasks[t] = NoTask,
         Remember(t, task), task.req \in Unposted => index[task.req] = None
  PROVE  OneTask(tasks', index')
<1>1. /\ tasks'[t] = task /\ index'[task.req] = t
      /\ \A u \in TaskIds : u # t => tasks'[u] = tasks[u]
      /\ \A r \in Requests : r # task.req => index'[r] = index[r]
  BY RememberIndex
<1>2. ASSUME NEW u \in TaskIds, tasks'[u] \in Task, tasks'[u].req \in Unposted
      PROVE  index'[tasks'[u].req] = u
  <2>1. CASE u = t
    BY <1>1, <2>1
  <2>2. CASE u # t
    <3>1. tasks'[u] = tasks[u] /\ index[tasks[u].req] = u /\ tasks[u].req \in Unposted
      BY <1>1, <1>2, <2>2 DEF OneTask
    <3>2. tasks[u].req # task.req
      BY <3>1, SellerAssumption DEF None, TaskIds
    <3> QED  BY <1>1, <3>1, <3>2 DEF Unposted
  <2> QED  BY <2>1, <2>2
<1> QED  BY <1>2 DEF OneTask

\* The store's part of ServiceOK, of what has not been executed in this step.
StoreEarned ==
  /\ AllEarned(tasks', disk'.index, executed) /\ AllEarned(disk'.tasks, disk'.index, executed)
  /\ OneTask(tasks', index') /\ OneTask(disk'.tasks, disk'.index)
  /\ \A t \in TaskIds : disk'.tasks[t].result = "rejected" => tasks'[t].result = "rejected"

\* Every step of the store keeps it.
LEMMA StoreServes ==
  ASSUME IInv, IndexOK, OnceOK, ServiceOK, StoreStep
  PROVE  StoreEarned
<1> DEFINE grows == \A r \in Requests : disk.index[r] # None => disk'.index[r] # None
           kept == disk' = disk
           saved == disk'.tasks = tasks' /\ disk'.index = index'
<1>0. MemoryOK /\ DiskOK
  BY DEF IInv
<1>g. grows
  BY IndexStep
<1>h. \A ts : \A t \in TaskIds : ts[t] \in Task => ts[t].req \in Requests
  BY DEF Task
<1>d. AllEarned(disk.tasks, disk'.index, executed)
  <2>1. ASSUME NEW t \in TaskIds, disk.tasks[t] \in Task
        PROVE  Earned(disk.tasks[t], disk'.index, executed)
    <3>1. Earned(disk.tasks[t], disk.index, executed)
      BY <2>1 DEF ServiceOK, AllEarned
    <3>2. disk.index[disk.tasks[t].req] # None => disk'.index[disk.tasks[t].req] # None
      BY <1>g, <1>h, <2>1
    <3> QED  BY <3>1, <3>2, EarnedAgain
  <2> QED  BY <2>1 DEF AllEarned
<1>a. ASSUME AllEarned(tasks', disk'.index, executed), OneTask(tasks', index'),
             saved \/ (kept /\ \A t \in TaskIds : disk.tasks[t].result = "rejected"
                                                  => tasks'[t].result = "rejected")
      PROVE  StoreEarned
  <2>1. CASE saved
    BY <1>a, <2>1 DEF StoreEarned
  <2>2. CASE kept /\ \A t \in TaskIds : disk.tasks[t].result = "rejected"
                                        => tasks'[t].result = "rejected"
    BY <1>a, <1>d, <2>2 DEF StoreEarned, ServiceOK
  <2> QED  BY <1>a, <2>1, <2>2
\* Tasks that keep their request, and their result or get an outcome.
<1>b. ASSUME \A t \in TaskIds : tasks'[t] \in Task =>
               /\ tasks[t] \in Task /\ tasks'[t].req = tasks[t].req
               /\ \/ /\ tasks'[t].result = tasks[t].result
                     /\ tasks'[t].status = "QUEUED" => tasks[t].status = "QUEUED"
                  \/ Earned(tasks'[t], disk'.index, executed)
      PROVE  AllEarned(tasks', disk'.index, executed)
  <2>1. ASSUME NEW t \in TaskIds, tasks'[t] \in Task
        PROVE  Earned(tasks'[t], disk'.index, executed)
    <3>1. tasks[t] \in Task /\ Earned(tasks[t], disk.index, executed)
      BY <1>b, <2>1 DEF ServiceOK, AllEarned
    <3>2. disk.index[tasks[t].req] # None => disk'.index[tasks[t].req] # None
      BY <1>g, <1>h, <3>1
    <3> QED  BY <1>b, <2>1, <3>1, <3>2, EarnedAgain
  <2> QED  BY <2>1 DEF AllEarned
<1>c. ASSUME \A t \in TaskIds : tasks'[t] \in Task =>
               tasks[t] \in Task /\ tasks'[t].req = tasks[t].req,
             index' = index
      PROVE  OneTask(tasks', index')
  BY <1>c DEF OneTask, ServiceOK
<1>1. CASE Kept
  <2>1. tasks' = tasks /\ index' = index /\ (kept \/ saved)
    BY <1>1 DEF Kept, storeVars, Save
  <2> QED  BY <2>1, <1>a, <1>b, <1>c DEF ServiceOK, DiskRejected
<1>e. ASSUME NEW r \in Requests, Introspecting(r), r \in Unposted
      PROVE  index[r] = None /\ executed[r] = 0
  BY <1>e, IntrospectedFresh DEF Introspecting, OnceOK, IntrospectsUnknown
<1>f. ASSUME NEW t \in TaskIds, NEW task \in Task, tasks[t] = NoTask, Remember(t, task),
             Earned(task, disk'.index, executed)
      PROVE  AllEarned(tasks', disk'.index, executed)
  <2>1. tasks'[t] = task /\ \A u \in TaskIds : u # t => tasks'[u] = tasks[u]
    BY <1>0, <1>f, RememberIndex
  <2>2. ASSUME NEW u \in TaskIds, tasks'[u] \in Task
        PROVE  Earned(tasks'[u], disk'.index, executed)
    <3>1. CASE u = t
      BY <1>f, <2>1, <3>1
    <3>2. CASE u # t
      <4>1. tasks'[u] = tasks[u] /\ Earned(tasks[u], disk.index, executed)
        BY <2>1, <2>2, <3>2 DEF ServiceOK, AllEarned
      <4>2. disk.index[tasks[u].req] # None => disk'.index[tasks[u].req] # None
        BY <1>g, <1>h, <2>2, <4>1
      <4> QED  BY <4>1, <4>2, EarnedAgain
    <3> QED  BY <3>1, <3>2
  <2> QED  BY <2>2 DEF AllEarned
<1>2. ASSUME NEW t \in TaskIds, NEW r \in Requests, NEW routed \in BOOLEAN,
             Comes(r, routed), Enqueued(t, r, routed)
      PROVE  StoreEarned
  <2> DEFINE task == NewTask(r, routed)
  <2>1. tasks[t] = NoTask /\ Remember(t, task) /\ saved
    BY <1>2 DEF Enqueued, EnqueueTask, SaveEnqueued, Save
  <2>2. task \in Task /\ task.req = r /\ task.result = "none"
    BY NewTaskFields
  <2>3. r \in Unposted => index[r] = None
    BY <1>2, <1>e DEF Comes, Unposted
  <2> HIDE DEF task
  <2>4. OneTask(tasks', index')
    BY <1>0, <2>1, <2>2, <2>3, OneRemembered DEF ServiceOK
  <2>5. disk'.index[r] # None
    BY <1>0, <2>1, <2>2, RememberIndex
  <2>6. Earned(task, disk'.index, executed)
    BY <2>2, <2>5 DEF Earned, Ended
  <2>7. AllEarned(tasks', disk'.index, executed)
    BY <1>f, <2>1, <2>2, <2>6
  <2> QED  BY <1>a, <2>1, <2>4, <2>7
<1>3. ASSUME NEW t \in TaskIds, NEW r \in Requests, Introspecting(r), Refused(t, r)
      PROVE  StoreEarned
  <2> DEFINE task == Rejected(r)
  <2>1. tasks[t] = NoTask /\ Remember(t, task) /\ kept
    BY <1>3 DEF Refused
  <2>2. task \in Task /\ task.req = r /\ task.result = "rejected" /\ task.status = "COMPLETED"
    BY NewTaskFields
  <2>3. r \in Unposted => index[r] = None /\ executed[r] = 0
    BY <1>3, <1>e
  <2> HIDE DEF task
  <2>4. OneTask(tasks', index')
    BY <1>0, <2>1, <2>2, <2>3, OneRemembered DEF ServiceOK
  <2>5. Earned(task, disk'.index, executed)
    BY <2>2, <2>3 DEF Earned, Ended
  <2>6. AllEarned(tasks', disk'.index, executed)
    BY <1>f, <2>1, <2>2, <2>5
  <2>7. tasks'[t] = task /\ \A u \in TaskIds : u # t => tasks'[u] = tasks[u]
    BY <1>0, <2>1, <2>2, RememberIndex
  <2>8. \A u \in TaskIds : disk.tasks[u].result = "rejected" => tasks'[u].result = "rejected"
    BY <2>2, <2>7 DEF ServiceOK, DiskRejected
  <2> QED  BY <1>a, <2>1, <2>4, <2>6, <2>8
<1>4. ASSUME NEW busy \in SUBSET TaskIds, MayRun(busy), NEW stage, Schedule(busy, stage)
      PROVE  StoreEarned
  <2>1. index' = index /\ (kept \/ saved)
    BY <1>4 DEF Schedule, SaveStarted, Save
  <2>2. \A t \in TaskIds : /\ tasks'[t].result = tasks[t].result
                           /\ tasks'[t].req = tasks[t].req
                           /\ tasks'[t] \in Task => tasks[t] \in Task
    BY <1>4, ResultsKept
  <2>3. \A t \in TaskIds : tasks'[t].status = "QUEUED" => tasks[t].status = "QUEUED"
    BY <1>0, <1>4, OwnedStart DEF Schedule, OnceOK
  <2> QED  BY <1>a, <1>b, <1>c, <2>1, <2>2, <2>3 DEF ServiceOK, DiskRejected
<1>5. ASSUME NEW t \in TaskIds, NEW task, Worked(t, task) PROVE StoreEarned
  <2>a. kept \/ saved
    <3>1. disk' = disk \/ Save
      BY <1>5 DEF Worked
    <3> QED  BY <3>1 DEF Save
  <2>1. /\ tasks' = [tasks EXCEPT ![t] = task] /\ index' = index /\ task \in Task
        /\ task.req = tasks[t].req /\ wpc[t] \notin {"none", "delay"}
        /\ task.status = tasks[t].status \/ task.status = "COMPLETED"
        /\ task.result = tasks[t].result \/ (task.result \in Ended /\ task.status = "COMPLETED")
    BY <1>5 DEF Worked
  <2>2. tasks[t] \in Task /\ tasks[t].status # "QUEUED" /\ tasks[t].result # "rejected"
    BY <2>1 DEF IInv, WorkersOK, ServiceOK, WorkersEarned
  <2>3. Earned(tasks[t], disk.index, executed) /\ executed[tasks[t].req] > 0
    BY <2>1, <2>2 DEF ServiceOK, WorkersEarned, AllEarned
  <2>4. disk'.index[tasks[t].req] # None
    BY <1>g, <1>h, <2>2, <2>3 DEF Earned
  <2>5. Earned(task, disk'.index, executed)
    <3>1. task.result # "rejected" /\ task.status # "QUEUED"
      BY <2>1, <2>2 DEF Ended
    <3> QED  BY <2>1, <2>3, <2>4, <3>1 DEF Earned
  <2>6. tasks'[t] = task /\ \A u \in TaskIds : u # t => tasks'[u] = tasks[u]
    BY <1>0, <2>1 DEF MemoryOK, StoreOK
  <2>7. AllEarned(tasks', disk'.index, executed)
    BY <1>b, <2>1, <2>2, <2>5, <2>6
  <2>8. OneTask(tasks', index')
    BY <1>c, <2>1, <2>2, <2>6
  <2>9. \A u \in TaskIds : disk.tasks[u].result = "rejected" => tasks'[u].result = "rejected"
    BY <2>2, <2>6 DEF ServiceOK, DiskRejected
  <2> QED  BY <1>a, <2>a, <2>7, <2>8, <2>9
<1>6. ASSUME NEW snapshot, Reloaded(snapshot) PROVE StoreEarned
  <2>1. disk' = snapshot /\ tasks' = snapshot.tasks /\ index' = snapshot.index
    BY <1>6 DEF Reloaded, Boot
  <2>2. CASE snapshot = disk
    BY <1>d, <2>1, <2>2 DEF StoreEarned, ServiceOK
  <2>3. ASSUME NEW busy \in SUBSET TaskIds, MayRun(busy),
               snapshot = Snapshot(Started(busy), index, Remaining(busy))
        PROVE  StoreEarned
    <3>1. \A t \in TaskIds : /\ Started(busy)[t].req = tasks[t].req
                             /\ Started(busy)[t].result = tasks[t].result
      BY <1>0, <2>3, StartedFields DEF MayRun
    <3>2. \A t \in TaskIds : /\ tasks[t] \in Task <=> Started(busy)[t] \in Task
                             /\ Started(busy)[t].status = "QUEUED" => tasks[t].status = "QUEUED"
      BY <1>0, <2>3, OwnedStart DEF OnceOK
    <3>3. tasks' = Started(busy) /\ index' = index /\ saved
      BY <2>1, <2>3 DEF Snapshot
    <3> QED  BY <1>a, <1>b, <1>c, <3>1, <3>2, <3>3
  <2> QED  BY <1>6, <2>2, <2>3 DEF Reloaded
<1> QED  BY <1>1, <1>2, <1>3, <1>4, <1>5, <1>6 DEF StoreStep


\* What was executed stays so; only BeginExecution adds to it, and touches no record.
LEMMA ExecutedGrows ==
  ASSUME IInv, Next
  PROVE  /\ \A r \in Requests : executed[r] \in Nat /\ executed'[r] >= executed[r]
         /\ \A t \in TaskIds : BeginExecution(t) =>
              /\ tasks[t].req \in Requests /\ executed'[tasks[t].req] > 0
              /\ \A r \in Requests : r # tasks[t].req => executed'[r] = executed[r]
<1>1. executed \in [Requests -> Nat]
  BY DEF IInv, NetOK
<1>2. ASSUME NEW t \in TaskIds, BeginExecution(t)
      PROVE  /\ tasks[t].req \in Requests /\ executed'[tasks[t].req] > 0
             /\ \A r \in Requests : r # tasks[t].req => executed'[r] = executed[r]
             /\ \A r \in Requests : executed'[r] >= executed[r]
  <2> DEFINE q == tasks[t].req
  <2>1. q \in Requests
    BY <1>2 DEF BeginExecution, IInv, WorkersOK, Task
  <2>2. executed' = [executed EXCEPT ![q] = @ + 1]
    BY <1>2 DEF BeginExecution
  <2> HIDE DEF q
  <2>3. executed'[q] = executed[q] + 1 /\ \A r \in Requests : r # q => executed'[r] = executed[r]
    BY <1>1, <2>1, <2>2
  <2>4. executed'[q] > 0 /\ \A r \in Requests : executed'[r] >= executed[r]
    BY <1>1, <2>1, <2>3
  <2> QED  BY <2>1, <2>3, <2>4 DEF q
<1>3. CASE executed' = executed
  BY <1>1, <1>2, <1>3
<1> QED  BY <1>1, <1>2, <1>3, ExecutedFrame

\* Every step leaves the workers to what they have earned.
LEMMA WorkersServe ==
  ASSUME IInv, ServiceOK, Next
  PROVE  WorkersEarned'
<1> SUFFICES ASSUME NEW t \in TaskIds, wpc'[t] # "none"
             PROVE  /\ tasks'[t].result # "rejected"
                    /\ wpc'[t] # "delay" => executed'[tasks'[t].req] > 0
  BY DEF WorkersEarned
<1>1. CASE /\ wpc[t] # "none" /\ tasks'[t].req = tasks[t].req
           /\ tasks'[t].result = tasks[t].result \/ tasks'[t].result \in Ended
           /\ wpc[t] = "delay" => wpc'[t] = "delay" \/ BeginExecution(t)
  <2>1. tasks'[t].result # "rejected"
    BY <1>1 DEF ServiceOK, WorkersEarned, Ended
  <2>2. tasks[t].req \in Requests
    BY <1>1 DEF IInv, WorkersOK, Task
  <2>3. CASE wpc[t] # "delay"
    <3>1. executed[tasks[t].req] > 0
      BY <1>1, <2>3 DEF ServiceOK, WorkersEarned
    <3>2. /\ executed[tasks[t].req] \in Nat /\ executed'[tasks[t].req] >= executed[tasks[t].req]
      BY <2>2, ExecutedGrows
    <3>3. executed' \in [Requests -> Nat]
      BY StepInv DEF IInv, NetOK
    <3>4. executed'[tasks[t].req] > 0
      BY <2>2, <3>1, <3>2, <3>3
    <3> QED  BY <1>1, <2>1, <3>4
  <2>4. CASE BeginExecution(t)
    BY <1>1, <2>1, <2>4, ExecutedGrows
  <2> QED  BY <1>1, <2>1, <2>3, <2>4
<1>2. CASE /\ wpc'[t] = "delay" /\ tasks[t].status = "QUEUED"
           /\ tasks'[t].result = tasks[t].result /\ tasks'[t].req = tasks[t].req
  <2>1. tasks[t] \in Task
    BY <1>2, TaskFacts DEF IInv, MemoryOK, StoreOK
  <2>2. tasks[t].result = "none"
    BY <1>2, <2>1 DEF ServiceOK, AllEarned, Earned
  <2> QED  BY <1>2, <2>2
<1> QED  BY <1>1, <1>2, HeldTasks

\* A worker that starts to execute contradicts no record.
LEMMA ExecutionEarned ==
  ASSUME IInv, OnceOK, ServiceOK, Next, NEW t \in TaskIds, BeginExecution(t)
  PROVE  AllEarned(tasks, disk.index, executed') /\ AllEarned(disk.tasks, disk.index, executed')
<1>1. wpc[t] = "delay" /\ tasks[t] \in Task /\ tasks[t].status = "RUNNING"
  BY DEF BeginExecution, IInv, WorkersOK, OnceOK, Running
<1>2. ASSUME NEW u \in TaskIds, tasks[u] \in Task, tasks[u].req \in Unposted,
             tasks[u].req = tasks[t].req
      PROVE  tasks[u].result = "none"
  <2>1. index[tasks[t].req] = t /\ tasks[t].result = "none"
    BY <1>1, <1>2 DEF OnceOK, Owned
  <2>2. index[tasks[u].req] = u
    BY <1>2 DEF ServiceOK, OneTask
  <2> QED  BY <1>2, <2>1, <2>2
<1>3. ASSUME NEW task \in Task, Earned(task, disk.index, executed),
             task.req \in Unposted /\ task.req = tasks[t].req => task.result # "rejected"
      PROVE  Earned(task, disk.index, executed')
  <2>0. task.req \in Requests
    BY DEF Task
  <2>1. executed' \in [Requests -> Nat]
    BY StepInv DEF IInv, NetOK
  <2>2. executed[task.req] > 0 => executed'[task.req] > 0
    <3>1. executed[task.req] \in Nat /\ executed'[task.req] >= executed[task.req]
      BY <2>0, ExecutedGrows
    <3> QED  BY <2>0, <2>1, <3>1
  <2>3. task.result = "rejected" /\ task.req \in Unposted => executed'[task.req] = 0
    BY <1>3, <2>0, ExecutedGrows DEF Earned
  <2> QED  BY <1>3, <2>2, <2>3 DEF Earned
<1>4. ASSUME NEW u \in TaskIds, tasks[u] \in Task PROVE Earned(tasks[u], disk.index, executed')
  <2>1. Earned(tasks[u], disk.index, executed)
    BY <1>4 DEF ServiceOK, AllEarned
  <2> QED  BY <1>2, <1>3, <1>4, <2>1
<1>5. ASSUME NEW u \in TaskIds, disk.tasks[u] \in Task
      PROVE  Earned(disk.tasks[u], disk.index, executed')
  <2>1. Earned(disk.tasks[u], disk.index, executed)
    BY <1>5 DEF ServiceOK, AllEarned
  <2>2. /\ tasks[u] \in Task /\ tasks[u].req = disk.tasks[u].req
        /\ disk.tasks[u].result = "rejected" => tasks[u].result = "rejected"
    BY <1>5 DEF OnceOK, SameRequests, ServiceOK, DiskRejected
  <2> QED  BY <1>2, <1>3, <1>5, <2>1, <2>2
<1> QED  BY <1>4, <1>5 DEF AllEarned

\* Every step keeps the invariant behind the service.
LEMMA ServiceStep ==
  ASSUME IInv, IndexOK, OnceOK, ServiceOK, Next
  PROVE  ServiceOK'
<1>1. StoreEarned /\ WorkersEarned'
  BY NextStore, StoreServes, WorkersServe
<1>2. CASE executed' = executed
  BY <1>1, <1>2 DEF StoreEarned, ServiceOK, DiskRejected
<1>3. ASSUME NEW t \in TaskIds, BeginExecution(t) PROVE ServiceOK'
  <2>1. UNCHANGED <<tasks, index, disk>>
    BY <1>3 DEF BeginExecution, storeVars
  <2>2. AllEarned(tasks, disk.index, executed') /\ AllEarned(disk.tasks, disk.index, executed')
    BY <1>3, ExecutionEarned
  <2> QED  BY <1>1, <2>1, <2>2 DEF StoreEarned, ServiceOK, DiskRejected
<1> QED  BY <1>2, <1>3, ExecutedFrame

\* It holds in every reachable state, when one loop pulls.
LEMMA Served ==
  ASSUME OneLoop
  PROVE  Spec => []ServiceOK
<1>1. Init => ServiceOK
  <2> SUFFICES ASSUME Init PROVE ServiceOK
    OBVIOUS
  <2> USE DEF Init, EmptyStore
  <2>1. \A t \in TaskIds : tasks[t] = NoTask /\ disk.tasks[t] = NoTask /\ wpc[t] = "none"
    OBVIOUS
  <2> QED  BY <2>1, TaskFacts DEF ServiceOK, AllEarned, OneTask, DiskRejected, WorkersEarned, NoTask
<1>2. IInv /\ DeliveryOK /\ OnceOK /\ ServiceOK /\ [Next]_vars => ServiceOK'
  <2> SUFFICES ASSUME IInv, DeliveryOK, OnceOK, ServiceOK, [Next]_vars PROVE ServiceOK'
    OBVIOUS
  <2>1. CASE Next
    BY <2>1, ServiceStep DEF DeliveryOK
  <2>2. CASE UNCHANGED vars
    BY <2>2 DEF vars, storeVars, workVars, seenVars, ServiceOK, AllEarned, OneTask, DiskRejected,
                WorkersEarned
  <2> QED  BY <2>1, <2>2
<1> QED  BY <1>1, <1>2, Invariant, Delivery, Once, PTL DEF Spec


\* What the service sees of a snapshot: the requests a restart will find.
Recorded == {r \in Requests : disk.index[r] # None}

\* A save that others see only as more recorded requests.
LEMMA RecordServes ==
  ASSUME IInv, IndexOK, Next, UNCHANGED <<executed, sent, reported, consumed>>
  PROVE  \E new \in SUBSET Requests : Service!Record(new)
<1>1. Recorded \subseteq Recorded'
  BY NextStore, IndexStep DEF Recorded
<1>2. \E new \in SUBSET Requests : Recorded' = new
  BY DEF Recorded
<1>3. PICK new \in SUBSET Requests : Recorded' = new
  BY <1>2
<1>4. Recorded' = Recorded \cup new
  BY <1>1, <1>3
<1>5. Service!Record(new)
  BY <1>4 DEF Recorded, Service!Record
<1> QED  BY <1>5

\* The execution of a task is one the service allows.
LEMMA ExecuteServes ==
  ASSUME IInv, IndexOK, OnceOK, ServiceOK, NEW t \in TaskIds, BeginExecution(t)
  PROVE  \E r \in Requests : Service!Execute(r)
<1> DEFINE r == tasks[t].req
<1>1. /\ wpc[t] = "delay" /\ executed' = [executed EXCEPT ![r] = @ + 1]
      /\ UNCHANGED <<disk, sent, reported, consumed>>
  BY DEF BeginExecution, netVars
<1>2. tasks[t] \in Task /\ r \in Requests
  BY <1>1 DEF IInv, WorkersOK, Task
<1>3. disk.index[r] # None
  BY <1>1, <1>2 DEF ServiceOK, WorkersEarned, AllEarned, Earned
<1>4. executed[r] = 0 \/ r \in PostReqs
  BY <1>1, <1>2 DEF OnceOK, Unexecuted, Unposted
<1>5. Service!Execute(r)
  BY <1>1, <1>2, <1>3, <1>4 DEF Service!Execute
<1> QED  BY <1>2, <1>5

\* Sending what a task record says is an answer the service allows.
LEMMA AnswerServes ==
  ASSUME NEW r \in Requests, NEW res \in Ended \cup {"rejected"},
         res \in Ended => disk.index[r] # None /\ executed[r] > 0,
         res = "rejected" => executed[r] = 0 \/ r \in PostReqs,
         sent' = sent \cup {<<r, res>>}, UNCHANGED <<disk, executed, reported, consumed>>
  PROVE  Service!AnswerOutcome(r) \/ Service!Refuse(r)
<1>1. Service!Answer(r, res)
  BY DEF Service!Answer
<1>2. CASE res \in Ended
  <2>1. r \in Recorded /\ res \in Service!Endings
    BY <1>2 DEF Recorded, Service!Endings, Ended
  <2> QED  BY <1>1, <1>2, <2>1 DEF Service!AnswerOutcome, Recorded
<1>3. CASE res = "rejected"
  BY <1>1, <1>3 DEF Service!Refuse
<1>4. res \in Ended \/ res = "rejected"
  OBVIOUS
<1> QED  BY <1>2, <1>3, <1>4

\* The service's step or none.
Serves == Service!Next \/ UNCHANGED <<disk, executed, sent, reported, consumed>>

\* Sending a result.
LEMMA SendServes ==
  ASSUME IInv, IndexOK, OnceOK, ServiceOK, Next,
         \/ \E p \in Pullers : ReplayResult(p) \/ RejectTask(p)
         \/ \E t \in TaskIds : ExecutorReturns(t) \/ ExecutorThrows(t) \/ FailTask(t)
  PROVE  Serves
<1>1. ASSUME NEW p \in Pullers, ReplayResult(p) PROVE Serves
  <2> DEFINE task == tasks[index[Envelope(p).req]]
  <2>1. /\ Envelope(p).req \in Requests /\ index[Envelope(p).req] # None /\ task.result # "none"
        /\ UNCHANGED <<disk, executed, reported, consumed>>
        /\ sent' = sent \/ sent' = sent \cup {<<task.req, task.result>>}
    BY <1>1, EnvelopeType DEF ReplayResult, Known, IInv, PullsOK, SendResult, netVars
  <2>2. index[Envelope(p).req] \in TaskIds /\ task \in Task
    BY <2>1, SellerAssumption DEF IInv, MemoryOK, StoreOK, TaskIds, None
  <2>3. Earned(task, disk.index, executed)
    BY <2>2 DEF ServiceOK, AllEarned
  <2>4. task.req \in Requests /\ task.result \in Ended \cup {"rejected"}
    BY <2>1, <2>2 DEF Task, Results, Ended
  <2> HIDE DEF task
  <2>5. CASE sent' = sent
    BY <2>1, <2>5 DEF Serves
  <2>6. CASE sent' = sent \cup {<<task.req, task.result>>}
    <3>1. task.result \in Ended => disk.index[task.req] # None /\ executed[task.req] > 0
      BY <2>3 DEF Earned, Ended
    <3>2. task.result = "rejected" => executed[task.req] = 0 \/ task.req \in PostReqs
      BY <2>3, <2>4 DEF Earned, Unposted
    <3>3. Service!AnswerOutcome(task.req) \/ Service!Refuse(task.req)
      BY <2>1, <2>4, <2>6, <3>1, <3>2, AnswerServes
    <3> QED  BY <2>4, <3>3 DEF Serves, Service!Next
  <2> QED  BY <2>1, <2>5, <2>6
<1>2. ASSUME NEW p \in Pullers, RejectTask(p) PROVE Serves
  <2> DEFINE r == Envelope(p).req
  <2>1. /\ ppc[p] = "introspect" /\ r \in Requests /\ UNCHANGED <<disk, executed, reported, consumed>>
        /\ sent' = sent \/ sent' = sent \cup {<<r, "rejected">>}
    BY <1>2, EnvelopeType DEF RejectTask, IInv, PullsOK, SendResult, netVars
  <2>2. executed[r] = 0 \/ r \in PostReqs
    BY <2>1, IntrospectedFresh DEF Introspecting, OnceOK, Unposted
  <2> HIDE DEF r
  <2>3. CASE sent' = sent
    BY <2>1, <2>3 DEF Serves
  <2>4. CASE sent' = sent \cup {<<r, "rejected">>}
    <3>1. Service!AnswerOutcome(r) \/ Service!Refuse(r)
      BY <2>1, <2>2, <2>4, AnswerServes DEF Ended
    <3> QED  BY <2>1, <3>1 DEF Serves, Service!Next
  <2> QED  BY <2>1, <2>3, <2>4
<1>3. ASSUME NEW t \in TaskIds, ExecutorReturns(t) \/ ExecutorThrows(t) \/ FailTask(t) PROVE Serves
  <2>1. wpc[t] \notin {"none", "delay"} /\ \E res \in Ended : FinalizeTask(t, res)
    BY <1>3 DEF ExecutorReturns, ExecutorThrows, FailTask, Ended
  <2>2. PICK res \in Ended : FinalizeTask(t, res)
    BY <2>1
  <2> DEFINE r == tasks[t].req
  <2>3. /\ UNCHANGED <<disk, executed, reported, consumed>>
        /\ sent' = sent \/ sent' = sent \cup {<<r, res>>}
    BY <2>2 DEF FinalizeTask, SendResult, netVars
  <2>4. tasks[t] \in Task /\ r \in Requests
    BY <2>1 DEF IInv, WorkersOK, Task
  <2>5. disk.index[r] # None /\ executed[r] > 0
    BY <2>1, <2>4 DEF ServiceOK, WorkersEarned, AllEarned, Earned
  <2> HIDE DEF r
  <2>6. CASE sent' = sent
    BY <2>3, <2>6 DEF Serves
  <2>7. CASE sent' = sent \cup {<<r, res>>}
    <3>1. res \in Ended \cup {"rejected"} /\ res # "rejected"
      BY DEF Ended
    <3>2. Service!AnswerOutcome(r) \/ Service!Refuse(r)
      BY <2>3, <2>4, <2>5, <2>7, <3>1, AnswerServes
    <3> QED  BY <2>4, <3>2 DEF Serves, Service!Next
  <2> QED  BY <2>3, <2>6, <2>7
<1> QED  BY <1>1, <1>2, <1>3

\* Reporting to the platform.
LEMMA ReportServes ==
  ASSUME IInv, IndexOK, PromisesOK, ServiceOK,
         \/ \E p \in Pullers : AckPlatform(p)
         \/ \E t \in TaskIds : PostLifecycleEvent(t)
  PROVE  Serves
<1>1. ASSUME NEW p \in Pullers, AckPlatform(p) PROVE Serves
  <2> DEFINE r == Envelope(p).req
  <2>1. /\ r \in Requests /\ disk.index[r] # None
        /\ UNCHANGED <<disk, executed, sent, consumed>>
        /\ reported' = reported \/ reported' = [reported EXCEPT ![r] = @ \cup {"ACKED"}]
    BY <1>1, EnvelopeType DEF AckPlatform, IInv, PullsOK, PromisesOK, Promise, Report, netVars
  <2> HIDE DEF r
  <2>2. CASE reported' = reported
    BY <2>1, <2>2 DEF Serves
  <2>3. CASE reported' = [reported EXCEPT ![r] = @ \cup {"ACKED"}]
    <3>1. Service!Report(r)
      BY <2>1, <2>3 DEF Service!Report, Service!Tell
    <3> QED  BY <2>1, <3>1 DEF Serves, Service!Next
  <2> QED  BY <2>1, <2>2, <2>3
<1>2. ASSUME NEW t \in TaskIds, PostLifecycleEvent(t) PROVE Serves
  <2> DEFINE r == tasks[t].req
             event == IF tasks[t].result = "ok" THEN "COMPLETED" ELSE "FAILED"
  <2>1. /\ wpc[t] = "event" /\ UNCHANGED <<disk, executed, sent, consumed>>
        /\ reported' = reported \/ reported' = [reported EXCEPT ![r] = @ \cup {event}]
    BY <1>2 DEF PostLifecycleEvent, Report, netVars
  <2>2. tasks[t] \in Task /\ r \in Requests /\ executed[r] > 0
    BY <2>1 DEF IInv, WorkersOK, Task, ServiceOK, WorkersEarned
  <2>3. tasks[t].result \in Ended /\ (r \in PostReqs \/ <<r, tasks[t].result>> \in sent)
    BY <2>1, <2>2 DEF PromisesOK, Outcome, IndexOK, CameRouted, Ended
  <2>4. CASE reported' = reported
    BY <2>1, <2>4 DEF Serves
  <2>5. CASE reported' = [reported EXCEPT ![r] = @ \cup {event}]
    <3>0. Service!Tell(r, event)
      BY <2>1, <2>5 DEF Service!Tell
    <3>1. CASE tasks[t].result = "ok"
      <4>1. event = "COMPLETED" /\ (Service!Answered(r, {"ok"}) \/ r \in PostReqs)
        BY <2>3, <3>1 DEF Service!Answered
      <4>2. Service!Report(r)
        BY <2>2, <3>0, <4>1 DEF Service!Report
      <4> QED  BY <2>2, <4>2 DEF Serves, Service!Next
    <3>2. CASE tasks[t].result # "ok"
      <4>1. tasks[t].result \in Service!Endings \ {"ok"}
        BY <2>3, <3>2 DEF Service!Endings, Ended
      <4>2. event = "FAILED" /\ (Service!Answered(r, Service!Endings \ {"ok"}) \/ r \in PostReqs)
        BY <2>3, <3>2, <4>1 DEF Service!Answered
      <4>3. Service!Report(r)
        BY <2>2, <3>0, <4>2 DEF Service!Report
      <4> QED  BY <2>2, <4>3 DEF Serves, Service!Next
    <3> QED  BY <3>1, <3>2
  <2> QED  BY <2>1, <2>4, <2>5
<1> QED  BY <1>1, <1>2


\* An answer is a refusal, or its request is on disk.
AnswersKnown ==
  \A r \in Requests, res \in Results : <<r, res>> \in sent
    => res = "rejected" \/ (res \in Ended /\ disk.index[r] # None)

\* Taking a message off the mailbox.
LEMMA TakeServes ==
  ASSUME IInv, IndexOK, PromisesOK, AnswersKnown, NEW p \in Pullers,
         AckHandled(p) \/ AckDuplicate(p)
  PROVE  Serves
<1> DEFINE r == Envelope(p).req
<1>1. /\ r \in Requests /\ UNCHANGED <<disk, executed, sent, reported>>
      /\ consumed' = consumed \/ consumed' = consumed \cup {r}
  BY EnvelopeType DEF AckHandled, AckDuplicate, AckEnvelope, IInv, PullsOK, seenVars
<1>2. disk.index[r] # None \/ Answered(r)
  <2>1. CASE AckHandled(p)
    BY <2>1 DEF AckHandled, PromisesOK, Promise
  <2>2. CASE AckDuplicate(p)
    BY <1>1, <2>2 DEF AckDuplicate, Known, IndexOK
  <2> QED  BY <2>1, <2>2
<1>3. disk.index[r] # None \/ <<r, "rejected">> \in sent
  BY <1>1, <1>2 DEF Answered, AnswersKnown
<1> HIDE DEF r
<1>4. CASE consumed' = consumed
  BY <1>1, <1>4 DEF Serves
<1>5. CASE consumed' = consumed \cup {r}
  <2>1. Service!Take(r)
    BY <1>1, <1>3, <1>5 DEF Service!Take, Service!Answered
  <2> QED  BY <1>1, <2>1 DEF Serves, Service!Next
<1> QED  BY <1>1, <1>4, <1>5

\* Every step of the controller is one the service allows, or none that others see.
LEMMA NextServes ==
  ASSUME IInv, IndexOK, PromisesOK, OnceOK, ServiceOK, AnswersKnown, Next
  PROVE  Serves
<1> DEFINE quiet == UNCHANGED <<executed, sent, reported, consumed>>
<1>a. ASSUME quiet PROVE Serves
  <2>1. \E new \in SUBSET Requests : Service!Record(new)
    BY <1>a, RecordServes
  <2> QED  BY <2>1 DEF Serves, Service!Next
<1>1. ASSUME NEW r \in Requests, SendRequest(r) \/ PostTask(r) PROVE quiet
  BY <1>1 DEF SendRequest, PostTask, seenVars, netVars
<1>2. ASSUME NEW p \in Pullers, PullStep(p) PROVE Serves
  <2>1. CASE AckHandled(p) \/ AckDuplicate(p)
    BY <2>1, TakeServes
  <2>2. CASE ReplayResult(p) \/ RejectTask(p)
    BY <2>2, SendServes
  <2>3. CASE AckPlatform(p)
    BY <2>3, ReportServes
  <2>4. CASE \/ PollInbox(p) \/ SkipEnvelope(p) \/ ReceiveEnvelope(p) \/ CreateTask(p)
             \/ IntrospectionFails(p) \/ ReportRejected(p) \/ AcceptTask(p)
             \/ ScheduleAccepted(p) \/ SaveHandled(p)
    <3>1. quiet
      BY <2>4 DEF PollInbox, SkipEnvelope, ReceiveEnvelope, CreateTask, IntrospectionFails,
                  ReportRejected, AcceptTask, ScheduleAccepted, SaveHandled, seenVars, netVars
    <3> QED  BY <1>a, <3>1
  <2> QED  BY <1>2, <2>1, <2>2, <2>3, <2>4 DEF PullStep
<1>3. ASSUME NEW t \in TaskIds, WorkStep(t) PROVE Serves
  <2>1. CASE BeginExecution(t)
    BY <2>1, ExecuteServes DEF Serves, Service!Next
  <2>2. CASE ExecutorReturns(t) \/ ExecutorThrows(t) \/ FailTask(t)
    BY <2>2, SendServes
  <2>3. CASE PostLifecycleEvent(t)
    BY <2>3, ReportServes
  <2>4. CASE \/ ExecutorDefers(t) \/ ReportResult(t) \/ SaveOutcome(t) \/ ReleaseWorker(t)
             \/ Reschedule(t) \/ UnhandledRejection(t)
    <3>1. quiet
      BY <2>4 DEF ExecutorDefers, ReportResult, SaveOutcome, ReleaseWorker, Reschedule,
                  UnhandledRejection, seenVars, netVars
    <3> QED  BY <1>a, <3>1
  <2> QED  BY <1>3, <2>1, <2>2, <2>3, <2>4 DEF WorkStep
<1>4. ASSUME SchedulePosted \/ Heartbeat \/ Crash PROVE quiet
  BY <1>4 DEF SchedulePosted, Heartbeat, Crash, seenVars, netVars
<1> HIDE DEF quiet
<1> QED  BY <1>a, <1>1, <1>2, <1>3, <1>4 DEF Next

\* A step of the service sends nothing else than AnswersKnown allows.
LEMMA AnswersStep ==
  ASSUME IInv, IndexOK, AnswersKnown, Next, Serves
  PROVE  AnswersKnown'
<1>0. \A r \in Requests : disk.index[r] # None => disk'.index[r] # None
  BY NextStore, IndexStep
<1>1. CASE sent' = sent
  BY <1>0, <1>1 DEF AnswersKnown
<1>2. ASSUME NEW q \in Requests, NEW res,
             res = "rejected" \/ (res \in Ended /\ disk.index[q] # None),
             sent' = sent \cup {<<q, res>>}
      PROVE  AnswersKnown'
  BY <1>0, <1>2 DEF AnswersKnown
<1>3. \/ sent' = sent
      \/ \E q \in Requests : \E res :
           /\ res = "rejected" \/ (res \in Ended /\ disk.index[q] # None)
           /\ sent' = sent \cup {<<q, res>>}
  <2>1. ASSUME NEW q \in Requests, Service!AnswerOutcome(q) \/ Service!Refuse(q)
        PROVE  \E res : /\ res = "rejected" \/ (res \in Ended /\ disk.index[q] # None)
                        /\ sent' = sent \cup {<<q, res>>}
    BY <2>1 DEF Service!AnswerOutcome, Service!Refuse, Service!Answer, Service!Endings, Ended
  <2>2. ASSUME NEW q \in Requests, Service!Execute(q) \/ Service!Report(q) \/ Service!Take(q)
        PROVE  sent' = sent
    BY <2>2 DEF Service!Execute, Service!Report, Service!Tell, Service!Take
  <2>3. ASSUME NEW new \in SUBSET Requests, Service!Record(new) PROVE sent' = sent
    BY <2>3 DEF Service!Record
  <2> QED  BY <2>1, <2>2, <2>3 DEF Serves, Service!Next
<1> QED  BY <1>1, <1>2, <1>3

\* The controller implements SellerService when one loop pulls: a request is executed once
\* it is on disk, and once unless it may be posted; an outcome is sent only of what was
\* executed, a refusal only of what was not; the platform is told what is so; and a message
\* leaves the mailbox only when its request is on disk or was refused.
THEOREM ServiceImplemented ==
  ASSUME OneLoop
  PROVE  Spec => ImplementsService
<1>1. Init => Service!Init /\ AnswersKnown
  <2> SUFFICES ASSUME Init PROVE Service!Init /\ AnswersKnown
    OBVIOUS
  <2>1. {r \in Requests : disk.index[r] # None} = {}
    BY DEF Init, EmptyStore
  <2> QED  BY <2>1 DEF Init, Service!Init, AnswersKnown
<1>2. IInv /\ DeliveryOK /\ OnceOK /\ ServiceOK /\ AnswersKnown /\ [Next]_vars => AnswersKnown'
  <2> SUFFICES ASSUME IInv, DeliveryOK, OnceOK, ServiceOK, AnswersKnown, [Next]_vars
               PROVE  AnswersKnown'
    OBVIOUS
  <2>1. CASE Next
    BY <2>1, NextServes, AnswersStep DEF DeliveryOK
  <2>2. CASE UNCHANGED vars
    BY <2>2 DEF vars, seenVars, AnswersKnown
  <2> QED  BY <2>1, <2>2
<1>3. IInv /\ DeliveryOK /\ OnceOK /\ ServiceOK /\ AnswersKnown /\ [Next]_vars
        => [Service!Next]_(Service!serviceVars)
  <2> SUFFICES ASSUME IInv, DeliveryOK, OnceOK, ServiceOK, AnswersKnown, [Next]_vars
               PROVE  Service!Next \/ UNCHANGED Service!serviceVars
    OBVIOUS
  <2>1. Serves
    <3>1. CASE Next
      BY <3>1, NextServes DEF DeliveryOK
    <3>2. CASE UNCHANGED vars
      BY <3>2 DEF vars, seenVars, netVars, Serves
    <3> QED  BY <3>1, <3>2
  <2> QED  BY <2>1 DEF Serves, Service!serviceVars
<1> QED  BY <1>1, <1>2, <1>3, Invariant, Delivery, Once, Served, PTL
         DEF Spec, ImplementsService, Service!Spec

=============================================================================
