-------------------------- MODULE PlatformRequests --------------------------
(***************************************************************************)
(* The platform's record of requests: apps/platform-api/src/server.js,     *)
(* POST tokens/task, delivery-meta, ack and events, and the moderation of  *)
(* the catalog as far as it decides who may be asked; with the store that  *)
(* keeps a snapshot (packages/sqlite-store, packages/postgres-store).      *)
(*                                                                         *)
(* A handler changes the memory in one go, then saves, then answers.  The  *)
(* sqlite store saves before anything else can run.  The postgres store    *)
(* takes a connection and runs BEGIN, DELETE, INSERT, COMMIT, and other    *)
(* handlers run in between: their transactions overlap.  Which requests a  *)
(* snapshot holds is fixed when the handler calls the store, what it says  *)
(* of them is read when the INSERT is sent.                                *)
(*                                                                         *)
(* A subagent belongs to one seller for good (SUBAGENT_ID_ALREADY_EXISTS), *)
(* so the subagent stands for the pair.  A handler that answers an error   *)
(* changes nothing, and has no action.                                     *)
(***************************************************************************)
EXTENDS Integers, Sequences

CONSTANTS
  Requests,       \* request ids
  Buyers,         \* user ids of buyers
  Subagents,      \* subagents in the catalog
  Handlers,       \* HTTP handlers in progress at a time
  Store,          \* which store is configured
  Limit,          \* PLATFORM_REQUEST_EVENT_HISTORY_LIMIT (200)
  MaxEvents,      \* bound: events ever appended for a request
  MaxModerations, \* bound: changes of what is public
  MaxFaults,      \* bound: saves that fail
  MaxCrashes      \* bound: crashes

Null == "null"
SellerEvents == {"ACKED", "COMPLETED", "FAILED"}
EventTypes == SellerEvents \cup {"TASK_TOKEN_ISSUED", "DELIVERY_META_ISSUED"}

ASSUME PlatformAssumption ==
  /\ Null \notin Buyers \cup Subagents \cup Requests
  /\ Store \in {"sqlite", "postgres"}
  /\ Limit \in Nat \ {0}
  /\ {MaxEvents, MaxModerations, MaxFaults, MaxCrashes} \subseteq Nat

VARIABLES
  mem,       \* the state in memory: requests, public, version
  rows,      \* committed rows of the snapshot table, by the handler that inserted them
  call,      \* the save each handler waits for (postgres)
  promised,  \* what the platform has answered with a 2xx
  kept,      \* of these, what was saved while no other save was under way
  codes,     \* display codes drawn (they are random: a new one is always fresh)
  faults, crashes

vars == <<mem, rows, call, promised, kept, codes, faults, crashes>>

-----------------------------------------------------------------------------
(* Requests                                                                *)

\* appended counts the events ever appended; the code keeps only the last Limit.
Histories == {s \in Seq(EventTypes) : Len(s) <= Limit}
Request ==
  [buyer : Buyers \cup {Null}, subagent : Subagents \cup {Null}, code : Nat,
   events : Histories, appended : Nat]

\* getOrCreateRequest: a request that does not exist has no buyer.
FreshRequest ==
  [buyer |-> Null, subagent |-> Null, code |-> 0, events |-> <<>>, appended |-> 0]

Known(x) == x.buyer # Null

PushUncapped(history, e) == Append(history, e)
PushKeepsOldest(history, e) == IF Len(history) >= Limit THEN history ELSE Append(history, e)
PushCapped(history, e) ==
  LET longer == Append(history, e)
  IN  IF Len(longer) > Limit THEN SubSeq(longer, Len(longer) - Limit + 1, Len(longer))
      ELSE longer

AppendEvent(x, e) ==
  [x EXCEPT !.events = PushCapped(@, e), !.appended = @ + 1]

Matching(x, e) == {j \in DOMAIN x.events : x.events[j] = e}

NeverRecorded(x, e) == FALSE
Recorded(x, e) == Matching(x, e) # {}

\* The checks all four handlers make.
Bindable(x, a) == x.subagent \in {Null, a}

\* The operator's review tests (server.js:2492-2515) bind an id without asking Bindable: here they
\* have ids of their own (module ReviewTests).
BindRequest(x, b, a) == [x EXCEPT !.buyer = b, !.subagent = a]

NewCode(x) == codes + 1
CodeFor(x) == IF x.code = 0 THEN codes + 1 ELSE x.code

-----------------------------------------------------------------------------
(* What is answered, and what a snapshot says of it                        *)

Kinds == SellerEvents \cup {"token", "meta", "moderated"}
Facts == [kind : Kinds, req : Requests \cup {Null}, n : Nat]
Fact(kind, r, n) == [kind |-> kind, req |-> r, n |-> n]

Doc == [requests : [Requests -> Request], public : SUBSET Subagents, version : Nat]

\* Without a snapshot the platform starts with its bootstrap catalog and no request.
EmptyDoc ==
  [requests |-> [r \in Requests |-> FreshRequest], public |-> Subagents, version |-> 0]

\* A seller event is still known, or Limit later ones have pushed it out of the history.
Holds(doc, f) ==
  \/ f.kind = "moderated" /\ doc.version >= f.n
  \/ f.kind = "token" /\ Known(doc.requests[f.req])
  \/ f.kind = "meta" /\ doc.requests[f.req].code = f.n
  \/ /\ f.kind \in SellerEvents
     /\ \/ Matching(doc.requests[f.req], f.kind) # {}
        \/ doc.requests[f.req].appended >= f.n + Limit

\* The number of the event at position j of the history.
Number(x, j) == x.appended - Len(x.events) + j

-----------------------------------------------------------------------------
(* Saving                                                                  *)

IdleCall ==
  [pc |-> "idle", fact |-> Fact("token", Null, 0), keys |-> {}, seen |-> {},
   deleted |-> {}, doc |-> EmptyDoc, alone |-> FALSE]

Idle(h) == call[h].pc = "idle"
OthersIdle(h) == \A d \in Handlers \ {h} : Idle(d)

\* Array.from(state.requests.entries()): the keys of the state the handler leaves.
KeysBefore == {r \in Requests : Known(mem.requests[r])}
SavedKeys == {r \in Requests : Known(mem'.requests[r])}

\* JSON.stringify at the INSERT: the records are the live ones.
Serialized(keys) ==
  [mem EXCEPT !.requests = [r \in Requests |-> IF r \in keys THEN @[r] ELSE FreshRequest]]

\* One synchronous transaction; if it throws, the caller gets a 500.
SaveNow(h, f) ==
  /\ rows' = [d \in {h} |-> mem']
  /\ promised' = promised \cup {f} /\ kept' = kept \cup {f}
  /\ UNCHANGED <<call, faults>>

SaveThrows ==
  /\ faults < MaxFaults /\ faults' = faults + 1
  /\ UNCHANGED <<rows, promised, kept, call>>

BeginSave(h, f) ==
  /\ call' = [d \in Handlers |->
       IF d = h THEN [IdleCall EXCEPT !.pc = "delete", !.fact = f, !.keys = SavedKeys,
                                      !.alone = OthersIdle(h)]
       ELSE [call[d] EXCEPT !.alone = FALSE]]
  /\ UNCHANGED <<rows, promised, kept, faults>>

\* persistPlatformState; the handler answers with f when it is done.
Persist(h, f) ==
  \/ Store = "sqlite" /\ (SaveNow(h, f) \/ SaveThrows)
  \/ Store = "postgres" /\ BeginSave(h, f)

\* A transaction sees the rows committed when its DELETE starts.
StartDelete(h) ==
  /\ call[h].pc = "delete"
  /\ call' = [call EXCEPT ![h].pc = "insert", ![h].seen = DOMAIN rows]
  /\ UNCHANGED <<mem, rows, promised, kept, codes, faults, crashes>>

\* The DELETE waits for a transaction that has deleted one of them.
WaitsForAny(h) == \E d \in Handlers \ {h} : call[d].pc \in {"insert", "commit"}
WaitsFor(h) ==
  \E d \in Handlers \ {h} : call[d].pc = "commit" /\ call[d].deleted \cap call[h].seen # {}

Insert(h) ==
  /\ call[h].pc = "insert" /\ ~WaitsFor(h)
  /\ call' = [call EXCEPT ![h].pc = "commit", ![h].deleted = @ \cup call[h].seen,
                          ![h].doc = Serialized(call[h].keys)]
  /\ UNCHANGED <<mem, rows, promised, kept, codes, faults, crashes>>

\* A row that is gone, or whose place a new one takes, is not seen by a waiting DELETE.
Commit(h) ==
  LET gone == call[h].deleted IN
  /\ call[h].pc = "commit"
  /\ rows' = [d \in (DOMAIN rows \ gone) \cup {h} |-> IF d = h THEN call[h].doc ELSE rows[d]]
  /\ call' = [d \in Handlers |->
       IF d = h THEN IdleCall ELSE [call[d] EXCEPT !.seen = @ \ (gone \cup {h})]]
  /\ promised' = promised \cup {call[h].fact}
  /\ kept' = IF call[h].alone THEN kept \cup {call[h].fact} ELSE kept
  /\ UNCHANGED <<mem, codes, faults, crashes>>

\* ROLLBACK, and a 500 to the caller: the memory keeps the change.
RollBack(h) ==
  /\ ~Idle(h)
  /\ faults < MaxFaults /\ faults' = faults + 1
  /\ call' = [call EXCEPT ![h] = IdleCall]
  /\ UNCHANGED <<mem, rows, promised, kept, codes, crashes>>

StoreStep(h) == StartDelete(h) \/ Insert(h) \/ Commit(h)

-----------------------------------------------------------------------------
(* Handlers                                                                *)

SetRequest(r, x) == mem' = [mem EXCEPT !.requests[r] = x]

IssueToken(h, r, b, a) ==
  LET x == mem.requests[r] IN
  /\ Idle(h) /\ x.appended < MaxEvents
  /\ a \in mem.public
  /\ x.buyer \in {Null, b} /\ Bindable(x, a)
  /\ SetRequest(r, AppendEvent(BindRequest(x, b, a), "TASK_TOKEN_ISSUED"))
  /\ Persist(h, Fact("token", r, 0))
  /\ UNCHANGED <<codes, crashes>>

\* A token sent along can only make the handler refuse.
IssueDeliveryMeta(h, r, b, a) ==
  LET x == mem.requests[r] IN
  /\ Idle(h) /\ x.appended < MaxEvents
  /\ a \in mem.public
  /\ Known(x) /\ x.buyer = b /\ Bindable(x, a)
  /\ SetRequest(r, AppendEvent([BindRequest(x, b, a) EXCEPT !.code = CodeFor(x)],
                               "DELIVERY_META_ISSUED"))
  /\ codes' = IF CodeFor(x) > codes THEN CodeFor(x) ELSE codes
  /\ Persist(h, Fact("meta", r, CodeFor(x)))
  /\ UNCHANGED crashes

RecordEvent(h, r, a, e) ==
  LET x == mem.requests[r] IN
  /\ Idle(h) /\ x.appended < MaxEvents
  /\ Known(x) /\ Bindable(x, a) /\ ~Recorded(x, e)
  /\ SetRequest(r, AppendEvent(BindRequest(x, x.buyer, a), e))
  /\ Persist(h, Fact(e, r, x.appended + 1))
  /\ UNCHANGED <<codes, crashes>>

\* The event is in the history: answered at once, and nothing is saved.
AnswerRecorded(h, r, a, e) ==
  LET x == mem.requests[r] IN
  /\ Idle(h)
  /\ Known(x) /\ Bindable(x, a) /\ Recorded(x, e)
  /\ \E j \in Matching(x, e) : promised' = promised \cup {Fact(e, r, Number(x, j))}
  /\ SetRequest(r, BindRequest(x, x.buyer, a))
  /\ UNCHANGED <<rows, call, kept, codes, faults, crashes>>

AckRequest(h, r, a) == RecordEvent(h, r, a, "ACKED") \/ AnswerRecorded(h, r, a, "ACKED")

ReportEvent(h, r, a) ==
  \E e \in {"COMPLETED", "FAILED"} : RecordEvent(h, r, a, e) \/ AnswerRecorded(h, r, a, e)

\* Submissions, approvals, rejections, enabling and disabling: which subagents are public.
Moderate(h, public) ==
  /\ Idle(h) /\ mem.version < MaxModerations
  /\ public # mem.public
  /\ mem' = [mem EXCEPT !.public = public, !.version = @ + 1]
  /\ Persist(h, Fact("moderated", Null, mem.version + 1))
  /\ UNCHANGED <<codes, crashes>>

-----------------------------------------------------------------------------
(* Restart                                                                 *)

\* SELECT without an order: with two rows, either may come first.
Loadable == IF DOMAIN rows = {} THEN {EmptyDoc} ELSE {rows[d] : d \in DOMAIN rows}

\* The snapshot, when there is only one to load, as with the sqlite store.
Snapshot == CHOOSE doc \in Loadable : TRUE

Hydrate(doc) == doc

Crash ==
  /\ crashes < MaxCrashes /\ crashes' = crashes + 1
  /\ \E doc \in Loadable : mem' = Hydrate(doc)
  /\ call' = [h \in Handlers |-> IdleCall]
  /\ UNCHANGED <<rows, promised, kept, codes, faults>>

-----------------------------------------------------------------------------

Init ==
  /\ mem = EmptyDoc
  /\ rows = [d \in {} |-> EmptyDoc]
  /\ call = [h \in Handlers |-> IdleCall]
  /\ promised = {} /\ kept = {}
  /\ codes = 0 /\ faults = 0 /\ crashes = 0

BuyerCall(h) ==
  \E r \in Requests, b \in Buyers, a \in Subagents :
    IssueToken(h, r, b, a) \/ IssueDeliveryMeta(h, r, b, a)

SellerCall(h) ==
  \E r \in Requests, a \in Subagents : AckRequest(h, r, a) \/ ReportEvent(h, r, a)

OperatorCall(h) == \E public \in SUBSET Subagents : Moderate(h, public)

Next ==
  \/ \E h \in Handlers :
       BuyerCall(h) \/ SellerCall(h) \/ OperatorCall(h) \/ StoreStep(h) \/ RollBack(h)
  \/ Crash

Spec == Init /\ [][Next]_vars

\* A query that is sent returns, and the promise that waits for it continues.
FairSpec == Spec /\ \A h \in Handlers : WF_vars(StoreStep(h))

-----------------------------------------------------------------------------
(* Properties                                                              *)

Call ==
  [pc : {"idle", "delete", "insert", "commit"}, fact : Facts, keys : SUBSET Requests,
   seen : SUBSET Handlers, deleted : SUBSET Handlers, doc : Doc, alone : BOOLEAN]

\* Every variable has its type, and no history is longer than the limit, in memory or saved.
TypeOK ==
  /\ mem \in Doc
  /\ DOMAIN rows \subseteq Handlers
  /\ \A d \in DOMAIN rows : rows[d] \in Doc
  /\ call \in [Handlers -> Call]
  /\ promised \in SUBSET Facts /\ kept \in SUBSET Facts
  /\ codes \in Nat /\ faults \in Nat /\ crashes \in Nat

\* As long as no save fails: what the platform has answered with a 2xx is true of its memory,
\* and of every snapshot a restart could load: a token's request exists, a display code given out is the request's, a
\* seller event that was accepted is in the history until as many others have followed as it
\* holds, a moderation is in force.  (The handlers of tokens/task, delivery-meta, ack, events
\* and the catalog, with the store.)
PromisesKept ==
  faults = 0 => \A f \in promised, doc \in Loadable \cup {mem} : Holds(doc, f)

\* The same of what is only answered after a save of its own, tokens and delivery metadata.
\* (defaults-v0.1.md:155: with DATABASE_URL the state is persisted in PostgreSQL.)
SavedSurvives ==
  \A f \in promised, doc \in Loadable :
    f.kind \in {"token", "meta", "moderated"} => Holds(doc, f)

\* What was saved while no other save was under way is not undone by any later interleaving of
\* saves, failures and restarts.  (saveSnapshot of packages/postgres-store.)
UndisturbedKept == \A f \in kept, doc \in Loadable \cup {mem} : Holds(doc, f)

\* A history has each seller event at most once, whichever handlers are retried, and whatever
\* a restart restores.  (The checks before appendRequestEvent in ack and events.)
OncePerKind ==
  \A doc \in Loadable \cup {mem}, r \in Requests, e \in SellerEvents :
    \A j, k \in Matching(doc.requests[r], e) : j = k

\* A save always ends: no two transactions wait for each other.  (saveSnapshot.)
SaveEnds == \A h \in Handlers : ~Idle(h) ~> Idle(h)

\* The first buyer and subagent the store has for a request id stay its own, and so does the
\* display code, over retries, failing saves and restarts.  (tokens/task, createDeliveryMeta,
\* hydrate, with the sqlite store.)
OwnerOf(x) == IF Known(x) THEN <<x.buyer, x.subagent>> ELSE <<>>

Ledger == INSTANCE RequestLedger WITH
  owner <- [r \in Requests |-> OwnerOf(Snapshot.requests[r])],
  code <- [r \in Requests |-> Snapshot.requests[r].code]

ImplementsLedger == Ledger!Spec
=============================================================================
