# Remote subagent protocol: TLA+ models and proofs

This directory specifies the programs of the remote-subagent-protocol
repository, model-checks the specifications with TLC and proves theorems about
them with TLAPS. A program called *buyer controller* sends a task over a message
transport to a *seller controller*, which executes it and sends a signed result
back; a *platform* issues tokens, keeps the catalog and records what sellers
report. Source paths below are relative to `src/`.

- Part 1: the inventory of the system
- Part 2: the plan
- Part 3: the modules and how they correspond to the code
- Part 4: the runs, their bounds and what they show
- Part 5: what is proved
- Part 6: what is left out, and divergences found

## 1. Inventory

All programs are Node processes: one thread, and any `await` may let another
handler, timer or promise continuation run. State lives in memory; the platform
and the controllers pass a snapshot of it to `onStateChanged` at chosen points
and load it at start-up. There are no locks.

| Component | Code | State it keeps | Operations |
|---|---|---|---|
| Seller runtime | `packages/seller-runtime-core`, `apps/seller-controller` | task map, request index, queue, active ids; snapshot | inbox loop, POST tasks, `enqueueTask`, `scheduleProcessQueue`, `runQueuedTask`, heartbeat, hydrate |
| Buyer controller | `packages/buyer-controller-core`, `apps/buyer-controller` | request records, platform keys (memory only); snapshot | create, prepare, dispatch, remote-request, mark-sent, ack, result, timeout-decision, GETs; inbox loop; event sync and deadlines |
| Platform: requests | `apps/platform-api` | requests with bounded event history, tokens | issue token, introspect, delivery metadata, ack, events, batch query |
| Platform: catalog | `apps/platform-api` | users, sellers, subagents, reviews, heartbeats, audit | register, submit, review test, approve, reject, enable, disable, metrics |
| Transports | `apps/transport-relay`, `packages/transports/*` | one queue per receiver | send, poll, ack, peek |
| Stores | `packages/sqlite-store`, `packages/postgres-store` | the last snapshot | load, save |
| Supervisor | `apps/ops` | child processes, sessions, unlocked secrets, configuration | ensure, reload, set, remove and enable subagents, register, submit reviews, sessions |
| Command line | `apps/ops` | the same files, read and written by each command | bootstrap, subagent and seller commands, submit-review, auth register |
| Secret store | `packages/runtime-utils`, `apps/ops/src/config.js` | `secrets.enc.json`, `.env.local` | initialise, unlock, write, change the passphrase |
| Skill adapter | `apps/buyer-skill-adapter` | none | start a request, wait until it is over |
| Console gateway | `apps/platform-console-gateway` | sessions, unlocked secrets | set up, login, logout, change the passphrase, the admin credential, proxying |
| Consoles | `apps/platform-console`, `apps/ops-console` | none that lasts | display |
| Contracts, utilities | `packages/contracts`, `packages/runtime-utils` | none | canonical forms, templates |

**Interaction.** The buyer calls the platform for a token and delivery metadata,
then `transport.send`s an envelope to the seller's queue. The seller polls its
queue, asks the platform whether the token is active, queues the task,
acknowledges the request to the platform, acks the message, executes, sends the
result to the buyer's queue and reports a completion event. The buyer polls its
queue for results and, separately, asks the platform for events. Nothing orders
those two channels: a result may arrive before the ack it follows.

**What is hard, and what makes each part correct.**

- *Seller runtime.* The request id is the execution key: a message may be
  delivered again because an ack was lost, because a call between `enqueueTask`
  and `transport.ack` threw, or because the buyer sent it twice. Three callers
  of the scheduler run between each other's awaits. The order of saves and
  effects decides what a crash may lose: a start must be saved before execution,
  a task before its message is acked. Every queued task must in the end run.
- *Buyer controller.* Up to four kinds of actors write one record (handlers,
  inbox loop, event sync, deadlines), all with a terminal check that may lie
  before an await, and all on an object that re-creating the request id detaches.
  The outcome must be decided once, status, package and error code must agree,
  a stop must be final, an acknowledged request must not be called undelivered,
  and an outcome on disk must not be undone.
- *Platform requests.* Acks and events are deduplicated against a history that
  drops its oldest entries; binding of a request to a seller must not change; a
  handler answers after it has saved, other handlers run meanwhile, and what was
  answered must survive a restart.
- *Platform catalog.* Visibility is a function of seller review, subagent
  review, owner and heartbeat; a review test runs detached from its request and
  a restart forgets it.
- *Transports and stores.* A poll removes nothing, an ack removes one message,
  redelivery is the rule; the snapshot must be the latest of those saved.
- *Supervisor and command line.* A process that was killed counts as running
  until its exit event; a reload in that window starts nothing. A submission
  awaits the platform between reading a subagent and marking it. The supervisor
  keeps the configuration in memory and writes all of it; a command reads the
  file, writes all of it, and then asks the supervisor to do the same. Bootstrap
  is a saga over files, supervisor and platform that may stop anywhere and is
  run again.
- *Secrets.* Two processes keep a passphrase and secrets of one encrypted file,
  each with sessions of its own; a confirmed secret must stay readable with the
  confirmed passphrase, also across the move from `.env.local`.
- *Skill adapter.* It reads a request and its result in two calls, and between
  them the request may end.

`PROJECT.json` lists every hazard with its line.

## 2. Plan

Order of work; each module is written so that it can be proved about (constants
with assumptions, one action per step, invariants in named parts, no RECURSIVE).

| # | Module | Contents | State |
|---|---|---|---|
| 1 | `SellerRuntime`, `SellerService` | seller controller with its queue, store and mailbox; the abstract service it implements | done |
| 2 | `BuyerController` | buyer controller with its loops, store and mailbox | done |
| 3 | `SellerProofs`, `BuyerProofs` | types, scheduling, order, delivery, single execution, the service implemented; records and outcomes, lost results, timeouts | done |
| 4 | `PlatformRequests`, `RequestLedger`, `PlatformProofs` | tokens, binding, delivery metadata, acks, reports with a capped history, both snapshot stores, restart; the abstract ledger it implements | done |
| 5 | `PlatformCatalog` | accounts, api keys, signing keys, submissions, the eight review handlers, snapshot and restart | done |
| 6 | `ReviewTests` | review tests with their detached harness, the relay's mailbox, restart | done |
| 7 | `OpsSecrets` | the encrypted store and its two processes | done |
| 8 | `OpsSupervisor` | configuration, submission for review, the seller process, the command line beside it | done |
| 9 | `OpsBootstrap` | `delexec-ops bootstrap`, killed and run again | done |
| 10 | `MCControl` | 5 to 9 in one run | done |
| 11 | `CatalogProofs`, `ReviewProofs`, `SecretsProofs`, `OpsProofs` | accounts and keys, visibility; verdicts; confirmed secrets; marks, the seller process, the two configurations, bootstrap | done |
| 12 | `RequestOutcomes` | what a buyer can rely on about outcomes: asked, answered, expired, given up, saved, restarted; `BuyerController` implements it | done |
| 13 | `ControlProofs` | 10 implements each of 5 to 9, so their theorems hold of it | done |
| 14 | `EndToEnd` | buyer record, two mailboxes, seller task and platform history composed | open |

Abstract specifications, each implemented by its detailed module, checked and proved:
at-most-once execution with replay (1, `SellerService`); the final binding and display
code of a request id (4, `RequestLedger`); outcomes that only a push replaces (12,
`RequestOutcomes`).

Every safety property of the passing runs is a theorem, the three refinements included.
What is left is `EndToEnd`, the composition of buyer, seller and platform, whose parts
share the mailboxes and the platform's history.

## 3. Modules

### What both controller modules share

A step is what the process does between two awaits, up to and including the
call it then awaits: the effect of that call and the choice of its outcome
belong to the step. A call (HTTP, transport) ends `ok`, `failed` (the callee
never saw it) or `lost` (it acted and the answer was lost). The last two throw,
and the code's own try/catch decides what follows. `FaultyCalls` names the call
sites that may fail in an instance, and `MaxFaults` bounds how often.

The snapshot store is the sqlite one: `saveSnapshot` is one synchronous
transaction, so a save is complete when its promise exists and is atomic. Saves
of the controllers that themselves fail are not modelled (the platform's are). HTTP bodies arrive with their headers,
except where the code checks something before it reads the body (POST result).

A transport queue is a sequence: `poll` returns a prefix and removes nothing,
`ack` removes a message by its id (`packages/transports/local`, and the relay's
memory store, which is the same code). A buyer sends again whenever it likes,
which gives duplicates.

### SellerRuntime and SellerService

| Module | Code |
|---|---|
| `tasks`, `index`, `queue`, `active` | `state.tasks`, `state.requestIndex`, `state.queue`, `state.activeTaskIds` |
| `ppc`, `batch`, `cand` | where each `processSellerInbox` run is, its messages, the task it has created and not yet remembered |
| `wpc` | where `runQueuedTask` is for each task |
| `posts` | POST tasks handlers between `enqueueTask`'s save and its call of the scheduler |
| `disk` | the last snapshot |
| `sent`, `executed`, `reported`, `consumed` | what others have seen: results, executions, platform events, acked messages |

`PullStep` is the body of the inbox loop, statement by statement: skip an
envelope for another subagent, `ReceiveEnvelope` (metric), then `AckDuplicate`,
`ReplayResult` or `CreateTask`; after introspection `RejectTask` or
`AcceptTask` and `ScheduleAccepted`, `AckPlatform`, `SaveHandled`, `AckHandled`.
A throw anywhere is `Abort`: the rest of the batch stays in the mailbox.
`WorkStep` is `runQueuedTask` with `finalizeTask` and `failTask`: the finally
block, after the save of the outcome (`SaveOutcome`), releases the slot and saves
(`ReleaseWorker`), then schedules
(`Reschedule`). When `failTask` itself throws, the finally block still runs and
the rejection, which nobody handles, ends the process (`UnhandledRejection`).
`Crash` and `UnhandledRejection` restart from `disk`.

Task ids stand for creation times: the queue is ordered by priority, then
creation. `Urgent` is the set of requests of the smaller priority number. Task
content, tokens and signatures are left out; whether introspection or a
guardrail refuses a request is free. `PostTask` takes a return route from its body
or none (`routed`), and the result of a routed task is sent like any other.

`SellerService` is abstract: of a request it knows whether it is recorded, how often
it was executed, which answers were sent, what was reported, and whether a message
was taken. It executes what is recorded, and once (a posted request may run again);
answers with an outcome only what it has executed and with a refusal only what it has
not; and takes a message only of a request that is recorded or refused. It has no
crash. `SellerRuntime` maps to it with `recorded` as the requests in the index on
disk (`ImplementsService`), so a crash, a failed call, a queue that is reordered and
a duplicate that is acked are steps that do not show.

### BuyerController

| Module | Code |
|---|---|
| `rec` | `state.requests`: status, `timeout_decision`, `acknowledged_at`, `needs_timeout_confirmation`, last error code, result package |
| `rec[r].gen` | which object `state.requests` holds: POST requests with a known id replaces it, and a waiting handler keeps the old one |
| `due` | which of the ack, soft and hard deadlines of the record have passed |
| `auth` | `requestPlatformAuth`, in memory only |
| `op` | handlers waiting for a token, metadata, a send, an events answer or a body |
| `tails` | handlers that have changed the state and still have their metric and save to await |
| `poll`, `sync` | the runs of the inbox loop and of the event sync |
| `events`, `mailbox`, `sends` | the platform, the transport and the sellers, as the buyer sees them |

`Handlers` are those that change the record in one go, `StartHandler` and
`HandlerStep` those that wait in the middle, `PollStep` is `pollBuyerInbox`
(apply, metric, ack, and one save at the end of the batch), `SyncStep` is
`syncBuyerActiveRequests` (one batch query, one query per request if that fails,
then every deadline, then one save). `Tick` lets a deadline pass while the code
could still look at it. A restart loads `disk` and clears `due`: `Tick` may find
the deadlines passed again at once.

Result packages are `ok`, `error`, `invalid` (fails a check of
`applyResultPackage`), `garbled` (a body that is not JSON) and `blank` (no
package). Metrics are attempted wherever the code may report one; that the code
reports some of them only once per record is left out, which only adds steps
that fail. All requests of one instance share a platform key and fit one batch.
The GET of the whole list evaluates the records one after the other as the sync
does and is not a separate action.

`Kinds`, `Deadlines` and `Packages` select what occurs in an instance.
`MaxTails`, `MaxSends`, `MaxCreates` and the other `Max` constants are bounds for
TLC; the theorems hold for every value of them.

`RequestOutcomes` is abstract: of a request it knows which asking of it is on, whether it
is open, answered, expired, undelivered or given up, its result, and whether it was
acknowledged. It has three states: what the controller tells (`told`), what it would tell
after a restart (`saved`), and the pushed results it has let in and not yet applied
(`pushes`). An open request is answered, expires or is given up, once; what was
acknowledged is not called undelivered; an outcome is replaced only by a push that was
let in while that same asking was open. `ImplementsOutcomes` maps `told` and `saved` to
the `Story` of each record in memory and on disk, and `pushes` to the handlers of POST
result that wait for a body. So the statuses CREATED, SENT and ACKED, the deadlines, the
loops, what a stale handler writes to a record that was replaced, and messages that come
twice are steps that do not show. `Forget` and `WaitOn` are there because the code does
them: prepare clears the error code of a request whatever its status, and a decision to
wait on replaces one to stop.

### PlatformRequests and RequestLedger

| Module | Code |
|---|---|
| `mem.requests` | `state.requests`: `buyer_id`, `seller_id` with `subagent_id`, the display code, `events` |
| `mem.public` | the subagents for which `resolveCatalogVisibility` says public |
| `rows` | the service's rows in the snapshot table, by the handler that inserted them |
| `call` | `saveSnapshot` of each handler: its transaction, what it will answer |
| `promised`, `kept` | what was answered 2xx; of these, what was saved while no other save was under way |
| `mem.version`, `appended`, `codes` | counters that number moderations, events and display codes, so that the properties can name them |

A handler changes the memory in one go (its body is read before it looks at the
state), then saves, then answers. `IssueToken`, `IssueDeliveryMeta`,
`RecordEvent` (ack and events) and `Moderate` end in `Persist`. A repeated ack or
report is answered from memory and saves nothing (`AnswerRecorded`). A request
refused with an error changes nothing and has no action. All changes of the
catalog that a request can notice are one action, `Moderate`, since only what is
public decides whether a token or metadata is given.

With `Store = "sqlite"`, `Persist` is one step (`SaveNow`, or `SaveThrows`, after
which the memory keeps the change). With `"postgres"` it is a transaction:
`BeginSave` fixes the keys of the snapshot (`serializePlatformState` copies the
entries), `StartDelete` takes the database's view of the rows, `Insert` ends the
DELETE, once no other transaction holds one of its rows, and reads the records
(`JSON.stringify` at the INSERT), `Commit` makes both visible. This is READ
COMMITTED, which the code does not change: a DELETE sees the rows committed when
it starts, and waits for a concurrent deletion of one of them. The database
itself is external; `RollBack` is a query that fails before the commit took
effect. Any of the rows may be the first of the SELECT a restart makes.

`RequestLedger` is abstract: a request id has at first no owner and no code; it
gets each once, the code not before the owner. `ImplementsLedger` maps it to the
snapshot, the state that a restart cannot take back.

### PlatformCatalog

| Module | Code |
|---|---|
| `catalog.keys` | `state.apiKeys`: whose a key is, and the `subagent_ids` it covers |
| `catalog.users`, `catalog.sellers`, `catalog.items` | `state.users`, `state.sellers` and `state.catalog`: owner, api key, signing key and the keys that stay valid |
| `catalog.review` | status, `review_status` and submission version of sellers and subagents |
| `snapshot` | what `persistPlatformState` last saved |
| `admitted` | callers whose key was good when their handler looked; handlers read the body after that |
| `drawn` | how many api keys were drawn: they are random, so a new one is fresh |
| `approvals`, `barred`, `dead` | what operators decided or were told with a 2xx |

There is one action per handler. Each ends in `Save`, which either writes the
snapshot or throws, in which case the memory keeps the change and the answer is
a 500. Since a body is awaited between the look at the key and the change, a
caller may act although its key has been revoked; a handler without a body uses
only keys that are good now (`OperatorNow` against `OperatorWaiting`). `Submit`
is `submitCatalogSubagent` with its quota, owner and id checks, reached with a
key (`SubmitSubagent`) or without one (`RegisterSeller`). `Restart` builds the
state anew, bootstrap entries and configured keys included, and replaces it by
the snapshot if there is one (`hydratePlatformState`).

### ReviewTests

`StartTest` is the handler, which binds the test's request id, saves and answers;
`SendTask`, `Poll`, `Ack`, `Verify`, `TimeOut`, `Audit` and `Catch` are
`runReviewTestHarness` between its awaits; `RelayFails` is a throw of the relay.
An operator may choose a request id that exists. Then the mailbox and the bound
subagent are shared by two harnesses, and the older one writes to a record that
the state no longer refers to (`runs` without a `latest`). A restart, or a save
that throws in the catch clause, leaves harnesses `lost`.

### OpsSecrets

A process reads, encrypts, writes and reads again in one synchronous piece, but
there are two processes, so `BeginJob`, `WriteStore` and `FinishJob` are separate
steps. `copy` is `state.env` as read at start-up, `pass` and `cache` are
`runtime.passphrase` and `runtime.unlockedSecrets`, which stay after the last
session has expired until a request looks (`Look`, `pruneExpiredSessions`).
`SetUp` moves a process's copy into the store, `PutSecret` merges into what the
file has (`writeSecretValues`), `Rotate` changes the passphrase, `SaveConfig` is
the part of `saveOpsState` that rewrites `.env.local`. Two variables are for the
property only: `contested`, that both processes have changed the files at a time,
and `outdated`, the secrets that differed in `.env.local` from the copy the store
was set up from.

### OpsSupervisor

| Module | Code |
|---|---|
| `config`, `configSaved` | `state.config.seller` and `ops.config.json`; a subagent is the number of its definition and `submitted_for_review` |
| `children` | processes in the order they were started; the latest is the one in `runtime.processes` |
| `turn` | `submitPendingSellerReviews`: the list made at its start, and the item whose answer it awaits |
| `received` | what the platform has stored |
| `command` | where a command of `cli.js` stands |
| `gateway` | `state.config.seller` of the console gateway, read when it started |
| `fileOnly` | for the property: the gateway, or a command alone, has changed the file since the supervisor last saved or started |

`Apply` is the save and `reloadSellerIfRunning`; `Spawn` is `ensureService`, whose
process may fail to start. A killed process is `dying` until its exit event, and
`Reload` asks for a new one while the old is still registered, so it gets none:
the seller stays down until something asks again. Three processes write all of
`ops.config.json`. The supervisor saves what it has in memory (`SaveOpsState`, also
without a change, `SaveUnchanged`). A command reads the file, changes it
(`RunCommand`), then asks (`AskSupervisor`), or gets no answer
(`CommandUnanswered`) and, for a submission, does the work itself. The gateway
writes the configuration back as it read it when it started (`GatewaySaves`,
`BootGateway`), at any time, since setups and new admin credentials may come at any
time.

### OpsBootstrap

`step` walks through `commandBootstrap`: register, add the example (the file,
then the supervisor), submit it, enable the seller (again both), start the
supervisor, wait until the catalog shows the example, send a request. `call` is a
call to the platform under way, on behalf of the supervisor or of the command;
the platform acts (`PlatformRegisters`, `PlatformTakesSubmission`) and the answer
is taken in another step, so it can be lost. `KillBootstrap`, `KillSupervisor` and
`CallFails` may happen anywhere; `BeginBootstrap` runs it again. `disturbed` says
that something failed during this run, `unrecorded` that the platform has a
submission nothing here has recorded.

## 4. Runs

`MCSeller`, `MCBuyer` and `MCPlatform` add only model values and a symmetry set.
`MCControl` puts the five modules of the control plane into one run. They share no
variable: the catalog's side of a review test, and what the supervisor
submits to the platform, are inputs of the other; and where one call of the code acts
on two of them (`saveOpsState` writes the configuration and `.env.local`), each has its
own side of the call as an action that may happen at any time. Their product would multiply
their state spaces and add no behaviour, so the variable `part` chooses the one that
moves, and the run explores the sum. The catalog is explored in two parts that
both submit and restart, one with the accounts and keys, one with the reviews:
keys decide who may moderate, and with the reviews' part every caller of that
part's initial keys already occurs. Deadlock
checking is off in every run: a controller with an empty inbox rightly waits,
and the bounded environment stops sending.

| Run | Instance | Checks |
|---|---|---|
| `seller_safety` | 3 requests, one of them urgent and posted too, 2 messages, 2 tasks, 1 worker, 1 failed call at any of six call sites, 1 crash | `TypeOK`, `SchedulerConsistent`, `WorkConserving`, `NoSilentLoss`, `ReportsTruthful`, `AtMostOnce`, `NoOvertaking`, `ImplementsService` |
| `seller_liveness` | a request that is sent; another that is posted, with or without a return route, and sent for a subagent not offered; 2 messages, deferring executors, 1 failed call of the inbox loop | `SameResult`, `QueuedFinishes`, `MessageHandled` |
| `seller_contradiction` | 1 request, a failing result metric | `SameResult` is violated |
| `seller_orphan` | 1 request, 1 crash | `OrphanRecovered` is violated |
| `buyer_safety` | 1 request created twice, prepare, dispatch, event sync and pushed results, ack deadline, one result | `TypeOK`, `ResultNotLost`, `OutcomeConsistent`, `OnlyPushOverwrites`, `NoFalseDeliveryTimeout` |
| `buyer_recovery` | 1 request sent by the remote handler or dispatched, pushed and garbled results, ack and hard deadline, 1 crash, 1 failed delivery-metadata, batch or metric call | `DurableOutcome`, `ImplementsOutcomes` |
| `buyer_liveness` | soft and hard deadline, invalid and blank packages, a failing batch query | `HardDeadlineEnforced`, `AckObserved`, `ResultConsumed`, `OutcomeSaved` |
| `buyer_overwrite` | a push and the inbox loop | `ResultAcceptedOnce` is violated |
| `platform_sqlite` | 2 requests, buyers and subagents, a history of 2 and 3 events per request, 1 moderation, 1 failing save, 1 crash | `TypeOK`, `PromisesKept`, `OncePerKind`, `ImplementsLedger` |
| `platform_postgres` | 1 request, 2 handlers, a history of 2 and 3 events, 1 failing query, 1 crash | `UndisturbedKept`, `SaveEnds` |
| `platform_overlap` | 1 request, 2 handlers, 1 crash | `SavedSurvives` is violated |
| `control`, keys | 1 user, 1 seller, 2 subagents, 2 signing keys, 4 api keys, 1 submission of each, with and without a bootstrap seller, 1 failing save, 1 restart | `TypesOK`, `AccountsAgree`, `RevokedStaysDead`, `PublicOnlyAsApproved` |
| moderation | the same catalog, the eight review handlers | `TypesOK`, `PublicOnlyAsApproved`, `AccountsAgree` |
| tests | 1 request id used twice, 2 subagents, 1 relay fault, 2 failing saves, 1 restart | `TypesOK`, `PassEarned`, `PassStands`, `TestEnds` |
| secrets | 2 passphrases, 2 values, 1 session per process, 1 restart, an admin key put by hand or none | `TypesOK`, `SecretsKept` |
| supervisor | 1 subagent, 2 definitions, 2 processes, 1 submission, 1 command, 1 restart of the supervisor or of the gateway, which saves as often as it likes | `TypesOK`, `MarkedMeansReceived`, `SellerAsConfigured`, `FileAgrees` |
| bootstrap | 4 runs, 3 kills, crashes or failed calls, with and without an admin key | `TypesOK`, `RerunGetsThrough` |

**Why the bounds are enough for these questions.** The seller's scheduling
errors need two tasks that compete for one slot: a queue of two arises because
the enqueue and the call of the scheduler are separate steps. (A third task was
checked as well and takes several minutes; `SchedulerConsistent` is proved for
any number.) Duplicate execution needs a second message or one redelivery. The
errors about crashes need one crash between two saves; a second would start from
a state the first already allows. In the buyer every record is independent but
for the sync's batch, so one request with every writer is where the races are;
re-creation needs two generations and one waiting handler. In the platform a
confusion of bindings needs two requests, buyers and subagents; a history of two
overflows at the third event; and saves race in pairs, so two handlers suffice.
With sqlite one handler does: nothing runs during its save.
In the catalog a key that is replaced needs a third and a fourth key, a stale
approval needs a second edition of one subagent, and a restart that undoes a
decision needs one failing save before it. A verdict goes astray when one id is
used for two subagents: two runs of one test. A lost update between two processes
needs one change in each. A mark on the wrong definition needs two definitions and
one submission. Bootstrap needs a run that fails, one that starts from what it
left, and a third from what both left; the theorem covers any number. The supervisor's
subagents are independent but for the list of a submission; with two of them and the
gateway the run takes too long, and `OpsProofs` covers any number.

**What the properties say, and where they stop.**

- `AtMostOnce` holds for one inbox loop, which is what the server starts. Two
  overlapping pulls (POST `/controller/inbox/pull` beside the loop) can both miss
  the task, and a task posted while the loop introspects its token is executed
  twice; the property excludes posted requests and the instance has one puller.
- `SameResult` excludes posted requests as well: if the posted one of such two tasks
  has a return route (`result_delivery`, `return_route` or `reply_to` in the body),
  both send a result, and the two need not agree.
- `WorkConserving` holds until the first restart: start-up does not schedule, so
  restored tasks wait for the next request.
- `SameResult` moreover holds only while the worker's own calls succeed
  (`seller_liveness`); with a failing result metric it does not
  (`seller_contradiction`).
- `MessageHandled` needs `Limit` above the number of messages for other
  subagents, which are never acked and fill the poll's window.
- `ImplementsOutcomes` lets a push that was let in while a request was open replace its
  outcome, since the code does; `OnlyPushOverwrites` says that nothing else does, and
  `ResultAcceptedOnce`, which forbids it, fails (`buyer_overwrite`). A restart may
  take an outcome back that was not saved yet.
- `ResultNotLost` says that a result that left the mailbox was applied. A crash
  between the ack and the batch's save does lose it, so the property is claimed
  until the first crash.
- `OutcomeSaved` needs metrics and acks that succeed: after a failed one the
  poll ends without a save, and the retry finds a terminal record and does not
  save either.
- `PromisesKept` holds for the sqlite store until a save fails: the retry of a
  report whose save failed is answered from memory, without a save. With
  postgres the same happens while the first save is under way, and snapshots
  overtake each other, so what is claimed there is `UndisturbedKept`: what was
  saved while no other save was under way stays. `SavedSurvives` is the stronger
  claim one would expect, and fails.
- `OncePerKind` is about one kind. A request may carry COMPLETED and FAILED.
- `SecretsKept` says nothing once the two processes have changed the files at
  the same moment: one of the changes is then lost, which two writers of one file without a
  lock cannot help. The run stops exploring there (`~contested`). It also leaves out
  what is lost one step after the other: a gateway reads `.env.local`, the supervisor
  then saves a key there (there is no store yet), and a setup at the gateway builds the
  store from its own copy, without that key, and clears the file of it
  (`scrubLegacySecrets`). Such a secret (`outdated`) is left out until it is saved
  again; the other secrets of the same store, and all that comes after, are not.
- `FileAgrees` is claimed of what the supervisor, and commands that reached it, have
  done. After a save of the gateway that changed the file, or a command that could not
  reach the supervisor (`fileOnly`), memory and file may differ until the supervisor
  saves or starts. `MarkedMeansReceived` has no such exception: it is also claimed of
  the gateway's old copy, and so of the file whatever the gateway writes.
- `TestEnds` leaves out the harnesses a restart or an uncaught save has ended:
  their tests stay `running` for good.
- `RerunGetsThrough` leaves out `unrecorded`: when the platform stored the
  submission and the answer was lost, the next run registers a new account (the
  saved configuration never has the key that bootstrap looks for), the supervisor
  submits with that account's key, and the platform refuses it as not the owner's.
- `PublicOnlyAsApproved` compares with what operators approved and with what they
  were told: a disable whose save failed was answered with a 500, and a restart may
  show the subagent again.
- `ImplementsLedger` is checked and proved for the sqlite store. With postgres a
  restart may take back a binding that was answered (`platform_overlap`).

**Fairness.** `FairSpec` asks weak fairness of each pull, worker, handler, sync
and poll step as a whole: ready promise continuations run, timers fire again
(`setInterval` and self-rescheduling loops in `startSellerInboxLoop` and
`startBuyerBackgroundLoops`), and a call returns or throws. An executor is
assumed to settle, as the adapters do with their timeouts. On the platform only
the steps of a transaction are fair: a query that is sent returns. Nothing is asked
of the environment: no message need be sent, no deadline pass, no user decide.
Failures are bounded, so a call that fails is retried with success in the end;
the liveness runs show what survives one failure, not permanent ones. In
`control` only the steps of a review test's harness are fair: its calls have
timeouts, its deadline comes, its continuations run.

## 5. Proofs

`tlapm` checks every leaf. The theorems hold for all values of the constants
allowed by `SellerAssumption`, `BuyerAssumption`, `PlatformAssumption`,
`CatalogAssumption`, `ReviewAssumption`, `SupervisorAssumption`,
`SecretsAssumption` and `BootstrapAssumption`.

**SellerProofs.** `TypeOK` and `SchedulerConsistent` are not inductive: that a
task which is accepted is not yet in the queue depends on ids that pulls hold,
and that a released worker's task is not queued depends on labels. `IInv` adds:

- `MemoryOK`, `DiskOK`: the same predicate `StoreOK` of the memory and of the
  snapshot. Because every save copies a memory that satisfies it, a restart
  loads a state that does.
- `WorkersOK`: a slot is held exactly from start to release, by a real task that
  is no longer queued, and there are at most `Workers`.
- `PullsOK`: a pull past its lookup has an envelope, and the task id it created
  is its own and still without a record.
- `IdsFresh`: ids not given out have no record, in memory or on disk.
- `NetOK`: types of what others have seen.

The proof first shows what each operation does to a store (`EnqueueStore`,
`StartStore`, `RejectStore`, `WorkStore`), on top of what inserting into a
sequence does (`InsertSeq`), then walks through the actions (`PullCore`,
`WorkCore`, `PostCore`), and treats the types of the network separately
(`NetStep`). The theorems are `Invariant`, `TypeCorrect` and `SchedulerCorrect`.

The further theorems stand on `IInv`. For what concerns tasks, queue, index and
snapshot a step is one of six things (`StoreStep`): a request is queued or refused,
the scheduler starts tasks, a worker writes its task, the process starts again from
a snapshot, or nothing changes but for a save. Each step is classified once; the
invariants below are then shown for the six, and labels of pulls and workers are
looked at only where they matter.

- `NeverIdleBesideWork` (`WorkConserving`) is inductive beside `IInv`: the one step
  that leaves a task beside a free slot is followed by a call of the scheduler, and
  what the scheduler leaves is a queue that is empty or a pool that is full
  (`Drained`).
- `FirstComeFirstServed` (`NoOvertaking`): `OrderOK` says that the queue is sorted
  in memory and on disk, and that the two queues are the same between steps; so the
  tasks a step starts are a prefix of a sorted queue.
- `NothingSilentlyLost` and `TruthfulReports` need `IndexOK` (the index leads to
  tasks of the request; what is on disk is known in memory; what is not answered is
  on disk) and `PromisesOK`: what a pull has made sure of by the time it is at each
  label (`Promise`), and a worker by the time it reports (`Outcome`).
- `ExecutedAtMostOnce` assumes `OneLoop`: the pullers are one inbox loop, which is
  what the server starts. Two can both miss the task, so the claim is false without
  it. `OnceOK`: a task still to be run is the one its request is known by, in memory
  and on disk (`Owned`); nothing was executed for one that is queued (`Unexecuted`);
  an executed request is known on disk (`ExecutedKnown`), so no restart makes it new.
- `OneResult` (`SameResult`) assumes `OneLoop` and `Steady`: no crash, and result
  sends and result metrics that succeed. `seller_contradiction` shows what a failing
  metric does. `SteadyOK`: no worker is on its error path, and what was sent is the
  result of the task the request is known by (`Settled`).
- `ServiceImplemented` (`ImplementsService`) assumes `OneLoop` and nothing about
  failures or crashes. `ServiceOK` relates each task record, in memory and on disk, to
  what others have seen (`Earned`): unless refused its request is on disk, an
  outcome comes from an execution, and a refused request that nobody posts was not
  executed. For the last it needs that such a request has one task (`OneTask`), that a
  refusal on disk is one in memory (`DiskRejected`), and what a worker has done by the
  time it is past its delay (`WorkersEarned`). `NextServes` then maps each step to
  `Record`, `Execute`, an answer, `Report`, `Take` or a stutter, and `AnswersKnown`
  carries over from the abstract steps.

**BuyerProofs.** The argument is that every writer, whatever it read before its
await, writes a record that `Evolves` from the one that is there now: same
generation, sound if it was sound, terminal if it was terminal. `RecordsStep`
shows of every action that it evolves or creates records and saves the result or
leaves the disk alone, or restarts from the disk. From that alone follow
`OutcomeInvariant` (all records in memory and on disk are `Sound`, and the disk
is never ahead of the memory), and from it `Consistent`, its part `StopFinal` (what the
user stopped is over) and `OutcomeDurable`. `AlwaysFormed` has the types, and the facts the argument borrows:
a handler or sync that waits is about requests that exist (`HandlersKnown`,
`SyncKnown`), and a poll that is about to ack has an envelope.

`OnlyPush` and `NoFalseTimeout` are about single steps: a writer `Advances` when it
evolves the record and replaces no terminal status and no result that goes with it.
`SameRecordStep` shows that every
writer does but the push of a result. For `NoFalseTimeout`, evolving keeps an
acknowledgement, and `Sound` says that a record that has one is not failed for its
delivery.
`NoResultLost` adds `LostInv`: results are only of what was sent (`ResultsSent`), until
the first crash what was sent is known, the envelope a poll is about to ack is of a
request that is `Settled`, and so is whatever was taken out. `PollSettles` shows it of
the steps of a poll, `SettledKept` that no other writer, however stale what it read,
unsettles a request.

`OutcomesImplemented` (`ImplementsOutcomes`) needs more of a writer than that it evolves
the record: `GoesOn` lists how the story of one record may become that of the next, and
one lemma for each function that writes (`SentGoesOn`, `AckedGoesOn`, `ResultGoesOn`,
`TimeoutsGoOn`, ...) says which of the moves it makes. `MovesStep` shows of every action
that one record goes on, is created anew, or none changes; a push counts as let in only
if it is of the asking told of, which is what the generations are for. `PendingStep`
says that pushes are let in by the start of POST result alone, and on an open request.
`OutcomesStep` puts the two together with what is saved (`RecordsStep`) and what a restart
loads. The theorem has no assumption on failures or crashes.

`FirstResultStays` says why `ResultAcceptedOnce` fails: without pushes (`NoPush`) it
holds, for any number of loops, deliveries and failing calls.

**PlatformProofs.** `AppendRecord` is the arithmetic of the capped history: an
append loses no seller event but by overflow, numbers the new one, and adds none
twice. Each handler then is `Served`: it makes of one request a record that
`Evolves` from the old one (same owner, same code, no seller event lost but by
overflow), and answers something that is true of the new memory. `IInv` says
that every record in memory, in a row and in an open transaction is well formed;
it is inductive for both stores and gives `TypeCorrect` and `RecordedOnce`. For
the sqlite store `SqliteInv` adds that there is one snapshot, that the memory
follows it, that what was saved is true of both, and that they agree while no
save has failed. It gives `AnswersKept` and, since each new snapshot follows the
old one, `LedgerImplemented`. These two assume `Store = "sqlite"`, since they are
false otherwise (`platform_overlap`); they allow any number of failing saves and crashes.

`UndisturbedSurvives` holds with either store. With postgres `PostgresInv` says what a
save under way has: its keys cover what it answers and all that was kept (`Covers`),
and once it has read the records it has what they say (`SaveOK`); one that has been
alone so far has deleted, or is about to delete, every row there is (`AloneOK`). So a
commit that makes its answer one of those kept leaves its own row only, and
every later commit, in whatever order, brings a row that says all of them
(`PostgresCommit`).

`SavesSurvive` is the counterpart of the run `platform_overlap`: with the sqlite store
`SavedSurvives` holds, also while saves fail, since what is answered without a save is a
repeated seller event and nothing else (`AnsweredSaved`).

**OpsProofs: bootstrap.** `RerunGetsThrough` speaks of the end of a run; what makes
it true is what every earlier run leaves. `BootstrapInv` says: bootstrap waits for its own
call and for nothing else (`CallOfStep`); the supervisor's memory is behind the
files by at most the example (`MemoryAgrees`); what the files say is submitted the
platform has (`OwnerKnown`), and the other way round unless an answer was lost
(`OwnerRecorded`); a submission is refused only then (`Submitting`); past its first
step a run has a key (`Keyed`); and a run that was not disturbed has done all that
the steps behind it are for (`Progress`). `BootstrapInvStep` shows it of the 23 actions.

**CatalogProofs.** One invariant gives all four theorems. `CatalogOK` says
of a state that accounts, keys and entries agree (`AgreeOn`), that keys above the last
one drawn are nobody's (`KeysUpTo`), so that a new key takes nothing away, and that
an unknown account has none (`Blank`). `ApprovedOK` is stronger than what is claimed:
whatever has the verdict *approved*, shown or not, was approved as it stands, which is
what makes enabling safe. `ShutOK` and `DeadOK` speak of what was answered. `CatalogInv`
asks all of it of the memory and of the snapshot. `ForgetOK`, `GiveUserKey`,
`GiveSellerKey`, `SignOK`, `SubmittedOK`, `ReviewOK`, `AdminOK` and `FreshOK` say what
each operation does to one state; `CatalogSaveStep` that a save, failing or not, leaves the
platform in order when the new state is; then each action is one lemma. Keys are
taken to be fresh when drawn, as the random ones of the code are.

**ReviewProofs.** `PassEarned` needs that good results have a past: those in the
mailbox and those a harness has taken were given by the subagent they name
(`MailboxEarned`, `PolledEarned`), and the run a test refers to is of that test and of
the subagent its request is bound to (`LatestOK`). `PassStands` needs `Faultless`: until a save
fails the snapshot is the memory, and a run that has a verdict is at its end.

**OpsProofs: supervisor.** `ServerOK` says that memory, file and the copy a command works
on mark only what was received (`Marks`); that an answer is about something received
(`AnswerOK`); and that of the processes started all but the last are gone (`UpTo`),
the last one serving what is configured unless it was told to end (`Serves`).
`FileOK` accounts for every difference between memory and file by the one command
that has written and not asked yet, or by `fileOnly`. `AllInv` adds of the gateway that
its copy marks only what was received, which lasts since what is received only grows
(`ReceivedGrows`). Each theorem is one part of it.

**SecretsProofs.** `ConfirmedSecretsKept` (`SecretsKept`) has to follow a value through
the files, the two processes' copies and the jobs they have under way. `SecretsInv`:
a store that exists opens with a passphrase somebody was given (`PassesOK`); and until
the two have changed the files at the same time, the store has every confirmed value or
a later one, but for those it was set up without (`outdated`), and before there is a store
`.env.local` has them all and the supervisor's copy is what that file says (`Confirmed`); a job about to write takes nothing back and has the files to
itself, and one that has written finds its values there (`UpToDate`). A setup, which
moves the values of `.env.local` into the store, is where all of it is needed. `SecretsTyped` has the
types. `SecretsAssumption` asks that there be a value and a session to have, and allows
any number of restarts.

**ControlProofs.** In a behaviour of the composition each part starts as it does alone
(`PartsStart`) and every step is one of the part that moves and none of the others
(`PartsStep`), so the composition implements each part (`PartsImplemented`), and the
theorems about the parts are theorems about it: `ControlTypes` (`TypesOK`) and
`ControlSafe`, which has the other safety properties of the run `control`.

**Only model-checked.** All liveness: `QueuedFinishes`, `MessageHandled`,
`HardDeadlineEnforced`, `AckObserved`, `ResultConsumed`, `OutcomeSaved`, `SaveEnds`,
`TestEnds` (fairness is out of the prover's reach). No safety property of a passing run
is only model-checked. Of the properties that a run expects to be violated,
`ResultAcceptedOnce`, `SavedSurvives` and `SameResult` are theorems under the assumption
that leaves out what violates them.

## 6. Left out, and divergences

Not modelled, within the two controllers: registration and catalog forwarding,
contract drafts, the seller's views, the content of results and signatures,
failing saves, several platform keys. Within the platform: token claims, their
expiry and introspection, which read no state these modules keep; availability,
heartbeats and metrics; templates and schemas; audit and review events; rate
limits; a review test whose id is that of an ordinary request; that other
subagents' keys stay as they were when one is submitted with a new signing key
(their entries remain valid ones, which is what `AccountsAgree` asks).

Within the supervisor and the command line: the relay's and the buyer's processes
(started as the seller is, never killed); transport settings; whether a subagent is
switched on; two commands or two submissions at a time; children that outlive a
crashed supervisor; logs, alerts and status; the requests it forwards. A crash in
the middle of `writeFileSync` may leave a torn file and is not modelled. Bootstrap is
modelled without an encrypted store (with one, a command has no session and the
supervisor answers 401), with no supervisor started by hand and no save of the console
gateway while it runs, and begun
only when the supervisor has no call under way; `auth register` on a machine with a
store is not modelled.

Not modelled at all: mail transports (formats and I/O); the buyer skill adapter (it
keeps no state: it forwards a request, reads it until it is over or its time is,
and translates the answer); consoles and proxied requests; deployment and scripts;
the pure helpers of `packages/contracts`.

Met while modelling, and contradicted by no document: every run of bootstrap
registers a new account; after an unrecorded submission it is locked out; a change
made by a command that could not reach the supervisor is dropped at the supervisor's
next save; a save of the console gateway writes the configuration it read at its start
over what the supervisor has saved since (in memory the supervisor keeps its own, so a
restart before its next save is needed to lose it for good); a setup of the store from a
copy of `.env.local` that is old by then loses a key saved there meanwhile; a posted task
with a return route that overtakes the introspection of its own message is executed twice
and answered twice; the seller stays down after a reload; a test stays running after a restart.

Divergences between code and documentation, each shown by a run:

1. A result metric that fails after the result was sent makes `runQueuedTask`
   send a second result, `EXECUTOR_RUNTIME_ERROR`, for the same request
   (`seller_contradiction`), while the architecture document says a repeated
   request gets the same result package.
2. A task that was RUNNING at a crash is never put back into the queue
   (`seller_orphan`), while the architecture document says it returns to QUEUED.
3. POST result checks for a terminal status before it awaits the body and not
   after, so it replaces a result accepted meanwhile (`buyer_overwrite`), while
   the integration playbook says results are accepted once.
4. Two overlapping saves of the postgres store leave two rows: the second DELETE
   does not see the row the first transaction inserts, and the table has no key.
   `loadSnapshot` takes the first row of an unordered SELECT, so a restart may load
   the older one, without a token or metadata whose save had committed
   (`platform_overlap`), while the documents recommend PostgreSQL as the
   persistent store of the platform's shared state.
