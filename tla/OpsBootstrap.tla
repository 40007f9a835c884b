---------------------------- MODULE OpsBootstrap ----------------------------
(***************************************************************************)
(* "delexec-ops bootstrap": apps/ops/src/cli.js takes a machine from       *)
(* nothing to a first answered request, by commands of its own that change *)
(* the files first and ask the supervisor next, if there is one            *)
(* (apps/ops/src/supervisor.js), and by calls to the platform.  It may be  *)
(* killed anywhere, the supervisor too, and calls fail; the operator runs  *)
(* it again, as its own next_action says.                                  *)
(*                                                                         *)
(* Without an encrypted store: with one, a command has no session to ask   *)
(* the supervisor with.  An account stands for its number and for its key; *)
(* the seller id and the signing key are drawn once.  The supervisor is    *)
(* started while no bootstrap runs, or by it, and a bootstrap when the     *)
(* supervisor has nothing under way.  The example request itself, and the  *)
(* seller's process, are not modelled here.                                *)
(***************************************************************************)
EXTENDS Naturals

CONSTANTS
  MaxAttempts,   \* bound: runs of bootstrap
  MaxFailures    \* bound: kills, crashes, and calls to the platform that fail

ASSUME BootstrapAssumption == MaxAttempts \in Nat /\ MaxFailures \in Nat

VARIABLES
  files,       \* ops.config.json and .env.local
  daemon,      \* the supervisor
  platform,    \* what the platform has of this machine
  adminKey,    \* PLATFORM_ADMIN_API_KEY is set for bootstrap
  step,        \* what bootstrap does next
  copy,        \* the state commandSubmitReview has read
  call,        \* a call to the platform that is under way
  outcome,     \* of the last run
  disturbed,   \* something has failed during this run
  unrecorded,  \* the platform has stored a submission that nothing here has recorded
  attempts, failures

bootstrapVars ==
  <<files, daemon, platform, adminKey, step, copy, call, outcome, disturbed, unrecorded,
    attempts, failures>>

-----------------------------------------------------------------------------

\* A crash of the supervisor makes the command call the platform itself.
MaxAccounts == MaxAttempts + MaxFailures
NoAccount == 0

\* key: BUYER_PLATFORM_API_KEY; sellerKey: SELLER_PLATFORM_API_KEY is there.
Local ==
  [key : 0..MaxAccounts, sellerKey : BOOLEAN, example : {"none", "local", "submitted"},
   enabled : BOOLEAN]
NothingYet == [key |-> NoAccount, sellerKey |-> FALSE, example |-> "none", enabled |-> FALSE]

Daemon == [up : BOOLEAN, state : Local]

\* owner: of the seller, who is known since its example was first submitted.
Platform == [accounts : 0..MaxAccounts, owner : 0..MaxAccounts, visible : BOOLEAN]

Call ==
  [by : {"none", "supervisor", "command"}, kind : {"register", "submit"},
   answer : {"none", "stored", "refused"}]
NoCall == [by |-> "none", kind |-> "register", answer |-> "none"]
Calling(by, kind) == [by |-> by, kind |-> kind, answer |-> "none"]

\* saveOpsState of the supervisor writes all it has in memory.
DaemonSaves(m) == daemon' = [daemon EXCEPT !.state = m] /\ files' = m

Ends(result) == step' = "idle" /\ outcome' = result

-----------------------------------------------------------------------------
(* The commands                                                            *)

BeginBootstrap ==
  /\ step = "idle" /\ call = NoCall
  /\ attempts < MaxAttempts /\ attempts' = attempts + 1
  /\ step' = "register" /\ outcome' = "none" /\ disturbed' = FALSE
  /\ UNCHANGED <<files, daemon, platform, adminKey, copy, call, unrecorded, failures>>

\* The key is never in the configuration that is read, so every run registers.
AuthRegister ==
  /\ step = "register" /\ step' = "wait"
  /\ call' = Calling(IF daemon.up THEN "supervisor" ELSE "command", "register")
  /\ UNCHANGED <<files, daemon, platform, adminKey, copy, outcome, disturbed, unrecorded,
                 attempts, failures>>

AddExample ==
  /\ step = "add"
  /\ \/ files.example = "none" /\ files' = [files EXCEPT !.example = "local"] /\ step' = "addAsk"
     \/ files.example # "none" /\ step' = "submit" /\ UNCHANGED files
  /\ UNCHANGED <<daemon, platform, adminKey, copy, call, outcome, disturbed, unrecorded,
                 attempts, failures>>

AskAddExample ==
  /\ step = "addAsk" /\ step' = "submit"
  /\ \/ daemon.up /\ DaemonSaves([daemon.state EXCEPT !.example = "local"])
     \/ ~daemon.up /\ UNCHANGED <<daemon, files>>
  /\ UNCHANGED <<platform, adminKey, copy, call, outcome, disturbed, unrecorded, attempts,
                 failures>>

ExampleAlready(m) == m.example # "none"
SubmittedAlready(m) == m.example = "submitted"

SkipReview ==
  /\ step = "submit" /\ SubmittedAlready(files) /\ step' = "enable"
  /\ UNCHANGED <<files, daemon, platform, adminKey, copy, call, outcome, disturbed, unrecorded,
                 attempts, failures>>

\* The supervisor saves, and submits what it has; with nothing to submit it is done.
ReviewBySupervisor ==
  /\ step = "submit" /\ ~SubmittedAlready(files) /\ daemon.up
  /\ copy' = files /\ files' = daemon.state
  /\ \/ daemon.state.example = "local" /\ call' = Calling("supervisor", "submit") /\ step' = "wait"
     \/ daemon.state.example # "local" /\ step' = "enable" /\ UNCHANGED call
  /\ UNCHANGED <<daemon, platform, adminKey, outcome, disturbed, unrecorded, attempts, failures>>

ReviewByCommand ==
  /\ step = "submit" /\ ~SubmittedAlready(files) /\ ~daemon.up
  /\ copy' = files
  /\ call' = Calling("command", "submit") /\ step' = "wait"
  /\ UNCHANGED <<files, daemon, platform, adminKey, outcome, disturbed, unrecorded, attempts,
                 failures>>

EnableSellerInFiles ==
  /\ step = "enable" /\ step' = "enableAsk"
  /\ files' = [files EXCEPT !.enabled = TRUE]
  /\ UNCHANGED <<daemon, platform, adminKey, copy, call, outcome, disturbed, unrecorded,
                 attempts, failures>>

AskEnableSeller ==
  /\ step = "enableAsk" /\ step' = "start"
  /\ \/ daemon.up /\ DaemonSaves([daemon.state EXCEPT !.enabled = TRUE])
     \/ ~daemon.up /\ UNCHANGED <<daemon, files>>
  /\ UNCHANGED <<platform, adminKey, copy, call, outcome, disturbed, unrecorded, attempts,
                 failures>>

\* ensureSupervisorAvailable
EnsureSupervisor ==
  /\ step = "start" /\ step' = "visible"
  /\ daemon' = IF daemon.up THEN daemon ELSE [up |-> TRUE, state |-> files]
  /\ UNCHANGED <<files, platform, adminKey, copy, call, outcome, disturbed, unrecorded, attempts,
                 failures>>

\* waitForCatalogVisibility, through the supervisor
Seen == daemon.up /\ platform.visible
\* maybeApproveExample: a seller the platform does not know cannot be approved.
Approvable == adminKey /\ platform.owner # NoAccount

AwaitVisible ==
  /\ step = "visible"
  /\ \/ Seen /\ step' = "request" /\ UNCHANGED <<platform, outcome>>
     \/ /\ ~Seen /\ Approvable
        /\ platform' = [platform EXCEPT !.visible = TRUE]
        /\ \/ daemon.up /\ step' = "request" /\ UNCHANGED outcome
           \/ ~daemon.up /\ Ends("failed")
     \/ ~Seen /\ ~Approvable /\ Ends("awaiting_admin_approval") /\ UNCHANGED platform
  /\ UNCHANGED <<files, daemon, adminKey, copy, call, disturbed, unrecorded, attempts, failures>>

\* dispatchExampleRequest
Dispatches(m) ==
  m.key # NoAccount /\ m.enabled /\ m.example = "submitted" /\ platform.visible

RequestExample ==
  /\ step = "request"
  /\ Ends(IF daemon.up /\ Dispatches(daemon.state) THEN "ok" ELSE "failed")
  /\ UNCHANGED <<files, daemon, platform, adminKey, copy, call, disturbed, unrecorded, attempts,
                 failures>>

-----------------------------------------------------------------------------
(* Calls to the platform                                                   *)

\* POST users/register
PlatformRegisters ==
  /\ call.by # "none" /\ call.kind = "register" /\ call.answer = "none"
  /\ platform.accounts < MaxAccounts
  /\ platform' = [platform EXCEPT !.accounts = @ + 1]
  /\ call' = [call EXCEPT !.answer = "stored"]
  /\ UNCHANGED <<files, daemon, adminKey, step, copy, outcome, disturbed, unrecorded, attempts,
                 failures>>

\* buildSellerRegisterHeaders: the supervisor shows the buyer's key if it has one, the command
\* the seller's.  The platform takes a submission from the seller and from its owner.
MaySubmitWith(m, by) ==
  IF m.sellerKey /\ (by = "command" \/ m.key = NoAccount) THEN TRUE
  ELSE m.key # NoAccount /\ platform.owner \in {NoAccount, m.key}
Submitter == IF call.by = "supervisor" THEN daemon.state ELSE copy

\* POST catalog/subagents
PlatformTakesSubmission ==
  /\ call.by # "none" /\ call.kind = "submit" /\ call.answer = "none"
  /\ \/ /\ MaySubmitWith(Submitter, call.by)
        /\ platform' = [platform EXCEPT !.visible = FALSE,
                          !.owner = IF @ = NoAccount THEN Submitter.key ELSE @]
        /\ call' = [call EXCEPT !.answer = "stored"]
     \/ /\ ~MaySubmitWith(Submitter, call.by)
        /\ call' = [call EXCEPT !.answer = "refused"] /\ UNCHANGED platform
  /\ UNCHANGED <<files, daemon, adminKey, step, copy, outcome, disturbed, unrecorded, attempts,
                 failures>>

\* What waits for the call goes on, unless it was killed.
Resume(next) == step' = IF step = "wait" THEN next ELSE step

\* registerBuyer of the supervisor: the new key replaces the old one.
TakeAccount ==
  /\ call.by = "supervisor" /\ call.kind = "register" /\ call.answer = "stored"
  /\ DaemonSaves([daemon.state EXCEPT !.key = platform.accounts])
  /\ call' = NoCall /\ Resume("add")
  /\ UNCHANGED <<platform, adminKey, copy, outcome, disturbed, unrecorded, attempts, failures>>

\* commandAuthRegister: a key that is already in .env.local wins.
KeepAccount ==
  /\ call.by = "command" /\ call.kind = "register" /\ call.answer = "stored"
  /\ files' = [files EXCEPT !.key = IF @ = NoAccount THEN platform.accounts ELSE @]
  /\ call' = NoCall /\ Resume("add")
  /\ UNCHANGED <<daemon, platform, adminKey, copy, outcome, disturbed, unrecorded, attempts,
                 failures>>

Recorded(m) == [m EXCEPT !.example = "submitted", !.sellerKey = TRUE]

RecordSubmission ==
  /\ call.kind = "submit" /\ call.answer = "stored"
  /\ \/ call.by = "supervisor" /\ DaemonSaves(Recorded(daemon.state))
     \/ call.by = "command" /\ files' = Recorded(copy) /\ UNCHANGED daemon
  /\ call' = NoCall /\ Resume("enable") /\ unrecorded' = FALSE
  /\ UNCHANGED <<platform, adminKey, copy, outcome, disturbed, attempts, failures>>

SubmissionRefused ==
  /\ call.answer = "refused"
  /\ call' = NoCall
  /\ IF step = "wait" THEN Ends("failed") ELSE UNCHANGED <<step, outcome>>
  /\ UNCHANGED <<files, daemon, platform, adminKey, copy, disturbed, unrecorded, attempts,
                 failures>>

-----------------------------------------------------------------------------
(* Failures, and the operator                                              *)

Failure ==
  /\ failures < MaxFailures /\ failures' = failures + 1
  /\ disturbed' = (disturbed \/ step # "idle")

\* The answer of a call that ends here is lost.
CallLost ==
  unrecorded' = (unrecorded \/ (call.kind = "submit" /\ call.answer = "stored"))

\* The platform cannot be reached, or its answer is lost.
CallFails ==
  /\ call # NoCall /\ Failure /\ CallLost
  /\ call' = NoCall
  /\ IF step = "wait" THEN Ends("failed") ELSE UNCHANGED <<step, outcome>>
  /\ UNCHANGED <<files, daemon, platform, adminKey, copy, attempts>>

KillBootstrap ==
  /\ step # "idle" /\ Failure
  /\ Ends("killed")
  /\ \/ call.by = "command" /\ CallLost /\ call' = NoCall
     \/ call.by # "command" /\ UNCHANGED <<call, unrecorded>>
  /\ UNCHANGED <<files, daemon, platform, adminKey, copy, attempts>>

\* A command that waits for the supervisor does its work itself.
KillSupervisor ==
  /\ daemon.up /\ Failure
  /\ daemon' = [up |-> FALSE, state |-> NothingYet]
  /\ \/ /\ call.by = "supervisor" /\ CallLost
        /\ \/ step # "wait" /\ call' = NoCall /\ UNCHANGED step
           \/ step = "wait" /\ call' = Calling("command", call.kind) /\ UNCHANGED step
     \/ call.by # "supervisor" /\ UNCHANGED <<call, step, unrecorded>>
  /\ UNCHANGED <<files, platform, adminKey, copy, outcome, attempts>>

\* commandStart
StartSupervisor ==
  /\ step = "idle" /\ ~daemon.up /\ call = NoCall
  /\ daemon' = [up |-> TRUE, state |-> files]
  /\ UNCHANGED <<files, platform, adminKey, step, copy, call, outcome, disturbed, unrecorded,
                 attempts, failures>>

\* The operator of the platform approves seller and subagent in the console.
OperatorApproves ==
  /\ platform.owner # NoAccount /\ ~platform.visible
  /\ platform' = [platform EXCEPT !.visible = TRUE]
  /\ UNCHANGED <<files, daemon, adminKey, step, copy, call, outcome, disturbed, unrecorded,
                 attempts, failures>>

-----------------------------------------------------------------------------

BootstrapInit ==
  /\ files = NothingYet /\ copy = NothingYet
  /\ daemon = [up |-> FALSE, state |-> NothingYet]
  /\ platform = [accounts |-> 0, owner |-> NoAccount, visible |-> FALSE]
  /\ adminKey \in BOOLEAN
  /\ step = "idle" /\ call = NoCall /\ outcome = "none"
  /\ disturbed = FALSE /\ unrecorded = FALSE
  /\ attempts = 0 /\ failures = 0

CommandStep ==
  \/ BeginBootstrap \/ AuthRegister \/ AddExample \/ AskAddExample
  \/ SkipReview \/ ReviewBySupervisor \/ ReviewByCommand
  \/ EnableSellerInFiles \/ AskEnableSeller
  \/ EnsureSupervisor \/ AwaitVisible \/ RequestExample

CallStep ==
  \/ PlatformRegisters \/ PlatformTakesSubmission
  \/ TakeAccount \/ KeepAccount \/ RecordSubmission \/ SubmissionRefused

BootstrapNext ==
  \/ CommandStep \/ CallStep
  \/ CallFails \/ KillBootstrap \/ KillSupervisor
  \/ StartSupervisor \/ OperatorApproves

BootstrapSpec == BootstrapInit /\ [][BootstrapNext]_bootstrapVars

-----------------------------------------------------------------------------
(* Properties                                                              *)

BootstrapTypeOK ==
  /\ files \in Local /\ copy \in Local
  /\ daemon \in Daemon /\ platform \in Platform
  /\ adminKey \in BOOLEAN /\ disturbed \in BOOLEAN /\ unrecorded \in BOOLEAN
  /\ step \in {"idle", "register", "add", "addAsk", "submit", "enable", "enableAsk", "start",
               "visible", "request", "wait"}
  /\ call \in Call
  /\ outcome \in {"none", "ok", "failed", "awaiting_admin_approval", "killed"}
  /\ attempts \in 0..MaxAttempts /\ failures \in 0..MaxFailures

\* Whatever earlier runs, killed anywhere, and earlier supervisors have left behind: a run of
\* bootstrap during which nothing fails ends with the example answered; or, without an admin
\* key, waits for an approval of something the platform has; unless the platform has stored a
\* submission whose answer was lost.  (commandBootstrap, which skips what the files say is done.)
RerunGetsThrough ==
  ~disturbed /\ ~unrecorded =>
    /\ outcome # "failed"
    /\ outcome = "awaiting_admin_approval" => ~adminKey /\ platform.owner # NoAccount
=============================================================================
