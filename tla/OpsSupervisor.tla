--------------------------- MODULE OpsSupervisor ---------------------------
(***************************************************************************)
(* The ops supervisor's care of the local seller: apps/ops/src/            *)
(* supervisor.js with the configuration of apps/ops/src/config.js.         *)
(* Subagents are set, switched, removed, and submitted to the platform for *)
(* review, one request after the other; the seller process is started,     *)
(* killed and started again so that it serves what is configured.  A       *)
(* command of apps/ops/src/cli.js changes the file first, and then asks    *)
(* the supervisor to do the same.  The console gateway                     *)
(* (apps/platform-console-gateway/src/server.js) writes the whole file     *)
(* too, each time as it read it when it started.                           *)
(*                                                                         *)
(* A definition of a subagent stands for its number: an upsert makes a new *)
(* one, and the object a submission has in hand is the old one.            *)
(*                                                                         *)
(* The relay and the buyer are started as the seller is, and never killed. *)
(* The seller is switched on once and never off.  A restart of the         *)
(* supervisor takes its children with it, as in a container.  One command  *)
(* is run at a time.                                                       *)
(***************************************************************************)
EXTENDS Integers, FiniteSets

CONSTANTS
  Offered,         \* subagent ids in the configuration
  MaxDefinitions,  \* bound: upserts
  MaxSpawns,       \* bound: seller processes started
  MaxTurns,        \* bound: submissions started
  MaxBoots,        \* bound: restarts of the supervisor and of the gateway
  MaxCommands      \* bound: commands on the command line

ASSUME SupervisorAssumption ==
  /\ Offered # {}
  /\ {MaxDefinitions, MaxSpawns, MaxTurns, MaxBoots, MaxCommands} \subseteq Nat

Absent == 0
Spawns == 1..MaxSpawns

VARIABLES
  config,       \* state.config.seller
  configSaved,  \* ops.config.json
  defined,      \* definitions made
  children,     \* seller processes, in the order they were started
  turn,         \* POST seller/submit-review
  received,     \* definitions the platform has received: <<subagent, definition>>
  command,      \* what the command line is doing
  fileOnly,     \* the gateway, or a command alone, has changed the file: the supervisor has
                \* neither saved nor started since
  gateway,      \* the console gateway's state.config.seller
  turns, boots, commands

cliVars == <<command, commands>>
supervisorVars ==
  <<config, configSaved, defined, children, turn, received, fileOnly, gateway, turns, boots,
    cliVars>>

-----------------------------------------------------------------------------

\* marked: submitted_for_review
Entry == [def : 0..MaxDefinitions, marked : BOOLEAN]
NoEntry == [def |-> Absent, marked |-> FALSE]
Config == [enabled : BOOLEAN, entries : [Offered -> Entry]]

Configured(c) == {a \in Offered : c.entries[a].def # Absent}
Unsubmitted(c) == {a \in Configured(c) : ~c.entries[a].marked}

Definitions == Offered \X (1..MaxDefinitions)

\* failed: spawn reported an error, and no exit will follow.
Child == [state : {"unused", "alive", "dying", "failed", "gone"}, serves : SUBSET Offered]

\* The object of runtime.processes; exited is set when the process is gone.
Started == {n \in Spawns : children[n].state # "unused"}
Running(n) == n \in Started /\ children[n].state # "gone"
Latest == Cardinality(Started)

-----------------------------------------------------------------------------
(* Processes                                                               *)

Gone == [state |-> "gone", serves |-> {}]

\* ensureService of a seller whose environment is made of the configuration c.
Spawn(c, kept) ==
  /\ Latest < MaxSpawns
  /\ \E outcome \in {"alive", "failed"} :
       children' = [kept EXCEPT ![Latest + 1] =
         [state |-> outcome, serves |-> IF outcome = "alive" THEN Configured(c) ELSE {}]]

EnsureSeller(c) ==
  \/ Running(Latest) /\ UNCHANGED children
  \/ ~Running(Latest) /\ Spawn(c, children)

Killed == [children EXCEPT ![Latest].state = IF @ = "alive" THEN "dying" ELSE @]

\* reloadSellerIfRunning: the killed process is still there when it asks for a new one, so it
\* gets none, and when the process is gone nothing asks again.
ReloadAtOnce(c) ==
  \/ ~c.enabled /\ UNCHANGED children
  \/ c.enabled /\ ~Running(Latest) /\ Spawn(c, children)
  \/ c.enabled /\ Running(Latest) /\ Spawn(c, Killed)
Reload(c) ==
  \/ ~c.enabled /\ UNCHANGED children
  \/ c.enabled /\ ~Running(Latest) /\ Spawn(c, children)
  \/ c.enabled /\ Running(Latest) /\ children' = Killed

\* The exit event; a process may end by itself.
ChildExits(n) ==
  /\ children[n].state \in {"alive", "dying"}
  /\ children' = [children EXCEPT ![n] = Gone]
  /\ UNCHANGED <<config, configSaved, defined, turn, received, fileOnly, turns, boots, cliVars>>

-----------------------------------------------------------------------------
(* Configuration                                                           *)

\* saveOpsState, by the supervisor
SaveOpsState(c) == configSaved' = c /\ fileOnly' = FALSE

\* saveOpsState, then the seller is reloaded.
ApplyUnsaved(c) == config' = c /\ Reload(c) /\ UNCHANGED <<configSaved, fileOnly>>
Apply(c) ==
  /\ config' = c /\ SaveOpsState(c)
  /\ Reload(c)

NewEntry == [def |-> defined + 1, marked |-> FALSE]

\* upsertSubagent puts a new object in the place of the old one.
Upserted(c, a) ==
  [c EXCEPT !.entries[a] = NewEntry]

SetSubagent(a) ==
  /\ defined < MaxDefinitions /\ defined' = defined + 1
  /\ Apply(Upserted(config, a))
  /\ UNCHANGED <<turn, received, turns, boots>>

Removed(c, a) == [c EXCEPT !.entries[a] = NoEntry]

\* Whether a subagent is switched on makes no difference here.
SwitchSubagent(a) ==
  /\ a \in Configured(config)
  /\ Apply(config)
  /\ UNCHANGED <<defined, turn, received, turns, boots>>

RemoveSubagent(a) ==
  /\ a \in Configured(config)
  /\ Apply(Removed(config, a))
  /\ UNCHANGED <<defined, turn, received, turns, boots>>

\* POST seller/enable does not reload: a seller that runs is left as it is.
EnabledWith(c) ==
  /\ config' = c /\ SaveOpsState(c)
  /\ EnsureSeller(c)
  /\ UNCHANGED <<turn, received, turns, boots>>

EnableSellerAlone ==
  EnabledWith([config EXCEPT !.enabled = TRUE]) /\ UNCHANGED defined

EnableSellerWith(a) ==
  /\ defined < MaxDefinitions /\ defined' = defined + 1
  /\ EnabledWith(Upserted([config EXCEPT !.enabled = TRUE], a))

\* setup, auth/session/setup, auth/register-buyer, runtime/transport
SaveUnchanged ==
  /\ SaveOpsState(config)
  /\ UNCHANGED <<config, defined, children, turn, received, turns, boots>>

\* requests/example asks for the services first.
EnsureServices ==
  /\ config.enabled /\ EnsureSeller(config)
  /\ UNCHANGED <<config, configSaved, defined, turn, received, fileOnly, turns, boots, cliVars>>

-----------------------------------------------------------------------------
(* Submission for review                                                   *)

NoTurn == [pc |-> "idle", list |-> {}, item |-> <<>>]
Turn ==
  [pc : {"idle", "ask", "answer"}, list : SUBSET Definitions, item : Definitions \cup {<<>>}]

\* The list of what is not submitted is made once.
StartSubmission ==
  /\ turn.pc = "idle" /\ turns < MaxTurns /\ turns' = turns + 1
  /\ turn' = [pc |-> "ask", item |-> <<>>,
              list |-> {<<a, config.entries[a].def>> : a \in Unsubmitted(config)}]
  /\ SaveOpsState(config)
  /\ UNCHANGED <<config, defined, children, received, boots>>

\* The platform stores what it is sent, and answers.
PlatformReceives ==
  /\ turn.pc = "ask"
  /\ \E d \in turn.list :
       /\ turn' = [pc |-> "answer", item |-> d, list |-> turn.list \ {d}]
       /\ received' = received \cup {d}
  /\ UNCHANGED <<config, configSaved, defined, children, fileOnly, turns, boots, cliVars>>

\* The object in hand is marked; it is in the configuration unless it was replaced meanwhile.
MarkedById(c, d) == [c EXCEPT !.entries[d[1]].marked = (@ \/ d[1] \in Configured(c))]
Marked(c, d) == [c EXCEPT !.entries[d[1]].marked = (@ \/ c.entries[d[1]].def = d[2])]

\* The seller's key is saved, and with it the configuration as it is before the mark.
TakeAnswer ==
  /\ turn.pc = "answer"
  /\ config' = Marked(config, turn.item)
  /\ SaveOpsState(config)
  /\ turn' = [turn EXCEPT !.pc = "ask", !.item = <<>>]
  /\ UNCHANGED <<defined, children, received, turns, boots, cliVars>>

FinishSubmission ==
  /\ turn.pc = "ask" /\ turn.list = {}
  /\ turn' = NoTurn
  /\ Apply(config)
  /\ UNCHANGED <<defined, received, turns, boots, cliVars>>

\* Another answer than 201 ends the turn: what was marked so far is not saved.
PlatformRefuses ==
  /\ turn.pc = "ask" /\ turn.list # {}
  /\ turn' = NoTurn
  /\ Reload(config)
  /\ UNCHANGED <<config, configSaved, defined, received, fileOnly, turns, boots, cliVars>>

\* No answer, or the session was closed meanwhile and the key cannot be saved: a 500.
SubmissionFails ==
  /\ turn.pc \in {"ask", "answer"} /\ (turn.pc = "ask" => turn.list # {})
  /\ turn' = NoTurn
  /\ UNCHANGED <<config, configSaved, defined, children, received, fileOnly, turns, boots,
                 cliVars>>

-----------------------------------------------------------------------------
(* The command line                                                        *)

NoConfig == [enabled |-> FALSE, entries |-> [a \in Offered |-> NoEntry]]
CommandKinds == {"add", "switch", "remove", "enable", "submit"}
Command == [pc : {"idle", "ask", "submit"}, kind : CommandKinds, item : Offered, copy : Config]

\* "enable" and "submit" are about no subagent.
NoItem == CHOOSE a \in Offered : TRUE
NoCommand == [pc |-> "idle", kind |-> "enable", item |-> NoItem, copy |-> NoConfig]
CommandDone == command' = NoCommand

\* ensureOpsState, the change, saveOpsState, and then the supervisor is asked.
RunCommand(kind, a, c) ==
  /\ command.pc = "idle" /\ commands < MaxCommands /\ commands' = commands + 1
  /\ configSaved' = c
  /\ command' = [pc |-> "ask", kind |-> kind, item |-> a,
                 copy |-> IF kind = "submit" THEN c ELSE NoConfig]
  /\ UNCHANGED <<config, children, turn, received, fileOnly, turns, boots>>

CommandAddSubagent(a) ==
  /\ defined < MaxDefinitions /\ defined' = defined + 1
  /\ RunCommand("add", a, Upserted(configSaved, a))

CommandSetSubagentEnabled(a) ==
  /\ a \in Configured(configSaved)
  /\ RunCommand("switch", a, configSaved) /\ UNCHANGED defined

CommandRemoveSubagent(a) ==
  /\ a \in Configured(configSaved)
  /\ RunCommand("remove", a, Removed(configSaved, a)) /\ UNCHANGED defined

CommandEnableSeller ==
  RunCommand("enable", NoItem, [configSaved EXCEPT !.enabled = TRUE]) /\ UNCHANGED defined

CommandSubmitReview ==
  RunCommand("submit", NoItem, configSaved) /\ UNCHANGED defined

\* The supervisor does what it is asked, or finds no such subagent.
AskSupervisor ==
  /\ command.pc = "ask" /\ CommandDone
  /\ LET a == command.item IN
     \/ command.kind = "add" /\ SetSubagent(a)
     \/ command.kind = "switch" /\ SwitchSubagent(a)
     \/ command.kind = "remove" /\ RemoveSubagent(a)
     \/ command.kind = "enable" /\ EnableSellerAlone
     \/ command.kind = "submit" /\ StartSubmission
     \/ /\ command.kind \in {"switch", "remove"} /\ a \notin Configured(config)
        /\ UNCHANGED <<config, configSaved, defined, children, turn, received, fileOnly, turns,
                       boots>>
  /\ UNCHANGED commands

\* It does not answer, or wants a session, which a command does not have: the command reports
\* success all the same, and submits for review itself if there was no answer.
CommandUnanswered ==
  /\ command.pc = "ask"
  /\ \/ CommandDone
     \/ command.kind = "submit" /\ command' = [command EXCEPT !.pc = "submit"]
  /\ fileOnly' = (fileOnly \/ command.kind # "submit")
  /\ UNCHANGED <<config, configSaved, defined, children, turn, received, turns, boots, commands>>

CommandSubmits ==
  /\ command.pc = "submit"
  /\ \E a \in Unsubmitted(command.copy) :
       /\ received' = received \cup {<<a, command.copy.entries[a].def>>}
       /\ command' = [command EXCEPT !.copy.entries[a].marked = TRUE]
  /\ UNCHANGED <<config, configSaved, defined, children, turn, fileOnly, turns, boots, commands>>

\* What the command has read and marked is written over what the supervisor may have saved.
CommandFinishes ==
  /\ command.pc = "submit" /\ CommandDone
  /\ \/ Unsubmitted(command.copy) = {} /\ configSaved' = command.copy /\ fileOnly' = TRUE
     \/ Unsubmitted(command.copy) # {} /\ UNCHANGED <<configSaved, fileOnly>>
  /\ UNCHANGED <<config, defined, children, turn, received, turns, boots, commands>>

-----------------------------------------------------------------------------
(* The console gateway                                                     *)

\* session/setup and credentials/platform-admin: scrubLegacySecrets and saveOpsState write all of
\* the configuration the gateway has.
GatewaySaves ==
  /\ configSaved' = gateway
  /\ fileOnly' = (fileOnly \/ gateway # configSaved)
  /\ UNCHANGED <<config, defined, children, turn, received, gateway, turns, boots, cliVars>>

\* ensureOpsState, when it starts
BootGateway ==
  /\ boots < MaxBoots /\ boots' = boots + 1
  /\ gateway' = configSaved
  /\ UNCHANGED <<config, configSaved, defined, children, turn, received, fileOnly, turns, cliVars>>

-----------------------------------------------------------------------------

\* The saved configuration, and startManagedServices.
BootSupervisor ==
  /\ boots < MaxBoots /\ boots' = boots + 1
  /\ config' = configSaved
  /\ turn' = NoTurn
  /\ LET ended == [n \in Spawns |-> IF n \in Started THEN Gone ELSE children[n]]
     IN \/ config'.enabled /\ Spawn(config', ended)
        \/ ~config'.enabled /\ children' = ended
  /\ fileOnly' = FALSE
  /\ UNCHANGED <<configSaved, defined, received, command, turns, commands>>

SupervisorInit ==
  /\ config = NoConfig /\ configSaved = config
  /\ defined = 0
  /\ children = [n \in Spawns |-> [state |-> "unused", serves |-> {}]]
  /\ turn = NoTurn /\ received = {}
  /\ command = NoCommand
  /\ fileOnly = FALSE /\ gateway = configSaved
  /\ turns = 0 /\ boots = 0 /\ commands = 0

\* Requests of the ops console.
ConsoleRequest ==
  \/ \E a \in Offered :
       SetSubagent(a) \/ SwitchSubagent(a) \/ RemoveSubagent(a) \/ EnableSellerWith(a)
  \/ EnableSellerAlone \/ StartSubmission \/ SaveUnchanged

CommandLine ==
  \/ \E a \in Offered :
       CommandAddSubagent(a) \/ CommandSetSubagentEnabled(a) \/ CommandRemoveSubagent(a)
  \/ CommandEnableSeller \/ CommandSubmitReview

SubmitReview ==
  \/ PlatformReceives \/ TakeAnswer \/ FinishSubmission
  \/ PlatformRefuses \/ SubmissionFails

SupervisorStep ==
  \/ ConsoleRequest /\ UNCHANGED cliVars
  \/ EnsureServices \/ SubmitReview
  \/ CommandLine
  \/ AskSupervisor \/ CommandUnanswered \/ CommandSubmits \/ CommandFinishes
  \/ \E n \in Spawns : ChildExits(n)
  \/ BootSupervisor

SupervisorNext ==
  \/ SupervisorStep /\ UNCHANGED gateway
  \/ GatewaySaves \/ BootGateway

SupervisorSpec == SupervisorInit /\ [][SupervisorNext]_supervisorVars

-----------------------------------------------------------------------------
(* Properties                                                              *)

SupervisorTypeOK ==
  /\ config \in Config /\ configSaved \in Config
  /\ defined \in 0..MaxDefinitions
  /\ children \in [Spawns -> Child]
  /\ turn \in Turn /\ received \subseteq Definitions
  /\ command \in Command /\ fileOnly \in BOOLEAN /\ gateway \in Config
  /\ turns \in 0..MaxTurns /\ boots \in 0..MaxBoots /\ commands \in 0..MaxCommands

\* What the configuration says is submitted the platform has received, as it is configured
\* now: an answer that comes after the subagent was set anew, or removed and set again, marks
\* nothing; in memory, on disk, and in the old copy the gateway may write over the file.
\* (submitPendingSellerReviews, upsertSubagent.)
MarkedMeansReceived ==
  \A c \in {config, configSaved, gateway}, a \in Offered :
    c.entries[a].marked => <<a, c.entries[a].def>> \in received

\* However it is set, removed, reloaded and restarted: there is one seller process at most,
\* and unless it has been told to end it serves no subagent the configuration does not have.
\* (ensureService, reloadSellerIfRunning.)
SellerAsConfigured ==
  /\ Cardinality({n \in Spawns : children[n].state \in {"alive", "dying"}}) <= 1
  /\ \A n \in Spawns :
       children[n].state = "alive" => children[n].serves \subseteq Configured(config)

\* The configuration in memory and the file have the same subagents, and agree on whether
\* there is a seller, although three processes write the file and each writes all of it: what
\* the supervisor, or a command that reached it, has changed is in both when the command has
\* ended, and a change by another process does not outlive the supervisor's next save.  (Left
\* out is the file as the gateway, or a command alone, has changed it, until the supervisor
\* saves or starts.  A gateway that started earlier writes its old copy back and takes out of
\* the file what the supervisor has saved meanwhile: a restart before the supervisor's next
\* save loses it.)  (saveOpsState, as cli.js and the two servers' handlers call it.)
FileAgrees ==
  command.pc = "idle" /\ ~fileOnly =>
    configSaved.enabled = config.enabled /\ Configured(configSaved) = Configured(config)
=============================================================================
