------------------------------ MODULE OpsProofs ------------------------------
(***************************************************************************)
(* The operator's programs.  OpsSupervisor for any number of subagents,    *)
(* definitions, processes, submissions, commands and restarts: its types;  *)
(* that what is marked as submitted was received; that one seller process  *)
(* at most runs, and as configured; and that memory and file agree,        *)
(* whichever of three processes writes the file.                           *)
(* OpsBootstrap for every number of runs and failures: its types, and that *)
(* a run during which nothing fails gets through.                          *)
(***************************************************************************)
EXTENDS OpsSupervisor, OpsBootstrap, FiniteSetTheorems, TLAPS

-----------------------------------------------------------------------------
(* The supervisor and the commands                                         *)

\* What c marks has been received.
Marks(c, got) == \A a \in Offered : c.entries[a].marked => <<a, c.entries[a].def>> \in got

\* An answer is about something the platform has.
AnswerOK == turn.pc = "answer" => turn.item \in Definitions /\ turn.item \in received

\* The first L processes were started, and all of these but the last are gone.
UpTo(ch, L) ==
  \A n \in Spawns : /\ n > L <=> ch[n].state = "unused"
                    /\ n < L => ch[n].state = "gone"

\* A seller that was not told to end serves what c has.
Serves(ch, c) ==
  \A n \in Spawns : ch[n].state = "alive" => c.enabled /\ ch[n].serves \subseteq Configured(c)

ChildrenOK(ch, c) ==
  /\ ch \in [Spawns -> Child]
  /\ \E L \in 0..MaxSpawns : UpTo(ch, L)
  /\ Serves(ch, c)

\* Two configurations agree on the subagents other than those in S.
AgreeBut(S, c, d) == \A a \in Offered \ S : a \in Configured(c) <=> a \in Configured(d)

\* A command that has changed the file and not asked yet accounts for any difference.
FileOK ==
  ~fileOnly =>
    /\ configSaved.enabled = config.enabled \/ (command.pc = "ask" /\ command.kind = "enable")
    /\ \/ AgreeBut({}, configSaved, config)
       \/ /\ command.pc = "ask" /\ command.kind \in {"add", "remove"}
          /\ AgreeBut({command.item}, configSaved, config)
          /\ command.kind = "remove" => command.item \notin Configured(configSaved)

\* The supervisor, its files, its process and the platform; and the command.
ServerOK ==
  /\ config \in Config /\ configSaved \in Config /\ defined \in 0..MaxDefinitions
  /\ turn \in Turn /\ received \subseteq Definitions
  /\ turns \in 0..MaxTurns /\ boots \in 0..MaxBoots
  /\ Marks(config, received) /\ Marks(configSaved, received)
  /\ AnswerOK /\ ChildrenOK(children, config)
CommandOK ==
  /\ command \in Command /\ fileOnly \in BOOLEAN /\ commands \in 0..MaxCommands
  /\ Marks(command.copy, received)

SupervisorInv == ServerOK /\ CommandOK /\ FileOK

\* And the console gateway, whose old copy has only marks that were earned.
AllInv == SupervisorInv /\ gateway \in Config /\ Marks(gateway, received)

Agree == configSaved.enabled = config.enabled /\ AgreeBut({}, configSaved, config)

-----------------------------------------------------------------------------
(* Configurations                                                          *)

\* The bounds are numbers.
LEMMA SupervisorConstants ==
  /\ MaxDefinitions \in Nat /\ MaxSpawns \in Nat /\ MaxTurns \in Nat
  /\ MaxBoots \in Nat /\ MaxCommands \in Nat
  BY SupervisorAssumption

\* A configuration without subagents.
LEMMA EntryFacts ==
  /\ NoEntry \in Entry /\ NoEntry.def = Absent /\ ~NoEntry.marked
  /\ NoConfig \in Config /\ ~NoConfig.enabled /\ Configured(NoConfig) = {}
  /\ Marks(NoConfig, {})
<1>1. NoEntry \in Entry /\ NoEntry.def = Absent /\ ~NoEntry.marked
  BY SupervisorConstants DEF NoEntry, Entry, Absent
<1>2. NoConfig \in Config /\ ~NoConfig.enabled
      /\ \A a \in Offered : NoConfig.entries[a] = NoEntry
  BY <1>1 DEF NoConfig, Config
<1> QED
  BY <1>1, <1>2 DEF Configured, Marks

\* Adding or replacing a subagent marks nothing.
LEMMA UpsertedFacts ==
  ASSUME NEW c \in Config, NEW a \in Offered, defined \in Nat, defined < MaxDefinitions
  PROVE  /\ Upserted(c, a) \in Config /\ Upserted(c, a).enabled = c.enabled
         /\ Configured(Upserted(c, a)) = Configured(c) \cup {a}
         /\ \A got : Marks(c, got) => Marks(Upserted(c, a), got)
<1>1. NewEntry \in Entry /\ NewEntry.def # Absent /\ ~NewEntry.marked
  BY SupervisorConstants DEF NewEntry, Entry, Absent
<1>2. Upserted(c, a) = [c EXCEPT !.entries = [c.entries EXCEPT ![a] = NewEntry]]
  BY DEF Upserted, Config
<1> HIDE DEF NewEntry
<1>3. [c.entries EXCEPT ![a] = NewEntry] \in [Offered -> Entry]
  BY <1>1 DEF Config
<1>4. Upserted(c, a) \in Config /\ Upserted(c, a).enabled = c.enabled
      /\ Upserted(c, a).entries = [c.entries EXCEPT ![a] = NewEntry]
  BY <1>2, <1>3 DEF Config
<1>5. \A b \in Offered : Upserted(c, a).entries[b] = IF b = a THEN NewEntry ELSE c.entries[b]
  BY <1>4 DEF Config
<1> QED
  BY <1>1, <1>4, <1>5 DEF Configured, Marks

\* Removing one marks nothing.
LEMMA RemovedFacts ==
  ASSUME NEW c \in Config, NEW a \in Offered
  PROVE  /\ Removed(c, a) \in Config /\ Removed(c, a).enabled = c.enabled
         /\ Configured(Removed(c, a)) = Configured(c) \ {a}
         /\ \A got : Marks(c, got) => Marks(Removed(c, a), got)
<1>1. [c.entries EXCEPT ![a] = NoEntry] \in [Offered -> Entry]
  BY EntryFacts DEF Config
<1>2. Removed(c, a) = [c EXCEPT !.entries = [c.entries EXCEPT ![a] = NoEntry]]
  BY DEF Removed, Config
<1> HIDE DEF NoEntry
<1>3. Removed(c, a) \in Config /\ Removed(c, a).enabled = c.enabled
      /\ Removed(c, a).entries = [c.entries EXCEPT ![a] = NoEntry]
  BY <1>1, <1>2 DEF Config
<1>4. \A b \in Offered : Removed(c, a).entries[b] = IF b = a THEN NoEntry ELSE c.entries[b]
  BY <1>3 DEF Config
<1> QED
  BY <1>3, <1>4, EntryFacts DEF Configured, Marks

\* Enabling the seller changes no subagent.
LEMMA EnabledFacts ==
  ASSUME NEW c \in Config
  PROVE  /\ [c EXCEPT !.enabled = TRUE] \in Config /\ [c EXCEPT !.enabled = TRUE].enabled
         /\ [c EXCEPT !.enabled = TRUE].entries = c.entries
<1>1. [c EXCEPT !.enabled = TRUE] \in Config
  BY Zenon DEF Config
<1> QED
  BY <1>1 DEF Config

\* A mark does not change what is configured, and is earned.
LEMMA MarkedFacts ==
  ASSUME NEW c \in Config, NEW d \in Definitions
  PROVE  /\ Marked(c, d) \in Config /\ Marked(c, d).enabled = c.enabled
         /\ Configured(Marked(c, d)) = Configured(c)
         /\ \A got : d \in got /\ Marks(c, got) => Marks(Marked(c, d), got)
<1>0. d[1] \in Offered /\ d = <<d[1], d[2]>>
  BY DEF Definitions
<1> DEFINE e == [c.entries[d[1]] EXCEPT !.marked = (@ \/ c.entries[d[1]].def = d[2])]
<1>1. c.entries[d[1]] \in Entry
  BY <1>0 DEF Config
<1>2. e.def = c.entries[d[1]].def
  BY <1>1 DEF Entry
<1>3. e.marked = (c.entries[d[1]].marked \/ c.entries[d[1]].def = d[2])
  BY <1>1 DEF Entry
<1>4. e \in Entry
  BY <1>1, Zenon DEF Entry
<1>5. Marked(c, d) = [c EXCEPT !.entries = [c.entries EXCEPT ![d[1]] = e]]
  BY <1>0 DEF Marked, Config
<1> HIDE DEF e
<1>6. [c.entries EXCEPT ![d[1]] = e] \in [Offered -> Entry]
  BY <1>4 DEF Config
<1>7. Marked(c, d) \in Config /\ Marked(c, d).enabled = c.enabled
      /\ Marked(c, d).entries = [c.entries EXCEPT ![d[1]] = e]
  BY <1>5, <1>6 DEF Config
<1>8. \A b \in Offered : Marked(c, d).entries[b] = IF b = d[1] THEN e ELSE c.entries[b]
  BY <1>0, <1>7 DEF Config
<1>9. Configured(Marked(c, d)) = Configured(c)
  BY <1>2, <1>8 DEF Configured
<1>10. ASSUME NEW got, d \in got, Marks(c, got) PROVE Marks(Marked(c, d), got)
  BY <1>0, <1>2, <1>3, <1>8, <1>10 DEF Marks
<1> QED
  BY <1>7, <1>9, <1>10

-----------------------------------------------------------------------------
(* Processes                                                               *)

\* Latest is the number of the last process that was started.
LEMMA LatestFact ==
  ASSUME NEW L \in 0..MaxSpawns, UpTo(children, L)
  PROVE  Latest = L /\ \A n \in Spawns : n \in Started <=> n <= L
<1>1. L \in Nat /\ MaxSpawns \in Nat /\ L <= MaxSpawns
  BY SupervisorConstants
<1>2. \A n \in Spawns : n \in Nat /\ n >= 1 /\ n <= MaxSpawns
  BY <1>1 DEF Spawns
<1>3. \A n \in Spawns : n \in Started <=> n <= L
  BY <1>1, <1>2 DEF Started, UpTo
<1>4. Started = 1..L
  BY <1>1, <1>2, <1>3 DEF Started, Spawns
<1>5. Cardinality(1..L) = L
  BY <1>1, FS_Interval
<1> QED
  BY <1>3, <1>4, <1>5 DEF Latest

\* A process is started where all before it are gone.
LEMMA SpawnOK ==
  ASSUME NEW L \in 0..MaxSpawns, UpTo(children, L), NEW kept \in [Spawns -> Child],
         \A n \in Spawns : IF n <= L THEN kept[n].state = "gone" ELSE kept[n].state = "unused",
         NEW c \in Config, c.enabled, Spawn(c, kept)
  PROVE  ChildrenOK(children', c)
<1>1. L < MaxSpawns /\ L + 1 \in 0..MaxSpawns /\ L + 1 \in Spawns /\ Latest = L
  BY LatestFact, SupervisorConstants DEF Spawn, Spawns
<1>2. PICK began \in {"alive", "failed"} :
        children' = [kept EXCEPT ![L + 1] =
          [state |-> began, serves |-> IF began = "alive" THEN Configured(c) ELSE {}]]
  BY <1>1 DEF Spawn
<1> DEFINE new == [state |-> began, serves |-> IF began = "alive" THEN Configured(c) ELSE {}]
<1>3. new \in Child /\ new.state = began /\ (began = "alive" => new.serves = Configured(c))
  BY DEF Child, Configured
<1> HIDE DEF new
<1>4. children' \in [Spawns -> Child]
  BY <1>1, <1>2, <1>3 DEF new
<1>5. \A n \in Spawns : children'[n] = IF n = L + 1 THEN new ELSE kept[n]
  BY <1>1, <1>2 DEF new
<1>6. UpTo(children', L + 1)
  BY <1>1, <1>3, <1>5, SupervisorConstants DEF UpTo, Spawns
<1>7. Serves(children', c)
  BY <1>3, <1>5 DEF Serves
<1> QED
  BY <1>1, <1>4, <1>6, <1>7 DEF ChildrenOK

\* With no process in the way, ensureService starts one.
LEMMA FreshSpawn ==
  ASSUME NEW c \in Config, NEW d \in Config, ChildrenOK(children, d), c.enabled,
         ~Running(Latest), Spawn(c, children)
  PROVE  ChildrenOK(children', c)
<1>1. PICK L \in 0..MaxSpawns : UpTo(children, L)
  BY DEF ChildrenOK
<1>2. Latest = L /\ \A n \in Spawns : n \in Started <=> n <= L
  BY <1>1, LatestFact
<1>3. \A n \in Spawns :
        IF n <= L THEN children[n].state = "gone" ELSE children[n].state = "unused"
  BY <1>1, <1>2, SupervisorConstants DEF Running, UpTo, Spawns
<1> QED
  BY <1>1, <1>3, SpawnOK DEF ChildrenOK

\* Starting the seller unless it runs leaves one process that serves what is configured.
LEMMA EnsureOK ==
  ASSUME NEW c \in Config, NEW d \in Config, ChildrenOK(children, d), c.enabled,
         Configured(d) \subseteq Configured(c), EnsureSeller(c)
  PROVE  ChildrenOK(children', c)
<1>1. CASE Running(Latest) /\ UNCHANGED children
  BY <1>1 DEF ChildrenOK, Serves
<1>2. CASE ~Running(Latest) /\ Spawn(c, children)
  BY <1>2, FreshSpawn
<1> QED
  BY <1>1, <1>2 DEF EnsureSeller

\* A reload ends the process that serves the old configuration.
LEMMA ReloadOK ==
  ASSUME NEW c \in Config, NEW d \in Config, ChildrenOK(children, d), d.enabled => c.enabled,
         Reload(c)
  PROVE  ChildrenOK(children', c)
<1>1. CASE ~c.enabled /\ UNCHANGED children
  BY <1>1 DEF ChildrenOK, Serves
<1>2. CASE c.enabled /\ ~Running(Latest) /\ Spawn(c, children)
  BY <1>2, FreshSpawn
<1>3. CASE c.enabled /\ Running(Latest) /\ children' = Killed
  <2>1. PICK L \in 0..MaxSpawns : UpTo(children, L)
    BY DEF ChildrenOK
  <2>2. Latest = L /\ \A n \in Spawns : n \in Started <=> n <= L
    BY <2>1, LatestFact
  <2>3. L \in Spawns
    BY <1>3, <2>2 DEF Running, Started
  <2> DEFINE ended == [children[L] EXCEPT !.state = IF @ = "alive" THEN "dying" ELSE @]
  <2>4. /\ ended \in Child /\ ended.state # "alive"
        /\ ended.state = "unused" <=> children[L].state = "unused"
    BY <2>3 DEF ChildrenOK, Child
  <2>5. children' = [children EXCEPT ![L] = ended]
    BY <1>3, <2>2, <2>3 DEF Killed, ChildrenOK, Child
  <2> HIDE DEF ended
  <2>6. children' \in [Spawns -> Child]
    BY <2>3, <2>4, <2>5 DEF ChildrenOK
  <2>7. \A n \in Spawns : children'[n] = IF n = L THEN ended ELSE children[n]
    BY <2>5 DEF ChildrenOK
  <2>8. UpTo(children', L)
    BY <2>1, <2>3, <2>4, <2>7, SupervisorConstants DEF UpTo, Spawns
  <2>9. Serves(children', c)
    <3> SUFFICES ASSUME NEW n \in Spawns, children'[n].state = "alive" PROVE FALSE
      BY DEF Serves
    <3>1. n # L /\ children[n].state = "alive"
      BY <2>4, <2>7
    <3> QED
      BY <2>1, <2>3, <3>1, SupervisorConstants DEF UpTo, Spawns
  <2> QED
    BY <2>6, <2>8, <2>9 DEF ChildrenOK
<1> QED
  BY <1>1, <1>2, <1>3 DEF Reload

-----------------------------------------------------------------------------
(* Handlers of the supervisor: each leaves memory and file in agreement    *)

\* Setting a subagent.
LEMMA SetStep ==
  ASSUME ServerOK, NEW a \in Offered, SetSubagent(a)
  PROVE  ServerOK' /\ Agree' /\ fileOnly' = FALSE /\ UNCHANGED received
<1> DEFINE c == Upserted(config, a)
<1>1. /\ defined < MaxDefinitions /\ defined' = defined + 1
      /\ config' = c /\ configSaved' = c /\ fileOnly' = FALSE /\ Reload(c)
      /\ UNCHANGED <<turn, received, turns, boots>>
  BY DEF SetSubagent, Apply, SaveOpsState
<1>2. c \in Config /\ c.enabled = config.enabled /\ Marks(c, received)
  BY <1>1, UpsertedFacts, SupervisorConstants DEF ServerOK
<1> HIDE DEF c
<1>3. ChildrenOK(children', c)
  BY <1>1, <1>2, ReloadOK DEF ServerOK
<1>4. defined' \in 0..MaxDefinitions
  BY <1>1, SupervisorConstants DEF ServerOK
<1> QED
  BY <1>1, <1>2, <1>3, <1>4 DEF ServerOK, AnswerOK, Agree, AgreeBut

\* Switching one on or off.
LEMMA SwitchStep ==
  ASSUME ServerOK, NEW a \in Offered, SwitchSubagent(a)
  PROVE  ServerOK' /\ Agree' /\ fileOnly' = FALSE /\ UNCHANGED received
<1>1. ChildrenOK(children', config)
  BY ReloadOK DEF ServerOK, SwitchSubagent, Apply
<1> QED
  BY <1>1 DEF ServerOK, SwitchSubagent, Apply, SaveOpsState, AnswerOK, Agree, AgreeBut

\* Removing one.
LEMMA RemoveStep ==
  ASSUME ServerOK, NEW a \in Offered, RemoveSubagent(a)
  PROVE  ServerOK' /\ Agree' /\ fileOnly' = FALSE /\ UNCHANGED received
<1> DEFINE c == Removed(config, a)
<1>1. /\ config' = c /\ configSaved' = c /\ fileOnly' = FALSE /\ Reload(c)
      /\ UNCHANGED <<defined, turn, received, turns, boots>>
  BY DEF RemoveSubagent, Apply, SaveOpsState
<1>2. c \in Config /\ c.enabled = config.enabled /\ Marks(c, received)
  BY RemovedFacts DEF ServerOK
<1> HIDE DEF c
<1>3. ChildrenOK(children', c)
  BY <1>1, <1>2, ReloadOK DEF ServerOK
<1> QED
  BY <1>1, <1>2, <1>3 DEF ServerOK, AnswerOK, Agree, AgreeBut

\* Enabling the seller with a configuration that marks only what was received.
LEMMA EnabledStep ==
  ASSUME ServerOK, NEW c \in Config, c.enabled, Configured(config) \subseteq Configured(c),
         Marks(c, received), EnabledWith(c), defined' \in 0..MaxDefinitions
  PROVE  ServerOK' /\ Agree' /\ fileOnly' = FALSE /\ UNCHANGED received
<1>1. ChildrenOK(children', c)
  BY EnsureOK DEF ServerOK, EnabledWith
<1> QED
  BY <1>1 DEF ServerOK, EnabledWith, SaveOpsState, AnswerOK, Agree, AgreeBut

\* The two ways to enable it.
LEMMA EnableStep ==
  ASSUME ServerOK, EnableSellerAlone \/ \E a \in Offered : EnableSellerWith(a)
  PROVE  ServerOK' /\ Agree' /\ fileOnly' = FALSE /\ UNCHANGED received
<1> DEFINE on == [config EXCEPT !.enabled = TRUE]
<1>1. /\ on \in Config /\ on.enabled /\ Configured(on) = Configured(config)
      /\ Marks(on, received)
  BY EnabledFacts DEF ServerOK, Configured, Marks
<1> HIDE DEF on
<1>2. CASE EnableSellerAlone
  BY <1>1, <1>2, EnabledStep DEF EnableSellerAlone, ServerOK, on
<1>3. ASSUME NEW a \in Offered, EnableSellerWith(a)
      PROVE  ServerOK' /\ Agree' /\ fileOnly' = FALSE /\ UNCHANGED received
  <2>1. defined < MaxDefinitions /\ defined' = defined + 1 /\ EnabledWith(Upserted(on, a))
    BY <1>3 DEF EnableSellerWith, on
  <2>2. /\ Upserted(on, a) \in Config /\ Upserted(on, a).enabled
        /\ Configured(config) \subseteq Configured(Upserted(on, a))
        /\ Marks(Upserted(on, a), received)
    BY <1>1, <2>1, UpsertedFacts, SupervisorConstants DEF ServerOK
  <2>3. defined' \in 0..MaxDefinitions
    BY <2>1, SupervisorConstants DEF ServerOK
  <2> QED
    BY <2>1, <2>2, <2>3, EnabledStep
<1> QED
  BY <1>2, <1>3

\* Sending what is unsubmitted to the platform.
LEMMA StartStep ==
  ASSUME ServerOK, StartSubmission
  PROVE  ServerOK' /\ Agree' /\ fileOnly' = FALSE /\ UNCHANGED received
<1>1. \A a \in Unsubmitted(config) : <<a, config.entries[a].def>> \in Definitions
  BY SupervisorConstants
  DEF ServerOK, Unsubmitted, Configured, Definitions, Config, Entry, Absent
<1>2. turn' \in Turn /\ turn'.pc = "ask"
  BY <1>1 DEF StartSubmission, Turn
<1>3. turns' \in 0..MaxTurns
  BY SupervisorConstants DEF ServerOK, StartSubmission
<1> QED
  BY <1>2, <1>3 DEF ServerOK, StartSubmission, SaveOpsState, AnswerOK, Agree, AgreeBut

\* Saving what is configured.
LEMMA FileSaveStep ==
  ASSUME ServerOK, SaveUnchanged
  PROVE  ServerOK' /\ Agree' /\ fileOnly' = FALSE /\ UNCHANGED received
  BY DEF ServerOK, SaveUnchanged, SaveOpsState, AnswerOK, ChildrenOK, Serves, Agree, AgreeBut

-----------------------------------------------------------------------------
(* The inductive invariant                                                 *)

\* The invariant contains the types.
LEMMA InvTypes == AllInv => SupervisorTypeOK
  BY DEF AllInv, SupervisorInv, ServerOK, CommandOK, ChildrenOK, SupervisorTypeOK

\* It holds at first.
LEMMA SupervisorInvInit == SupervisorInit => AllInv
<1> SUFFICES ASSUME SupervisorInit PROVE AllInv
  OBVIOUS
<1>1. NoCommand \in Command /\ NoCommand.pc = "idle" /\ NoCommand.copy = NoConfig
  <2>1. NoItem \in Offered
    BY SupervisorAssumption DEF NoItem
  <2> QED
    BY <2>1, EntryFacts DEF NoCommand, Command, CommandKinds
<1>2. NoTurn \in Turn /\ NoTurn.pc = "idle"
  BY DEF NoTurn, Turn
<1>3. ChildrenOK(children, NoConfig)
  <2>1. children \in [Spawns -> Child]
    BY DEF SupervisorInit, Child
  <2>2. UpTo(children, 0) /\ 0 \in 0..MaxSpawns
    BY SupervisorConstants DEF SupervisorInit, UpTo, Spawns
  <2>3. Serves(children, NoConfig)
    BY DEF SupervisorInit, Serves
  <2> QED
    BY <2>1, <2>2, <2>3 DEF ChildrenOK
<1>4. ServerOK
  BY <1>2, <1>3, EntryFacts, SupervisorConstants
  DEF SupervisorInit, ServerOK, AnswerOK
<1>5. CommandOK
  <2>1. command = NoCommand /\ received = {} /\ fileOnly = FALSE /\ commands = 0
    BY DEF SupervisorInit
  <2>2. Marks(command.copy, received)
    BY <1>1, <2>1, EntryFacts
  <2>3. commands \in 0..MaxCommands
    BY <2>1, SupervisorConstants
  <2> QED
    BY <1>1, <2>1, <2>2, <2>3 DEF CommandOK
<1>6. FileOK
  BY DEF SupervisorInit, FileOK, AgreeBut
<1>7. gateway \in Config /\ Marks(gateway, received)
  BY EntryFacts DEF SupervisorInit
<1> QED
  BY <1>4, <1>5, <1>6, <1>7 DEF SupervisorInv, AllInv

\* What the platform has received it keeps.
LEMMA MarksStay ==
  ASSUME NEW c, NEW got, NEW got2, Marks(c, got), got \subseteq got2
  PROVE  Marks(c, got2)
  BY DEF Marks

\* A handler that ends in agreement needs no excuse of a command.
LEMMA AgreeSuffices == Agree' => FileOK'
  BY DEF Agree, FileOK

\* The platform's answers, and their failures.
LEMMA SubmitStep == ASSUME SupervisorInv, SubmitReview PROVE SupervisorInv'
<1>0. ServerOK /\ CommandOK /\ FileOK
  BY DEF SupervisorInv
<1>1. UNCHANGED cliVars
  BY DEF SubmitReview, PlatformReceives, TakeAnswer, FinishSubmission, PlatformRefuses,
         SubmissionFails
<1>2. CASE PlatformReceives
  <2>1. PICK d \in turn.list :
          /\ turn' = [pc |-> "answer", item |-> d, list |-> turn.list \ {d}]
          /\ received' = received \cup {d}
          /\ UNCHANGED <<config, configSaved, defined, children, fileOnly, turns, boots>>
    BY <1>2 DEF PlatformReceives
  <2>2. d \in Definitions /\ turn' \in Turn /\ turn'.item = d /\ received' \subseteq Definitions
    BY <1>0, <2>1 DEF ServerOK, Turn
  <2>3. /\ Marks(config, received') /\ Marks(configSaved, received')
        /\ Marks(command.copy, received')
    BY <1>0, <2>1, MarksStay DEF ServerOK, CommandOK
  <2> QED
    BY <1>0, <1>1, <2>1, <2>2, <2>3
    DEF SupervisorInv, ServerOK, CommandOK, FileOK, AnswerOK, cliVars
<1>3. CASE TakeAnswer
  <2> DEFINE c == Marked(config, turn.item)
  <2>1. turn.item \in Definitions /\ turn.item \in received
    BY <1>0, <1>3 DEF TakeAnswer, ServerOK, AnswerOK
  <2>2. /\ c \in Config /\ c.enabled = config.enabled /\ Configured(c) = Configured(config)
        /\ Marks(c, received)
    BY <1>0, <2>1, MarkedFacts DEF ServerOK
  <2>3. /\ config' = c /\ configSaved' = config /\ fileOnly' = FALSE
        /\ UNCHANGED <<defined, children, received, turns, boots>>
    BY <1>3 DEF TakeAnswer, SaveOpsState
  <2>4. turn' \in Turn /\ turn'.pc = "ask"
    BY <1>0, <1>3 DEF TakeAnswer, ServerOK, Turn
  <2> HIDE DEF c
  <2>5. ChildrenOK(children, c)
    BY <1>0, <2>2 DEF ServerOK, ChildrenOK, Serves
  <2>6. Agree'
    BY <2>2, <2>3 DEF Agree, AgreeBut
  <2> QED
    BY <1>0, <1>1, <2>2, <2>3, <2>4, <2>5, <2>6, AgreeSuffices
    DEF SupervisorInv, ServerOK, CommandOK, AnswerOK, cliVars
<1>4. CASE FinishSubmission
  <2>1. ChildrenOK(children', config)
    BY <1>0, <1>4, ReloadOK DEF ServerOK, FinishSubmission, Apply
  <2>2. NoTurn \in Turn /\ NoTurn.pc = "idle"
    BY DEF NoTurn, Turn
  <2>3. Agree'
    BY <1>4 DEF FinishSubmission, Apply, SaveOpsState, Agree, AgreeBut
  <2> QED
    BY <1>0, <1>1, <1>4, <2>1, <2>2, <2>3, AgreeSuffices
    DEF SupervisorInv, ServerOK, CommandOK, AnswerOK, FinishSubmission, Apply, SaveOpsState, cliVars
<1>5. CASE PlatformRefuses \/ SubmissionFails
  <2>1. ChildrenOK(children', config)
    BY <1>0, <1>5, ReloadOK DEF ServerOK, PlatformRefuses, SubmissionFails
  <2>2. NoTurn \in Turn /\ NoTurn.pc = "idle"
    BY DEF NoTurn, Turn
  <2> QED
    BY <1>0, <1>1, <1>5, <2>1, <2>2
    DEF SupervisorInv, ServerOK, CommandOK, FileOK, AnswerOK, PlatformRefuses, SubmissionFails,
        cliVars
<1> QED
  BY <1>2, <1>3, <1>4, <1>5 DEF SubmitReview

\* A command changes the file only, and remembers what it has to ask for.
LEMMA RunStep ==
  ASSUME SupervisorInv, NEW kind \in CommandKinds, NEW a \in Offered, NEW c \in Config,
         RunCommand(kind, a, c), Marks(c, received), defined' \in 0..MaxDefinitions,
         c.enabled = configSaved.enabled \/ kind = "enable",
         \/ AgreeBut({}, c, configSaved)
         \/ kind \in {"add", "remove"} /\ AgreeBut({a}, c, configSaved),
         kind = "remove" => a \notin Configured(c)
  PROVE  SupervisorInv'
<1>0. ServerOK /\ CommandOK /\ FileOK
  BY DEF SupervisorInv
<1> DEFINE taken == IF kind = "submit" THEN c ELSE NoConfig
<1>1. /\ command.pc = "idle" /\ commands < MaxCommands /\ commands' = commands + 1
      /\ configSaved' = c
      /\ command' = [pc |-> "ask", kind |-> kind, item |-> a, copy |-> taken]
      /\ UNCHANGED <<config, children, turn, received, fileOnly, turns, boots>>
  BY DEF RunCommand
<1>2. taken \in Config /\ Marks(taken, received)
  BY EntryFacts DEF Marks
<1> HIDE DEF taken
<1>3. command' \in Command /\ command'.copy = taken
  BY <1>1, <1>2 DEF Command
<1>4. CommandOK'
  BY <1>0, <1>1, <1>2, <1>3, SupervisorConstants DEF CommandOK
<1>5. ServerOK'
  BY <1>0, <1>1 DEF ServerOK, AnswerOK
<1>6. FileOK'
  <2>1. ~fileOnly => Agree
    BY <1>0, <1>1 DEF FileOK, Agree
  <2> QED
    BY <1>1, <2>1 DEF FileOK, Agree, AgreeBut
<1> QED
  BY <1>4, <1>5, <1>6 DEF SupervisorInv

\* The command line keeps it.
LEMMA CommandLineStep == ASSUME SupervisorInv, CommandLine PROVE SupervisorInv'
<1>0. configSaved \in Config /\ Marks(configSaved, received) /\ defined \in 0..MaxDefinitions
  BY DEF SupervisorInv, ServerOK
<1>1. ASSUME NEW a \in Offered, CommandAddSubagent(a) PROVE SupervisorInv'
  <2>1. defined < MaxDefinitions /\ defined' \in 0..MaxDefinitions
    BY <1>0, <1>1, SupervisorConstants DEF CommandAddSubagent
  <2>2. /\ Upserted(configSaved, a) \in Config
        /\ Upserted(configSaved, a).enabled = configSaved.enabled
        /\ Configured(Upserted(configSaved, a)) = Configured(configSaved) \cup {a}
        /\ Marks(Upserted(configSaved, a), received)
    BY <1>0, <2>1, UpsertedFacts, SupervisorConstants
  <2>3. AgreeBut({a}, Upserted(configSaved, a), configSaved)
    BY <2>2 DEF AgreeBut
  <2> QED
    BY <1>1, <2>1, <2>2, <2>3, RunStep DEF CommandAddSubagent, CommandKinds
<1>2. ASSUME NEW a \in Offered, CommandSetSubagentEnabled(a) PROVE SupervisorInv'
  BY <1>0, <1>2, RunStep DEF CommandSetSubagentEnabled, CommandKinds, AgreeBut
<1>3. ASSUME NEW a \in Offered, CommandRemoveSubagent(a) PROVE SupervisorInv'
  <2>1. /\ Removed(configSaved, a) \in Config
        /\ Removed(configSaved, a).enabled = configSaved.enabled
        /\ Configured(Removed(configSaved, a)) = Configured(configSaved) \ {a}
        /\ Marks(Removed(configSaved, a), received)
    BY <1>0, RemovedFacts
  <2>2. AgreeBut({a}, Removed(configSaved, a), configSaved)
    BY <2>1 DEF AgreeBut
  <2> QED
    BY <1>0, <1>3, <2>1, <2>2, RunStep DEF CommandRemoveSubagent, CommandKinds
<1>4. NoItem \in Offered
  BY SupervisorAssumption DEF NoItem
<1>5. CASE CommandEnableSeller
  <2> DEFINE on == [configSaved EXCEPT !.enabled = TRUE]
  <2>1. on \in Config /\ Configured(on) = Configured(configSaved) /\ Marks(on, received)
    BY <1>0, EnabledFacts DEF Configured, Marks
  <2>2. RunCommand("enable", NoItem, on) /\ UNCHANGED defined
    BY <1>5 DEF CommandEnableSeller
  <2> HIDE DEF on
  <2>3. AgreeBut({}, on, configSaved)
    BY <2>1 DEF AgreeBut
  <2> QED
    BY <1>0, <1>4, <2>1, <2>2, <2>3, RunStep DEF CommandKinds
<1>6. CASE CommandSubmitReview
  BY <1>0, <1>4, <1>6, RunStep DEF CommandSubmitReview, CommandKinds, AgreeBut
<1> QED
  BY <1>1, <1>2, <1>3, <1>5, <1>6 DEF CommandLine

\* No command is under way.
LEMMA NoCommandOK ==
  NoCommand \in Command /\ NoCommand.pc = "idle" /\ \A got : Marks(NoCommand.copy, got)
<1>1. NoItem \in Offered
  BY SupervisorAssumption DEF NoItem
<1>2. NoCommand \in Command /\ NoCommand.pc = "idle" /\ NoCommand.copy = NoConfig
  BY <1>1, EntryFacts DEF NoCommand, Command, CommandKinds
<1> QED
  BY <1>2, EntryFacts DEF Marks

\* The supervisor does what it is asked; what it cannot do, the file does not have either.
LEMMA AskStep == ASSUME SupervisorInv, AskSupervisor PROVE SupervisorInv'
<1>0. ServerOK /\ CommandOK /\ FileOK /\ command.item \in Offered
  BY DEF SupervisorInv, CommandOK, Command
<1>1. command.pc = "ask" /\ command' = NoCommand /\ UNCHANGED commands
  BY DEF AskSupervisor, CommandDone
<1>2. fileOnly' \in BOOLEAN => CommandOK'
  BY <1>0, <1>1, NoCommandOK DEF CommandOK
<1>3. CASE \/ SetSubagent(command.item) \/ SwitchSubagent(command.item)
           \/ RemoveSubagent(command.item) \/ EnableSellerAlone \/ StartSubmission
  <2>1. ServerOK' /\ Agree' /\ fileOnly' = FALSE
    BY <1>0, <1>3, SetStep, SwitchStep, RemoveStep, EnableStep, StartStep
  <2> QED
    BY <1>2, <2>1, AgreeSuffices DEF SupervisorInv
<1>4. CASE /\ command.kind \in {"switch", "remove"} /\ command.item \notin Configured(config)
           /\ UNCHANGED <<config, configSaved, defined, children, turn, received, fileOnly,
                          turns, boots>>
  <2>1. ServerOK' /\ fileOnly' \in BOOLEAN
    BY <1>0, <1>4 DEF ServerOK, AnswerOK, CommandOK
  <2>2. FileOK'
    BY <1>0, <1>1, <1>4 DEF FileOK, AgreeBut
  <2> QED
    BY <1>2, <2>1, <2>2 DEF SupervisorInv
<1> QED
  BY <1>3, <1>4 DEF AskSupervisor

\* A command the supervisor does not answer.
LEMMA AloneStep ==
  ASSUME SupervisorInv, CommandUnanswered \/ CommandSubmits \/ CommandFinishes
  PROVE  SupervisorInv'
<1>0. ServerOK /\ CommandOK /\ FileOK
  BY DEF SupervisorInv
<1>1. CASE CommandUnanswered
  <2>1. ServerOK'
    BY <1>0, <1>1 DEF ServerOK, AnswerOK, CommandUnanswered
  <2>2. command' \in Command /\ Marks(command'.copy, received')
    BY <1>0, <1>1, NoCommandOK DEF CommandOK, CommandUnanswered, CommandDone, Command
  <2>3. CommandOK'
    BY <1>0, <1>1, <2>2 DEF CommandOK, CommandUnanswered
  <2>4. FileOK'
    BY <1>0, <1>1 DEF FileOK, CommandUnanswered
  <2> QED
    BY <2>1, <2>3, <2>4 DEF SupervisorInv
<1>2. CASE CommandSubmits
  <2>1. PICK a \in Unsubmitted(command.copy) :
          /\ received' = received \cup {<<a, command.copy.entries[a].def>>}
          /\ command' = [command EXCEPT !.copy.entries[a].marked = TRUE]
          /\ command.pc = "submit"
          /\ UNCHANGED <<config, configSaved, defined, children, turn, fileOnly, turns, boots,
                         commands>>
    BY <1>2 DEF CommandSubmits
  <2> DEFINE mine == command.copy
             entry == [mine.entries[a] EXCEPT !.marked = TRUE]
             marked == [mine EXCEPT !.entries = [mine.entries EXCEPT ![a] = entry]]
  <2>2. mine \in Config /\ a \in Offered /\ mine.entries[a] \in Entry
        /\ mine.entries[a].def # Absent
    BY <1>0, <2>1 DEF CommandOK, Command, Config, Unsubmitted, Configured
  <2>3. entry \in Entry /\ entry.def = mine.entries[a].def
    <3>1. entry \in Entry
      BY <2>2, Zenon DEF Entry
    <3> QED
      BY <2>2, <3>1 DEF Entry
  <2>4. command' = [command EXCEPT !.copy = marked]
    BY <1>0, <2>1, <2>2 DEF CommandOK, Command, Config, Entry
  <2>5. <<a, mine.entries[a].def>> \in Definitions
    BY <2>2, SupervisorConstants DEF Definitions, Entry, Absent
  <2> HIDE DEF entry
  <2>6. /\ marked \in Config
        /\ \A b \in Offered : marked.entries[b] = IF b = a THEN entry ELSE mine.entries[b]
    BY <2>2, <2>3 DEF Config
  <2> HIDE DEF marked
  <2>7. command' \in Command /\ command'.copy = marked
    BY <1>0, <2>4, <2>6 DEF CommandOK, Command
  <2>8. Marks(marked, received')
    BY <1>0, <2>1, <2>3, <2>6 DEF Marks, CommandOK
  <2>9. ServerOK'
    BY <1>0, <2>1, <2>5, MarksStay DEF ServerOK, AnswerOK
  <2>10. FileOK'
    BY <1>0, <2>1 DEF FileOK
  <2> QED
    BY <1>0, <2>1, <2>7, <2>8, <2>9, <2>10 DEF SupervisorInv, CommandOK
<1>3. CASE CommandFinishes
  <2>1. configSaved' \in Config /\ Marks(configSaved', received')
    BY <1>0, <1>3 DEF CommandFinishes, ServerOK, CommandOK, Command
  <2>2. ServerOK'
    BY <1>0, <1>3, <2>1 DEF ServerOK, AnswerOK, CommandFinishes
  <2>3. CommandOK'
    BY <1>0, <1>3, NoCommandOK DEF CommandOK, CommandFinishes, CommandDone
  <2>4. FileOK'
    BY <1>0, <1>3 DEF FileOK, CommandFinishes
  <2> QED
    BY <2>2, <2>3, <2>4 DEF SupervisorInv
<1> QED
  BY <1>1, <1>2, <1>3

\* So does a restart of the supervisor.
LEMMA BootStep == ASSUME SupervisorInv, BootSupervisor PROVE SupervisorInv'
<1>0. ServerOK /\ CommandOK /\ configSaved \in Config
  BY DEF SupervisorInv, ServerOK
<1> DEFINE ended == [n \in Spawns |-> IF n \in Started THEN Gone ELSE children[n]]
<1>1. /\ boots < MaxBoots /\ boots' = boots + 1 /\ config' = configSaved /\ turn' = NoTurn
      /\ \/ config'.enabled /\ Spawn(config', ended)
         \/ ~config'.enabled /\ children' = ended
      /\ fileOnly' = FALSE
      /\ UNCHANGED <<configSaved, defined, received, command, turns, commands>>
  BY DEF BootSupervisor
<1>2. PICK L \in 0..MaxSpawns : UpTo(children, L)
  BY <1>0 DEF ServerOK, ChildrenOK
<1>3. \A n \in Spawns : n \in Started <=> n <= L
  BY <1>2, LatestFact
<1>4. Gone \in Child /\ Gone.state = "gone"
  BY DEF Gone, Child
<1>5. ended \in [Spawns -> Child]
  BY <1>0, <1>4 DEF ServerOK, ChildrenOK
<1>6. \A n \in Spawns : IF n <= L THEN ended[n].state = "gone" ELSE ended[n].state = "unused"
  BY <1>2, <1>3, <1>4, SupervisorConstants DEF UpTo, Spawns
<1> HIDE DEF ended
<1>7. ChildrenOK(children', configSaved)
  <2>1. CASE configSaved.enabled
    BY <1>0, <1>1, <1>2, <1>5, <1>6, <2>1, SpawnOK
  <2>2. CASE ~configSaved.enabled
    <3>1. UpTo(ended, L) /\ Serves(ended, configSaved)
      BY <1>6, SupervisorConstants DEF UpTo, Serves, Spawns
    <3> QED
      BY <1>1, <1>5, <2>2, <3>1 DEF ChildrenOK
  <2> QED
    BY <2>1, <2>2
<1>8. NoTurn \in Turn /\ NoTurn.pc = "idle"
  BY DEF NoTurn, Turn
<1>9. boots' \in 0..MaxBoots
  BY <1>0, <1>1, SupervisorConstants DEF ServerOK
<1>10. ServerOK'
  BY <1>0, <1>1, <1>7, <1>8, <1>9 DEF ServerOK, AnswerOK
<1>11. CommandOK'
  BY <1>0, <1>1 DEF CommandOK
<1>12. Agree'
  BY <1>1 DEF Agree, AgreeBut
<1> QED
  BY <1>10, <1>11, <1>12, AgreeSuffices DEF SupervisorInv

\* What the supervisor, its process, the platform and a command do.
LEMMA OthersStep == ASSUME SupervisorInv, SupervisorStep PROVE SupervisorInv'
<1>0. ServerOK /\ CommandOK /\ FileOK
  BY DEF SupervisorInv
<1>1. CASE ConsoleRequest /\ UNCHANGED cliVars
  <2>1. ServerOK' /\ Agree' /\ fileOnly' = FALSE /\ UNCHANGED received
    BY <1>0, <1>1, SetStep, SwitchStep, RemoveStep, EnableStep, StartStep, FileSaveStep
    DEF ConsoleRequest
  <2>2. CommandOK'
    BY <1>0, <1>1, <2>1 DEF CommandOK, cliVars
  <2> QED
    BY <2>1, <2>2, AgreeSuffices DEF SupervisorInv
<1>2. CASE EnsureServices
  <2>1. ChildrenOK(children', config)
    BY <1>0, <1>2, EnsureOK DEF ServerOK, EnsureServices
  <2> QED
    BY <1>0, <1>2, <2>1
    DEF SupervisorInv, ServerOK, CommandOK, FileOK, AnswerOK, EnsureServices, cliVars
<1>3. CASE SubmitReview
  BY <1>3, SubmitStep
<1>4. CASE CommandLine
  BY <1>4, CommandLineStep
<1>5. CASE AskSupervisor
  BY <1>5, AskStep
<1>6. CASE CommandUnanswered \/ CommandSubmits \/ CommandFinishes
  BY <1>6, AloneStep
<1>7. ASSUME NEW n \in Spawns, ChildExits(n) PROVE SupervisorInv'
  <2>1. PICK L \in 0..MaxSpawns : UpTo(children, L)
    BY <1>0 DEF ServerOK, ChildrenOK
  <2>2. Gone \in Child /\ Gone.state = "gone"
    BY DEF Gone, Child
  <2>3. children' = [children EXCEPT ![n] = Gone] /\ children[n].state \in {"alive", "dying"}
    BY <1>7 DEF ChildExits
  <2>4. \A k \in Spawns : children'[k] = IF k = n THEN Gone ELSE children[k]
    BY <1>0, <2>3 DEF ServerOK, ChildrenOK
  <2>5. UpTo(children', L) /\ Serves(children', config)
    BY <1>0, <2>1, <2>2, <2>3, <2>4 DEF UpTo, Serves, ServerOK, ChildrenOK
  <2>6. ChildrenOK(children', config)
    BY <1>0, <2>2, <2>3, <2>5 DEF ServerOK, ChildrenOK
  <2> QED
    BY <1>0, <1>7, <2>6
    DEF SupervisorInv, ServerOK, CommandOK, FileOK, AnswerOK, ChildExits, cliVars
<1>8. CASE BootSupervisor
  BY <1>8, BootStep
<1> QED
  BY <1>1, <1>2, <1>3, <1>4, <1>5, <1>6, <1>7, <1>8 DEF SupervisorStep

\* What the platform has received stays received.
LEMMA ReceivedGrows == ASSUME SupervisorInv, SupervisorStep PROVE received \subseteq received'
<1>0. ServerOK
  BY DEF SupervisorInv
<1>1. CASE ConsoleRequest
  BY <1>0, <1>1, SetStep, SwitchStep, RemoveStep, EnableStep, StartStep, FileSaveStep
  DEF ConsoleRequest
<1>2. CASE AskSupervisor
  BY <1>2 DEF AskSupervisor, SetSubagent, SwitchSubagent, RemoveSubagent, EnableSellerAlone,
              EnabledWith, StartSubmission
<1>3. CASE CommandLine
  BY <1>3 DEF CommandLine, CommandAddSubagent, CommandSetSubagentEnabled,
              CommandRemoveSubagent, CommandEnableSeller, CommandSubmitReview, RunCommand
<1>4. CASE SubmitReview
  BY <1>4 DEF SubmitReview, PlatformReceives, TakeAnswer, FinishSubmission, PlatformRefuses,
              SubmissionFails
<1>5. CASE EnsureServices \/ CommandUnanswered \/ CommandSubmits \/ CommandFinishes
           \/ BootSupervisor \/ \E n \in Spawns : ChildExits(n)
  BY <1>5 DEF EnsureServices, CommandUnanswered, CommandSubmits, CommandFinishes,
              BootSupervisor, ChildExits
<1> QED
  BY <1>1, <1>2, <1>3, <1>4, <1>5 DEF SupervisorStep

\* The gateway writes what it read: the file differs from memory only if this is noted.
LEMMA GatewayStep ==
  ASSUME AllInv, GatewaySaves \/ BootGateway
  PROVE  AllInv'
<1>0. ServerOK /\ CommandOK /\ FileOK /\ gateway \in Config /\ Marks(gateway, received)
  BY DEF AllInv, SupervisorInv
<1>1. CASE GatewaySaves
  <2>1. ServerOK'
    BY <1>0, <1>1 DEF ServerOK, AnswerOK, ChildrenOK, Serves, GatewaySaves
  <2>2. fileOnly' \in BOOLEAN
    BY <1>0, <1>1, Zenon DEF CommandOK, GatewaySaves
  <2>3. CommandOK'
    BY <1>0, <1>1, <2>2 DEF CommandOK, GatewaySaves, cliVars
  <2>4. FileOK'
    BY <1>0, <1>1 DEF FileOK, GatewaySaves, cliVars
  <2> QED
    BY <1>0, <1>1, <2>1, <2>3, <2>4 DEF AllInv, SupervisorInv, GatewaySaves
<1>2. CASE BootGateway
  <2>1. boots' \in 0..MaxBoots
    BY <1>0, <1>2, SupervisorConstants DEF ServerOK, BootGateway
  <2>2. ServerOK' /\ gateway' \in Config /\ Marks(gateway', received')
    BY <1>0, <1>2, <2>1 DEF ServerOK, AnswerOK, ChildrenOK, Serves, BootGateway
  <2>3. CommandOK' /\ FileOK'
    BY <1>0, <1>2 DEF CommandOK, FileOK, BootGateway, cliVars
  <2> QED
    BY <2>2, <2>3 DEF AllInv, SupervisorInv
<1> QED
  BY <1>1, <1>2

\* Every step keeps the invariant.
LEMMA SupervisorInvStep == AllInv /\ [SupervisorNext]_supervisorVars => AllInv'
<1> SUFFICES ASSUME AllInv, [SupervisorNext]_supervisorVars PROVE AllInv'
  OBVIOUS
<1>0. SupervisorInv /\ gateway \in Config /\ Marks(gateway, received)
  BY DEF AllInv
<1>1. CASE SupervisorStep /\ UNCHANGED gateway
  <2>1. SupervisorInv' /\ received \subseteq received'
    BY <1>0, <1>1, OthersStep, ReceivedGrows
  <2> QED
    BY <1>0, <1>1, <2>1, MarksStay DEF AllInv
<1>2. CASE GatewaySaves \/ BootGateway
  BY <1>2, GatewayStep
<1>3. CASE UNCHANGED supervisorVars
  BY <1>3
  DEF AllInv, SupervisorInv, ServerOK, CommandOK, FileOK, AnswerOK, supervisorVars, cliVars
<1> QED
  BY <1>1, <1>2, <1>3 DEF SupervisorNext

\* It holds throughout.
LEMMA SupervisorInvariant == SupervisorSpec => []AllInv
  BY SupervisorInvInit, SupervisorInvStep, PTL DEF SupervisorSpec

-----------------------------------------------------------------------------
(* The results                                                             *)

\* The model of the supervisor keeps its types.
THEOREM SupervisorTypes == SupervisorSpec => []SupervisorTypeOK
  BY SupervisorInvariant, InvTypes, PTL

\* What is marked as submitted, in memory or on disk, the platform has received as it is
\* configured, whatever is set, removed and submitted meanwhile by the console or a command.
THEOREM MarksEarned == SupervisorSpec => []MarkedMeansReceived
<1>1. AllInv => MarkedMeansReceived
  BY DEF AllInv, SupervisorInv, ServerOK, Marks, MarkedMeansReceived
<1> QED
  BY SupervisorInvariant, <1>1, PTL

\* Over any number of reloads, exits, failing starts and restarts there is one seller process
\* at most, and it serves what is configured unless it was told to end.
THEOREM SellerFollows == SupervisorSpec => []SellerAsConfigured
<1>1. AllInv => SellerAsConfigured
  <2> SUFFICES ASSUME AllInv, SupervisorInv PROVE SellerAsConfigured
    BY DEF AllInv
  <2> DEFINE here == {n \in Spawns : children[n].state \in {"alive", "dying"}}
  <2>1. PICK L \in 0..MaxSpawns : UpTo(children, L)
    BY DEF SupervisorInv, ServerOK, ChildrenOK
  <2>2. here \subseteq {L}
    BY <2>1, SupervisorConstants DEF UpTo, Spawns
  <2> HIDE DEF here
  <2>3. Cardinality(here) <= 1
    <3>1. here = {} \/ here = {L}
      BY <2>2
    <3>2. Cardinality({}) = 0 /\ Cardinality({L}) = 1
      BY FS_EmptySet, FS_Singleton
    <3> QED
      BY <3>1, <3>2
  <2>4. \A n \in Spawns :
          children[n].state = "alive" => children[n].serves \subseteq Configured(config)
    BY DEF SupervisorInv, ServerOK, ChildrenOK, Serves
  <2> QED
    BY <2>3, <2>4 DEF SellerAsConfigured, here
<1> QED
  BY SupervisorInvariant, <1>1, PTL

\* However the supervisor, the commands and the gateway's old copy write over each other: when
\* no command is under way, memory and file have the same subagents and agree on whether there
\* is a seller, unless the gateway or a command alone has changed the file since the
\* supervisor last saved or started.
THEOREM FilesAgree == SupervisorSpec => []FileAgrees
<1>1. AllInv => FileAgrees
  BY DEF AllInv, SupervisorInv, FileOK, AgreeBut, FileAgrees, Configured
<1> QED
  BY SupervisorInvariant, <1>1, PTL

-----------------------------------------------------------------------------
(* bootstrap                                                               *)

Stored == call.kind = "submit" /\ call.answer = "stored"

\* Who waits for what: bootstrap for its call, or nobody for a call of the supervisor.
CallOfStep ==
  /\ step = "wait" => call.by # "none"
  /\ step \notin {"idle", "wait"} => call = NoCall
  /\ call.by = "none" => call = NoCall
  /\ call.by = "command" => step = "wait" /\ ~daemon.up
  /\ call.by = "supervisor" => daemon.up
  /\ step # "idle" => outcome = "none"
  /\ step = "idle" /\ call # NoCall => outcome = "killed"

\* What the supervisor has in memory is behind the files by at most the example.
MemoryAgrees ==
  daemon.up =>
    /\ daemon.state.key = files.key /\ daemon.state.sellerKey = files.sellerKey
    /\ \/ daemon.state.example = files.example
       \/ daemon.state.example = "none" /\ files.example = "local"

\* What is recorded as submitted the platform has, and the other way round.
OwnerKnown ==
  files.sellerKey \/ copy.sellerKey \/ files.example = "submitted" \/ Stored
    => platform.owner # NoAccount
OwnerRecorded ==
  ~unrecorded /\ ~Stored /\ platform.owner # NoAccount => files.example = "submitted"

\* What is submitted is not recorded yet, and is refused only when an answer was lost before.
Submitting ==
  /\ call.by # "none" /\ call.kind = "submit" =>
       files.example # "submitted" /\ files.key # NoAccount /\ copy.key # NoAccount
  /\ call.answer = "refused" => unrecorded
  /\ call.kind = "register" /\ call.answer = "stored" => platform.accounts # 0

\* A run has a key after its first step.
Keyed ==
  /\ step \notin {"idle", "register"} /\ ~(step = "wait" /\ call.kind = "register") =>
       files.key # NoAccount
  /\ step = "addAsk" => files.example = "local"

\* Undisturbed, a run has done what the steps behind it are for.
AfterSubmission == {"enable", "enableAsk", "start", "visible", "request"}
Progress ==
  ~disturbed =>
    /\ step \in {"add", "submit"} /\ daemon.up => daemon.state.example = files.example
    /\ step = "submit" => files.example # "none"
    /\ step \in AfterSubmission => files.example = "submitted"
    /\ step \in AfterSubmission \ {"enable"} => files.enabled
    /\ step \in {"start", "visible", "request"} /\ daemon.up => daemon.state.enabled
    /\ step \in {"visible", "request"} => daemon.up
    /\ step = "request" => platform.visible

BootstrapInv ==
  /\ BootstrapTypeOK /\ CallOfStep /\ MemoryAgrees /\ OwnerKnown /\ OwnerRecorded
  /\ Submitting /\ Keyed /\ Progress /\ RerunGetsThrough

-----------------------------------------------------------------------------
(* Types                                                                   *)

\* What the commands change in the files, and what the platform changes, stays of its type.
LEMMA LocalUpdates ==
  /\ NothingYet \in Local
  /\ \A m \in Local :
       /\ [m EXCEPT !.enabled = TRUE] \in Local
       /\ [m EXCEPT !.example = "local"] \in Local
       /\ Recorded(m) \in Local
       /\ \A k \in 0..MaxAccounts : [m EXCEPT !.key = k] \in Local
<1>0. MaxAccounts \in Nat
  BY BootstrapAssumption DEF MaxAccounts
<1>1. NothingYet \in Local
  BY <1>0 DEF Local, NothingYet, NoAccount
<1>2. ASSUME NEW m \in Local PROVE [m EXCEPT !.enabled = TRUE] \in Local
  BY Zenon DEF Local
<1>3. ASSUME NEW m \in Local PROVE [m EXCEPT !.example = "local"] \in Local
  BY DEF Local
<1>4. ASSUME NEW m \in Local PROVE Recorded(m) \in Local
  BY DEF Local, Recorded
<1>5. ASSUME NEW m \in Local, NEW k \in 0..MaxAccounts PROVE [m EXCEPT !.key = k] \in Local
  BY DEF Local
<1> QED
  BY <1>1, <1>2, <1>3, <1>4, <1>5

\* What the platform becomes when it takes or shows a submission.
LEMMA PlatformUpdates ==
  ASSUME NEW p \in Platform
  PROVE  /\ [p EXCEPT !.visible = TRUE] \in Platform
         /\ \A k \in 0..MaxAccounts :
              [p EXCEPT !.visible = FALSE, !.owner = IF @ = NoAccount THEN k ELSE @] \in Platform
<1>1. [p EXCEPT !.visible = TRUE] \in Platform
  BY DEF Platform
<1>2. ASSUME NEW k \in 0..MaxAccounts
      PROVE  [p EXCEPT !.visible = FALSE, !.owner = IF @ = NoAccount THEN k ELSE @] \in Platform
  BY DEF Platform
<1> QED
  BY <1>1, <1>2

\* Every step keeps the types.
LEMMA TypeStep == BootstrapTypeOK /\ [BootstrapNext]_bootstrapVars => BootstrapTypeOK'
<1> SUFFICES ASSUME BootstrapTypeOK, [BootstrapNext]_bootstrapVars PROVE BootstrapTypeOK'
  OBVIOUS
<1>0. MaxAccounts \in Nat /\ MaxFailures \in Nat /\ MaxAttempts \in Nat
  BY BootstrapAssumption DEF MaxAccounts
<1> USE <1>0 DEF BootstrapTypeOK
<1>1. CASE BeginBootstrap
  <2>1. attempts' \in 0..MaxAttempts
    BY <1>1 DEF BeginBootstrap
  <2> QED
    BY ONLY <2>1, <1>1, BootstrapTypeOK, Zenon DEF BootstrapTypeOK, BeginBootstrap
<1>2. CASE AuthRegister
  BY <1>2 DEF AuthRegister, Calling, Call
<1>3. CASE AddExample
  BY <1>3, LocalUpdates DEF AddExample
<1>4. CASE AskAddExample
  BY <1>4, LocalUpdates DEF AskAddExample, DaemonSaves, Daemon
<1>5. CASE SkipReview
  BY <1>5 DEF SkipReview
<1>6. CASE ReviewBySupervisor
  BY <1>6 DEF ReviewBySupervisor, Calling, Daemon, Call
<1>7. CASE ReviewByCommand
  BY <1>7 DEF ReviewByCommand, Calling, Call
<1>8. CASE EnableSellerInFiles
  BY <1>8, LocalUpdates DEF EnableSellerInFiles
<1>9. CASE AskEnableSeller
  BY <1>9, LocalUpdates DEF AskEnableSeller, DaemonSaves, Daemon
<1>10. CASE EnsureSupervisor
  BY <1>10 DEF EnsureSupervisor, Daemon
<1>11. CASE AwaitVisible
  BY <1>11, PlatformUpdates DEF AwaitVisible, Ends, Seen, Approvable
<1>12. CASE RequestExample
  BY <1>12 DEF RequestExample, Ends, Dispatches
<1>13. CASE PlatformRegisters
  BY <1>13 DEF PlatformRegisters, Platform, Call
<1>14. CASE PlatformTakesSubmission
  <2>1. Submitter.key \in 0..MaxAccounts
    BY DEF Submitter, Daemon, Local
  <2>2. platform' \in Platform
    BY <1>14, <2>1, PlatformUpdates DEF PlatformTakesSubmission
  <2>3. call' \in Call
    BY <1>14 DEF PlatformTakesSubmission, Call
  <2> QED
    BY <1>14, <2>2, <2>3 DEF PlatformTakesSubmission
<1>15. CASE TakeAccount
  BY <1>15, LocalUpdates DEF TakeAccount, DaemonSaves, Resume, NoCall, Daemon, Platform, Call
<1>16. CASE KeepAccount
  <2>1. platform.accounts \in 0..MaxAccounts /\ files.key \in 0..MaxAccounts
    BY DEF Platform, Local
  <2>2. files' \in Local
    BY <1>16, <2>1, LocalUpdates DEF KeepAccount
  <2> QED
    BY <1>16, <2>2 DEF KeepAccount, Resume, NoCall, Call
<1>17. CASE RecordSubmission
  BY <1>17, LocalUpdates DEF RecordSubmission, Recorded, DaemonSaves, Resume, NoCall, Daemon, Call
<1>18. CASE SubmissionRefused
  BY <1>18 DEF SubmissionRefused, Ends, NoCall, Call
<1>19. CASE CallFails
  BY <1>19 DEF CallFails, Failure, CallLost, Ends, NoCall, Call
<1>20. CASE KillBootstrap
  <2>1. failures' \in 0..MaxFailures
    BY <1>20 DEF KillBootstrap, Failure
  <2>2. disturbed' \in BOOLEAN /\ unrecorded' \in BOOLEAN
    BY <1>20, Zenon DEF KillBootstrap, Failure, CallLost
  <2>3. call' \in Call
    BY <1>20 DEF KillBootstrap, NoCall, Call
  <2> QED
    BY <1>20, <2>1, <2>2, <2>3 DEF KillBootstrap, Ends
<1>21. CASE KillSupervisor
  BY <1>21, LocalUpdates
  DEF KillSupervisor, Failure, CallLost, Calling, NothingYet, NoCall, Daemon, Call
<1>22. CASE StartSupervisor
  BY <1>22 DEF StartSupervisor, Daemon
<1>23. CASE OperatorApproves
  BY <1>23, PlatformUpdates DEF OperatorApproves
<1>24. CASE UNCHANGED bootstrapVars
  BY <1>24 DEF bootstrapVars
<1> QED
  BY <1>1, <1>2, <1>3, <1>4, <1>5, <1>6, <1>7, <1>8, <1>9, <1>10, <1>11, <1>12, <1>13,
     <1>14, <1>15, <1>16, <1>17, <1>18, <1>19, <1>20, <1>21, <1>22, <1>23, <1>24
  DEF BootstrapNext, CommandStep, CallStep

-----------------------------------------------------------------------------
(* The inductive invariant                                                 *)

\* The invariant holds at first.
LEMMA BootstrapInvInit == BootstrapInit => BootstrapInv
<1> SUFFICES ASSUME BootstrapInit PROVE BootstrapInv
  OBVIOUS
<1>1. BootstrapTypeOK
  <2>1. NothingYet \in Local
    BY LocalUpdates
  <2>2. daemon \in Daemon /\ call \in Call
    BY <2>1 DEF BootstrapInit, Daemon, Call, NoCall
  <2>3. platform \in Platform
    BY BootstrapAssumption DEF BootstrapInit, Platform, NoAccount, MaxAccounts
  <2>4. attempts \in 0..MaxAttempts /\ failures \in 0..MaxFailures
    BY BootstrapAssumption DEF BootstrapInit
  <2> QED
    BY <2>1, <2>2, <2>3, <2>4 DEF BootstrapInit, BootstrapTypeOK
<1>2. CallOfStep /\ MemoryAgrees /\ OwnerKnown /\ OwnerRecorded
  BY DEF BootstrapInit, CallOfStep, MemoryAgrees, OwnerKnown, OwnerRecorded, Stored, NoCall,
         NothingYet
<1>3. Submitting /\ Keyed /\ Progress /\ RerunGetsThrough
  BY DEF BootstrapInit, Submitting, Keyed, Progress, AfterSubmission, RerunGetsThrough, NoCall
<1> QED
  BY <1>1, <1>2, <1>3 DEF BootstrapInv

\* Every step keeps the invariant.
LEMMA BootstrapInvStep == BootstrapInv /\ BootstrapTypeOK' /\ BootstrapNext => BootstrapInv'
<1> SUFFICES ASSUME BootstrapInv, BootstrapTypeOK', BootstrapNext PROVE BootstrapInv'
  OBVIOUS
<1> USE DEF BootstrapInv, BootstrapTypeOK, Local, Daemon, Platform, Call, NoCall, NoAccount,
            CallOfStep, MemoryAgrees, OwnerKnown, OwnerRecorded, Stored, Submitting, Keyed,
            Progress, AfterSubmission, RerunGetsThrough
<1>1. CASE BeginBootstrap
  BY <1>1 DEF BeginBootstrap
<1>2. CASE AuthRegister
  BY <1>2 DEF AuthRegister, Calling
<1>3. CASE AddExample
  BY <1>3 DEF AddExample
<1>4. CASE AskAddExample
  BY <1>4 DEF AskAddExample, DaemonSaves
<1>5. CASE SkipReview
  BY <1>5 DEF SkipReview, SubmittedAlready
<1>6. CASE ReviewBySupervisor
  BY <1>6 DEF ReviewBySupervisor, SubmittedAlready, Calling
<1>7. CASE ReviewByCommand
  BY <1>7 DEF ReviewByCommand, SubmittedAlready, Calling
<1>8. CASE EnableSellerInFiles
  BY <1>8 DEF EnableSellerInFiles
<1>9. CASE AskEnableSeller
  BY <1>9 DEF AskEnableSeller, DaemonSaves
<1>10. CASE EnsureSupervisor
  BY <1>10 DEF EnsureSupervisor
<1>11. CASE AwaitVisible
  BY <1>11 DEF AwaitVisible, Ends, Seen, Approvable
<1>12. CASE RequestExample
  BY <1>12 DEF RequestExample, Ends, Dispatches
<1>13. CASE PlatformRegisters
  BY <1>13 DEF PlatformRegisters
<1>14. CASE PlatformTakesSubmission
  <2> DEFINE allowed == MaySubmitWith(Submitter, call.by)
  <2>1. CASE allowed
    \* Whoever submits has the key of the account that ran the first step.
    <3>1. Submitter.key # NoAccount
      BY <1>14 DEF PlatformTakesSubmission, Submitter
    <3>2. platform'.owner # NoAccount /\ ~platform'.visible /\ Stored'
      BY <1>14, <2>1, <3>1 DEF PlatformTakesSubmission
    <3> QED
      BY <1>14, <3>2 DEF PlatformTakesSubmission
  <2>2. CASE ~allowed
    \* Refused because the seller is another account's, though nothing here is submitted.
    <3>1. unrecorded
      BY <1>14, <2>2 DEF PlatformTakesSubmission, MaySubmitWith, Submitter
    <3> QED
      BY <1>14, <2>2, <3>1 DEF PlatformTakesSubmission
  <2> QED
    BY <2>1, <2>2
<1>15. CASE TakeAccount
  BY <1>15 DEF TakeAccount, DaemonSaves, Resume
<1>16. CASE KeepAccount
  BY <1>16 DEF KeepAccount, Resume
<1>17. CASE RecordSubmission
  <2>1. CASE call.by = "supervisor"
    <3>1. files' = Recorded(daemon.state) /\ daemon' = [daemon EXCEPT !.state = files']
      BY <1>17, <2>1 DEF RecordSubmission, DaemonSaves
    <3>2. files'.example = "submitted" /\ files'.sellerKey /\ files'.key = daemon.state.key
      BY <3>1 DEF Recorded
    <3> QED
      BY <1>17, <2>1, <3>1, <3>2 DEF RecordSubmission, Resume
  <2>2. CASE call.by = "command"
    <3>1. files' = Recorded(copy) /\ UNCHANGED daemon
      BY <1>17, <2>2 DEF RecordSubmission
    <3>2. files'.example = "submitted" /\ files'.sellerKey /\ files'.key = copy.key
      BY <3>1 DEF Recorded
    <3> QED
      BY <1>17, <2>2, <3>1, <3>2 DEF RecordSubmission, Resume
  <2> QED
    BY <1>17, <2>1, <2>2 DEF RecordSubmission
<1>18. CASE SubmissionRefused
  BY <1>18 DEF SubmissionRefused, Ends
<1>19. CASE CallFails
  BY <1>19 DEF CallFails, Failure, CallLost, Ends
<1>20. CASE KillBootstrap
  BY <1>20 DEF KillBootstrap, Failure, CallLost, Ends
<1>21. CASE KillSupervisor
  BY <1>21 DEF KillSupervisor, Failure, CallLost, Calling, NothingYet
<1>22. CASE StartSupervisor
  BY <1>22 DEF StartSupervisor
<1>23. CASE OperatorApproves
  BY <1>23 DEF OperatorApproves
<1> QED
  BY <1>1, <1>2, <1>3, <1>4, <1>5, <1>6, <1>7, <1>8, <1>9, <1>10, <1>11, <1>12, <1>13,
     <1>14, <1>15, <1>16, <1>17, <1>18, <1>19, <1>20, <1>21, <1>22, <1>23
  DEF BootstrapNext, CommandStep, CallStep

\* A step of others keeps it.
LEMMA InvStutter == BootstrapInv /\ UNCHANGED bootstrapVars => BootstrapInv'
<1> SUFFICES ASSUME BootstrapInv, UNCHANGED bootstrapVars PROVE BootstrapInv'
  OBVIOUS
<1> USE DEF bootstrapVars
<1>1. BootstrapTypeOK'
  BY TypeStep DEF BootstrapInv
<1>2. CallOfStep' /\ MemoryAgrees' /\ OwnerKnown' /\ OwnerRecorded'
  BY DEF BootstrapInv, CallOfStep, MemoryAgrees, OwnerKnown, OwnerRecorded, Stored
<1>3. Submitting' /\ Keyed' /\ Progress' /\ RerunGetsThrough'
  BY DEF BootstrapInv, Submitting, Keyed, Progress, RerunGetsThrough
<1> QED
  BY <1>1, <1>2, <1>3 DEF BootstrapInv

\* It holds throughout.
LEMMA BootstrapInvariant == BootstrapSpec => []BootstrapInv
<1>1. BootstrapInv /\ [BootstrapNext]_bootstrapVars => BootstrapInv'
  BY TypeStep, BootstrapInvStep, InvStutter DEF BootstrapInv
<1> QED
  BY BootstrapInvInit, <1>1, PTL DEF BootstrapSpec

-----------------------------------------------------------------------------
(* The results                                                             *)

\* The model of bootstrap keeps its types, for every number of runs and failures.
THEOREM BootstrapTypes == BootstrapSpec => []BootstrapTypeOK
<1>1. BootstrapInv => BootstrapTypeOK
  BY DEF BootstrapInv
<1> QED
  BY BootstrapInvariant, <1>1, PTL

\* However often "delexec-ops bootstrap" has been killed, the supervisor has crashed and calls
\* have failed before: a run in which nothing fails gets through, unless the platform once
\* stored a submission whose answer was lost.
THEOREM BootstrapGetsThrough == BootstrapSpec => []RerunGetsThrough
<1>1. BootstrapInv => RerunGetsThrough
  BY DEF BootstrapInv
<1> QED
  BY BootstrapInvariant, <1>1, PTL
=============================================================================
