---------------------------- MODULE OpsSecrets ----------------------------
(***************************************************************************)
(* The operator's secrets on one machine: the encrypted store              *)
(* secrets.enc.json and the file .env.local it replaces                    *)
(* (packages/runtime-utils, apps/ops/src/config.js), and the two processes *)
(* that unlock it for their sessions: the supervisor                       *)
(* (apps/ops/src/supervisor.js) and the console gateway                    *)
(* (apps/platform-console-gateway/src/server.js).                          *)
(*                                                                         *)
(* Each process has its own copy of .env.local, read when it starts, and   *)
(* its own passphrase and secrets, kept while it has sessions.  A process  *)
(* changes the store in one synchronous piece: read, derive a key and      *)
(* encrypt, write, read again.  The other process may run in between.      *)
(*                                                                         *)
(* A secret stands for its value's number: a later value has a higher one. *)
(* The supervisor writes "buyer" (the seller's and the transport's keys    *)
(* are written alike), the gateway "admin".  Not modelled: a crash in the  *)
(* middle of writeFileSync.                                                *)
(***************************************************************************)
EXTENDS Integers

CONSTANTS
  Passphrases,
  MaxValues,     \* bound: values ever given to a secret, one of them by hand at first
  MaxSessions,   \* bound: sessions of a process at a time
  MaxReboots     \* bound: restarts of the processes

ASSUME SecretsAssumption ==
  /\ "locked" \notin Passphrases
  /\ {MaxValues, MaxSessions} \subseteq Nat \ {0} /\ MaxReboots \in Nat

Processes == {"supervisor", "gateway"}
Names == {"buyer", "admin"}
WrittenBy(p) == IF p = "supervisor" THEN "buyer" ELSE "admin"
Locked == "locked"

VARIABLES
  store,      \* secrets.enc.json
  env,        \* the secrets in .env.local
  process,    \* what each process has in memory
  job,        \* the change of the store each process is making
  promised,   \* the value of each secret that was last answered with a 2xx
  words,      \* passphrases that may open the store: of these the last one that was answered
  contested,  \* both have changed the files at a time
  outdated,   \* the secrets .env.local had in another value than the copy the store was set up from
  values, reboots

secretVars == <<store, env, process, job, promised, words, contested, outdated, values, reboots>>

-----------------------------------------------------------------------------

Values == [Names -> 0..MaxValues]
Nothing == [n \in Names |-> 0]
Store == [exists : BOOLEAN, pass : Passphrases \cup {Locked}, values : Values]

\* copy: state.env; pass, cache: runtime.passphrase, runtime.unlockedSecrets.
\* admitted: a request that was let in may still wait for its body.
Process ==
  [copy : Values, pass : Passphrases \cup {Locked}, cache : Values,
   sessions : 0..MaxSessions, admitted : BOOLEAN]

Kinds == {"setup", "put", "rotate"}
Job == [pc : {"idle", "write", "reread"}, kind : Kinds, next : Store]
NoStore == [exists |-> FALSE, pass |-> Locked, values |-> Nothing]
IdleJob == [pc |-> "idle", kind |-> "put", next |-> NoStore]

Free(p) == job[p].pc = "idle"
Busy(p) == \E q \in Processes \ {p} : job[q].pc = "write"

\* readResolvedOpsSecrets, after a fresh start and a login.
Recovered(n) == IF store.values[n] # 0 THEN store.values[n] ELSE env[n]

\* secretStoreExists and unlockSecretStore have been passed; the file is written next.
BeginJob(p, kind, pass, new) ==
  /\ job' = [job EXCEPT ![p] =
       [pc |-> "write", kind |-> kind, next |-> [exists |-> TRUE, pass |-> pass, values |-> new]]]
  /\ contested' = (contested \/ Busy(p))

-----------------------------------------------------------------------------
(* Sessions                                                                *)

\* pruneExpiredSessions
Pruned(x) == IF x.sessions = 0 THEN [x EXCEPT !.pass = Locked, !.cache = Nothing] ELSE x

\* createAuthenticatedSession
Opened(x, pass, secrets) ==
  [x EXCEPT !.pass = pass, !.cache = secrets, !.sessions = @ + 1, !.admitted = TRUE]

Login(p) ==
  /\ Free(p) /\ store.exists
  /\ process[p].sessions < MaxSessions
  /\ process' = [process EXCEPT ![p] = Opened(Pruned(@), store.pass, store.values)]
  /\ UNCHANGED <<store, env, job, promised, words, contested, outdated, values, reboots>>

\* One session, or all of them.
Logout(p) ==
  /\ Free(p)
  /\ \E left \in 0..(process[p].sessions - 1) :
       process' = [process EXCEPT ![p] = Pruned([@ EXCEPT !.sessions = left])]
  /\ UNCHANGED <<store, env, job, promised, words, contested, outdated, values, reboots>>

\* A session is older than SESSION_TTL_MS; what it unlocked stays until a request looks.
Expire(p) ==
  /\ process[p].sessions > 0
  /\ process' = [process EXCEPT ![p].sessions = @ - 1]
  /\ UNCHANGED <<store, env, job, promised, words, contested, outdated, values, reboots>>

\* getCurrentSession, getAuthState: every request but the few that need no session looks.
Look(p) ==
  /\ Free(p) /\ process[p] # Pruned(process[p])
  /\ process' = [process EXCEPT ![p] = Pruned(@)]
  /\ UNCHANGED <<store, env, job, promised, words, contested, outdated, values, reboots>>

-----------------------------------------------------------------------------
(* Changes of the store                                                    *)

\* auth/session/setup, session/setup: the store takes over the process's copy of the secrets.
SetUp(p, w) ==
  /\ Free(p) /\ ~store.exists
  /\ job' = [job EXCEPT ![p] =
       [pc |-> "write", kind |-> "setup",
        next |-> [exists |-> TRUE, pass |-> w, values |-> process[p].copy]]]
  /\ contested' = (contested \/ Busy(p))
  /\ outdated' = {n \in Names : process[p].copy[n] # env[n]}
  /\ UNCHANGED <<store, env, process, promised, words, values, reboots>>

\* writeSecretValues merges into what the file holds.
MergedIntoCache(p, n) == [process[p].cache EXCEPT ![n] = values + 1]
Merged(p, n) == [store.values EXCEPT ![n] = values + 1]

\* The gateway saves its state before, which clears .env.local of what the store has.
ClearsEarly(p) == p = "gateway"

\* auth/register-buyer, credentials/platform-admin.  With a passphrase that is gone, or that
\* the other process has changed, the store does not open, and the handler answers a 500.
PutSecret(p) ==
  /\ Free(p) /\ process[p].admitted /\ store.exists
  /\ process[p].pass = store.pass /\ values < MaxValues
  /\ BeginJob(p, "put", store.pass, Merged(p, WrittenBy(p)))
  /\ values' = values + 1
  /\ env' = IF ClearsEarly(p) THEN Nothing ELSE env
  /\ process' = IF ClearsEarly(p) THEN [process EXCEPT ![p].copy = Nothing] ELSE process
  /\ UNCHANGED <<store, promised, words, outdated, reboots>>

\* change-passphrase: the supervisor asks for no session, but for the passphrase if it has none.
MayRotate(p) ==
  \/ process[p].pass = store.pass /\ process[p].admitted
  \/ p = "supervisor" /\ process[p].pass \in {Locked, store.pass}

Rotate(p, w) ==
  /\ Free(p) /\ store.exists /\ MayRotate(p)
  /\ BeginJob(p, "rotate", w, store.values)
  /\ UNCHANGED <<store, env, process, promised, words, outdated, values, reboots>>

\* writeFileSync
WriteStore(p) ==
  /\ job[p].pc = "write"
  /\ store' = job[p].next
  /\ words' = words \cup {store'.pass}
  /\ job' = [job EXCEPT ![p].pc = "reread"]
  /\ UNCHANGED <<env, process, promised, contested, outdated, values, reboots>>

\* unlockOpsSecrets after the write: it fails if the passphrase is another by now.
Reopened(p) == store.pass = job[p].next.pass

Scrubbed(x) == [x EXCEPT !.copy = Nothing]

AnswerSetUp(p) ==
  /\ process' = [process EXCEPT
       ![p] = Scrubbed(Opened([@ EXCEPT !.sessions = 0], store.pass, store.values))]
  /\ env' = Nothing
  /\ promised' = [n \in Names |-> IF job[p].next.values[n] > promised[n]
                                  THEN job[p].next.values[n] ELSE promised[n]]
  /\ words' = {store.pass}
  /\ UNCHANGED outdated

AnswerPut(p) ==
  /\ process' = [process EXCEPT ![p] = Scrubbed([@ EXCEPT !.cache = store.values])]
  /\ env' = Nothing
  /\ promised' = [promised EXCEPT ![WrittenBy(p)] = job[p].next.values[WrittenBy(p)]]
  /\ outdated' = outdated \ {WrittenBy(p)}
  /\ UNCHANGED words

AnswerRotate(p) ==
  /\ process' = [process EXCEPT ![p].pass = store.pass, ![p].cache = store.values]
  /\ words' = {store.pass}
  /\ UNCHANGED <<env, promised, outdated>>

FinishJob(p) ==
  /\ job[p].pc = "reread"
  /\ \/ /\ Reopened(p)
        /\ \/ job[p].kind = "setup" /\ AnswerSetUp(p)
           \/ job[p].kind = "put" /\ AnswerPut(p)
           \/ job[p].kind = "rotate" /\ AnswerRotate(p)
     \/ ~Reopened(p) /\ UNCHANGED <<process, env, promised, words, outdated>>
  /\ job' = [job EXCEPT ![p] = IdleJob]
  /\ UNCHANGED <<store, contested, values, reboots>>

\* Without a store the supervisor keeps the buyer's key in .env.local.
RegisterBuyerInEnv ==
  /\ Free("supervisor") /\ ~store.exists /\ values < MaxValues
  /\ values' = values + 1
  /\ process' = [process EXCEPT !["supervisor"].copy["buyer"] = values + 1]
  /\ env' = process'["supervisor"].copy
  /\ promised' = [promised EXCEPT !["buyer"] = values + 1]
  /\ contested' = (contested \/ Busy("supervisor"))
  /\ outdated' = outdated \ {"buyer"}
  /\ UNCHANGED <<store, job, words, reboots>>

\* saveOpsState, with every change of the configuration: the secrets of the process's copy go to
\* .env.local, or, once there is a store, neither keeps them.
SaveConfig(p) ==
  /\ Free(p) /\ (p = "gateway" => store.exists)
  /\ env' = IF store.exists THEN Nothing ELSE process[p].copy
  /\ process' = [process EXCEPT ![p].copy = env']
  /\ UNCHANGED <<store, job, promised, words, contested, outdated, values, reboots>>

-----------------------------------------------------------------------------

\* ensureOpsState reads the file; without a store the supervisor lets every request in.
Booted(p) ==
  [copy |-> env, pass |-> Locked, cache |-> Nothing, sessions |-> 0,
   admitted |-> p = "supervisor" /\ ~store.exists]

RebootProcess(p) ==
  /\ reboots < MaxReboots /\ reboots' = reboots + 1
  /\ process' = [process EXCEPT ![p] = Booted(p)]
  /\ job' = [job EXCEPT ![p] = IdleJob]
  /\ UNCHANGED <<store, env, promised, words, contested, outdated, values>>

\* An operator may have put an admin key into .env.local by hand.
SecretsInit ==
  /\ values \in 0..1
  /\ env = [Nothing EXCEPT !["admin"] = values]
  /\ store = NoStore
  /\ process = [p \in Processes |-> Booted(p)]
  /\ job = [p \in Processes |-> IdleJob]
  /\ promised = env /\ words = {}
  /\ contested = FALSE /\ outdated = {} /\ reboots = 0

SecretsNext ==
  \/ \E p \in Processes :
       \/ Login(p) \/ Logout(p) \/ Expire(p) \/ Look(p)
       \/ PutSecret(p) \/ WriteStore(p) \/ FinishJob(p)
       \/ SaveConfig(p) \/ RebootProcess(p)
       \/ \E w \in Passphrases : SetUp(p, w) \/ Rotate(p, w)
  \/ RegisterBuyerInEnv

SecretsSpec == SecretsInit /\ [][SecretsNext]_secretVars

-----------------------------------------------------------------------------
(* Properties                                                              *)

SecretsTypeOK ==
  /\ store \in Store /\ env \in Values
  /\ process \in [Processes -> Process] /\ job \in [Processes -> Job]
  /\ promised \in Values /\ words \subseteq Passphrases
  /\ contested \in BOOLEAN /\ outdated \subseteq Names
  /\ values \in 0..MaxValues /\ reboots \in 0..MaxReboots

\* The passphrase that was last confirmed opens the store, and every secret whose saving was
\* confirmed is in it, or in .env.local, in that value or a later one, although each process
\* still has the passphrase and secrets it knew before the other changed them; over sessions,
\* setups, changes of the passphrase and restarts of both processes.
\* Two things are left out, and in both the code does lose what it confirmed.  The two
\* processes change the store at the same moment.  And, one after the other, without a store:
\* the supervisor saves a key in .env.local, then a gateway that had read the file before
\* sets the store up from its own copy, which does not have that key, and clears .env.local of
\* it; that secret is left out until it is saved again.
\* (writeSecretValues, rotateSecretStorePassphrase, initializeSecretStore and
\* scrubLegacySecrets, which the two servers call.)
SecretsKept ==
  ~contested =>
    /\ store.exists => store.pass \in words
    /\ \A n \in Names \ outdated : Recovered(n) >= promised[n]
=============================================================================
