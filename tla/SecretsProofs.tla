--------------------------- MODULE SecretsProofs ---------------------------
(***************************************************************************)
(* Theorems about OpsSecrets: what two processes do to one secret store,   *)
(* for every set of passphrases and every number of values, sessions and   *)
(* restarts.                                                               *)
(***************************************************************************)
EXTENDS OpsSecrets, TLAPS

-----------------------------------------------------------------------------
(* Types                                                                   *)

\* What a process becomes when its sessions end, or when it keeps no copy of the secrets.
LEMMA ProcessType ==
  ASSUME NEW x \in Process
  PROVE  /\ Pruned(x) \in Process /\ Scrubbed(x) \in Process
         /\ Pruned(x).sessions = x.sessions /\ Pruned(x).copy = x.copy
         /\ \A secrets \in Values : [x EXCEPT !.cache = secrets] \in Process
         /\ \A n \in 0..MaxSessions : [x EXCEPT !.sessions = n] \in Process
<1>1. Nothing \in Values
  BY SecretsAssumption DEF Nothing, Values
<1>2. Pruned(x) \in Process /\ Scrubbed(x) \in Process
  BY <1>1 DEF Pruned, Scrubbed, Process, Locked
<1>3. Pruned(x).sessions = x.sessions /\ Pruned(x).copy = x.copy
  BY DEF Pruned, Process
<1>4. \A secrets \in Values : [x EXCEPT !.cache = secrets] \in Process
  BY DEF Process
<1>5. \A n \in 0..MaxSessions : [x EXCEPT !.sessions = n] \in Process
  BY DEF Process
<1> QED  BY <1>2, <1>3, <1>4, <1>5

\* What it becomes when a session opens.
LEMMA OpenedType ==
  ASSUME NEW x \in Process, x.sessions < MaxSessions,
         NEW pass \in Passphrases, NEW secrets \in Values
  PROVE  /\ Opened(x, pass, secrets) \in Process
         /\ Opened(x, pass, secrets).copy = x.copy
<1>1. x.sessions \in Nat /\ MaxSessions \in Nat
  BY SecretsAssumption DEF Process
<1>2. x.sessions + 1 \in 0..MaxSessions
  BY <1>1
<1> QED  BY <1>2 DEF Opened, Process

-----------------------------------------------------------------------------
(* The inductive invariant                                                 *)

\* A store that exists opens with a passphrase that was given, and a job's next store will.
PassesOK ==
  /\ store.exists => store.pass \in words
  /\ \A p \in Processes : ~Free(p) => job[p].next.exists /\ job[p].next.pass \in Passphrases
  /\ \A p \in Processes : job[p].pc = "reread" => store.exists

\* While the two have not changed the files at a time: a store has every confirmed value but those
\* it was set up without; before there is one, .env.local has them all, and the supervisor's copy
\* is what it says.
Confirmed ==
  IF store.exists
    THEN \A n \in Names \ outdated : store.values[n] >= promised[n]
    ELSE /\ store.values = Nothing
         /\ process["supervisor"].copy = env
         /\ \A n \in Names : env[n] >= promised[n]

\* The job of p is up to date: one that is to be written takes nothing back, and nobody else
\* writes; one that was written is in the store, in these values or later ones.
UpToDate(p) ==
  /\ job[p].pc = "write" =>
       /\ ~Busy(p)
       /\ IF job[p].kind = "setup"
            THEN ~store.exists /\ \A n \in Names \ outdated : job[p].next.values[n] = env[n]
            ELSE store.exists /\ \A n \in Names : job[p].next.values[n] >= store.values[n]
  /\ job[p].pc = "reread" => \A n \in Names : store.values[n] >= job[p].next.values[n]

\* These secrets have no value above the last that was given.
Given(secrets, last) == \A n \in Names : secrets[n] <= last

\* No value is found anywhere that was not given.
AllGiven ==
  /\ Given(store.values, values) /\ Given(env, values)
  /\ \A p \in Processes : Given(process[p].copy, values) /\ Given(job[p].next.values, values)

\* The inductive invariant.
SecretsInv ==
  /\ SecretsTypeOK /\ PassesOK /\ AllGiven
  /\ ~contested => Confirmed /\ \A p \in Processes : UpToDate(p)

\* There are two processes, and each writes a secret of its own.
LEMMA ProcessFacts ==
  /\ "supervisor" \in Processes /\ "gateway" \in Processes /\ "supervisor" # "gateway"
  /\ \A p \in Processes : WrittenBy(p) \in Names
  /\ Nothing \in Values /\ NoStore \in Store /\ IdleJob \in Job
  /\ IdleJob.pc = "idle" /\ Locked \notin Passphrases
<1>1. Nothing \in Values
  BY SecretsAssumption DEF Nothing, Values
<1>2. NoStore \in Store
  BY <1>1 DEF NoStore, Store, Locked
<1> QED  BY <1>1, <1>2, SecretsAssumption
         DEF Processes, Names, WrittenBy, IdleJob, Job, Kinds, Locked

\* Nothing has no value, and what was given stays given.
LEMMA GivenFacts ==
  /\ \A last \in Nat : Given(Nothing, last)
  /\ \A secrets \in Values : \A last, later \in Nat :
       Given(secrets, last) /\ last <= later => Given(secrets, later)
  /\ \A secrets \in Values : \A last \in Nat : \A n \in Names :
       Given(secrets, last) => Given([secrets EXCEPT ![n] = last + 1], last + 1)
<1>1. \A secrets \in Values : \A n \in Names : secrets[n] \in Nat
  BY SecretsAssumption DEF Values
<1>2. \A last \in Nat : Given(Nothing, last)
  BY DEF Given, Nothing
<1>3. \A secrets \in Values : \A last, later \in Nat :
        Given(secrets, last) /\ last <= later => Given(secrets, later)
  BY <1>1 DEF Given
<1>4. ASSUME NEW secrets \in Values, NEW last \in Nat, NEW n \in Names, Given(secrets, last)
      PROVE  Given([secrets EXCEPT ![n] = last + 1], last + 1)
  <2>1. ASSUME NEW m \in Names PROVE [secrets EXCEPT ![n] = last + 1][m] <= last + 1
    <3>1. CASE m = n
      BY <3>1 DEF Values
    <3>2. CASE m # n
      <4>1. [secrets EXCEPT ![n] = last + 1][m] = secrets[m]
        BY <3>2 DEF Values
      <4> QED  BY <1>1, <1>4, <4>1 DEF Given
    <3> QED  BY <3>1, <3>2
  <2> QED  BY <2>1 DEF Given
<1> QED  BY <1>2, <1>3, <1>4

\* The invariant gives the property.
LEMMA InvKeeps == SecretsInv => SecretsKept
<1> SUFFICES ASSUME SecretsInv, ~contested PROVE
      /\ store.exists => store.pass \in words
      /\ \A n \in Names \ outdated : Recovered(n) >= promised[n]
  BY DEF SecretsKept
<1>1. \A n \in Names : promised[n] \in Nat /\ env[n] \in Nat /\ store.values[n] \in Nat
  BY SecretsAssumption DEF SecretsInv, SecretsTypeOK, Values, Store
<1>2. CASE store.exists
  <2>1. \A n \in Names \ outdated : store.values[n] = 0 => env[n] >= promised[n]
    BY <1>1, <1>2 DEF SecretsInv, Confirmed
  <2> QED  BY <1>2, <2>1 DEF SecretsInv, Confirmed, PassesOK, Recovered
<1>3. CASE ~store.exists
  <2>1. \A n \in Names : store.values[n] = 0
    BY <1>3 DEF SecretsInv, Confirmed, Nothing
  <2> QED  BY <1>3, <2>1 DEF SecretsInv, Confirmed, Recovered
<1> QED  BY <1>2, <1>3

-----------------------------------------------------------------------------
(* The steps                                                               *)

\* Sessions, restarts and the rereading of sessions touch no file.
LEMMA SessionsStep ==
  ASSUME SecretsInv, NEW p \in Processes, NEW x \in Process, process' = [process EXCEPT ![p] = x],
         x.copy = process[p].copy \/ x.copy = env,
         job' = job \/ job' = [job EXCEPT ![p] = IdleJob],
         reboots' \in 0..MaxReboots,
         UNCHANGED <<store, env, promised, words, contested, outdated, values>>
  PROVE  SecretsInv'
<1>1. job' \in [Processes -> Job] /\ process' \in [Processes -> Process]
  BY ProcessFacts DEF SecretsInv, SecretsTypeOK
<1>2. SecretsTypeOK'
  BY <1>1 DEF SecretsInv, SecretsTypeOK
<1>3. \A q \in Processes : job'[q] = job[q] \/ job'[q].pc = "idle"
  BY ProcessFacts DEF SecretsInv, SecretsTypeOK
<1>4. PassesOK'
  BY <1>3 DEF SecretsInv, PassesOK, Free
<1>6. AllGiven'
  <2>1. /\ \A q \in Processes : job'[q].next.values \in {job[q].next.values, Nothing}
        /\ \A q \in Processes : process'[q].copy \in {process[q].copy, env}
    BY ProcessFacts DEF SecretsInv, SecretsTypeOK, IdleJob, NoStore
  <2>2. Given(Nothing, values)
    BY GivenFacts, SecretsAssumption DEF SecretsInv, SecretsTypeOK
  <2>3. \A q \in Processes : /\ Given(process'[q].copy, values)
                             /\ Given(job'[q].next.values, values)
    BY <2>1, <2>2 DEF SecretsInv, AllGiven
  <2> QED  BY <2>3 DEF SecretsInv, AllGiven
<1>5. ASSUME ~contested PROVE Confirmed' /\ \A q \in Processes : UpToDate(q)'
  <2>1. process'["supervisor"].copy \in {process["supervisor"].copy, env}
    BY ProcessFacts DEF SecretsInv, SecretsTypeOK
  <2>2. Confirmed'
    BY <1>5, <2>1 DEF SecretsInv, Confirmed
  <2>3. ASSUME NEW q \in Processes PROVE UpToDate(q)'
    BY <1>3, <1>5 DEF SecretsInv, UpToDate, Busy
  <2> QED  BY <2>2, <2>3
<1> QED  BY <1>2, <1>4, <1>5, <1>6 DEF SecretsInv

\* What the steps of sessions, and restarts, make of a process.
LEMMA Sessions ==
  ASSUME SecretsInv, NEW p \in Processes,
         Login(p) \/ Logout(p) \/ Expire(p) \/ Look(p) \/ RebootProcess(p)
  PROVE  SecretsInv'
<1>0. process \in [Processes -> Process] /\ env \in Values /\ reboots \in 0..MaxReboots
  BY DEF SecretsInv, SecretsTypeOK
<1>a. process[p] \in Process
  BY <1>0
<1>1. CASE Login(p)
  <2>1. store.pass \in Passphrases /\ store.values \in Values
    BY <1>1 DEF Login, SecretsInv, PassesOK, SecretsTypeOK, Store
  <2> DEFINE y == Pruned(process[p])
             x == Opened(y, store.pass, store.values)
  <2>2. y \in Process /\ y.sessions < MaxSessions /\ y.copy = process[p].copy
    BY <1>a, <1>1, <2>1, ProcessType DEF Login
  <2> HIDE DEF y
  <2>3. x \in Process /\ x.copy = process[p].copy
    BY <2>1, <2>2, OpenedType
  <2>4. /\ process' = [process EXCEPT ![p] = x]
        /\ UNCHANGED <<store, env, job, promised, words, contested, outdated, values, reboots>>
    BY <1>1 DEF Login, y
  <2> QED  BY <1>0, <2>3, <2>4, SessionsStep
<1>2. CASE Logout(p)
  <2>1. PICK left \in 0..(process[p].sessions - 1) :
          process' = [process EXCEPT ![p] = Pruned([process[p] EXCEPT !.sessions = left])]
    BY <1>0, <1>2 DEF Logout
  <2>2. left \in 0..MaxSessions
    BY <1>a, <2>1, SecretsAssumption DEF Process
  <2> DEFINE y == [process[p] EXCEPT !.sessions = left]
  <2>3. y \in Process /\ y.copy = process[p].copy
    BY <1>a, <2>2, ProcessType DEF Process
  <2> HIDE DEF y
  <2>4. Pruned(y) \in Process /\ Pruned(y).copy = process[p].copy
    BY <2>3, ProcessType
  <2>5. process' = [process EXCEPT ![p] = Pruned(y)]
    BY <2>1 DEF y
  <2> QED  BY <1>0, <1>2, <2>4, <2>5, SessionsStep DEF Logout
<1>3. CASE Expire(p)
  <2> DEFINE n == process[p].sessions - 1
             x == [process[p] EXCEPT !.sessions = n]
  <2>1. n \in 0..MaxSessions
    BY <1>a, <1>3, SecretsAssumption DEF Expire, Process
  <2>2. process' = [process EXCEPT ![p] = x]
    BY <1>0, <1>3 DEF Expire
  <2> HIDE DEF n
  <2>3. x \in Process /\ x.copy = process[p].copy
    BY <1>a, <2>1 DEF Process
  <2> QED  BY <1>0, <1>3, <2>2, <2>3, SessionsStep DEF Expire
<1>4. CASE Look(p)
  <2>1. process' = [process EXCEPT ![p] = Pruned(process[p])]
    BY <1>0, <1>4 DEF Look
  <2>2. Pruned(process[p]) \in Process /\ Pruned(process[p]).copy = process[p].copy
    BY <1>a, ProcessType
  <2> QED  BY <1>0, <1>4, <2>1, <2>2, SessionsStep DEF Look
<1>5. CASE RebootProcess(p)
  <2>1. Booted(p) \in Process /\ Booted(p).copy = env
    BY <1>0, ProcessFacts, SecretsAssumption DEF Booted, Process, SecretsInv, SecretsTypeOK, Store
  <2>2. reboots' \in 0..MaxReboots
    BY <1>0, <1>5, SecretsAssumption DEF RebootProcess
  <2> QED  BY <1>5, <2>1, <2>2, SessionsStep DEF RebootProcess
<1> QED  BY <1>1, <1>2, <1>3, <1>4, <1>5

-----------------------------------------------------------------------------
(* Changes of the store                                                    *)

\* A job begins, on files that nobody else is about to write: then it is up to date, and no
\* other job is the worse for it.
LEMMA JobBegins ==
  ASSUME SecretsInv, NEW p \in Processes, Free(p),
         NEW kind \in Kinds, NEW pass \in Passphrases, NEW new \in Values,
         job' = [job EXCEPT ![p] =
           [pc |-> "write", kind |-> kind,
            next |-> [exists |-> TRUE, pass |-> pass, values |-> new]]],
         contested' \in BOOLEAN, ~contested' => ~contested /\ ~Busy(p),
         values' \in 0..MaxValues, process' \in [Processes -> Process], env' \in Values,
         ~contested' => UpToDate(p)' /\ Confirmed',
         Given(new, values'), Given(env', values'), values <= values',
         \A q \in Processes : Given(process'[q].copy, values'), outdated' \subseteq Names,
         UNCHANGED <<store, promised, words, reboots>>
  PROVE  SecretsInv'
<1>1. job'[p] \in Job /\ job' \in [Processes -> Job]
  BY DEF SecretsInv, SecretsTypeOK, Job, Store
<1>2. SecretsTypeOK'
  BY <1>1 DEF SecretsInv, SecretsTypeOK
<1>3. /\ job'[p].pc = "write" /\ job'[p].next.exists /\ job'[p].next.pass = pass
      /\ \A q \in Processes : q # p => job'[q] = job[q]
  BY DEF SecretsInv, SecretsTypeOK
<1>4. PassesOK'
  BY <1>3 DEF SecretsInv, PassesOK, Free
<1>5. ASSUME ~contested', NEW q \in Processes, q # p PROVE UpToDate(q)'
  <2>1. ~contested /\ job[q].pc # "write"
    BY <1>5 DEF Busy
  <2>2. job'[q].pc # "write" /\ job'[q] = job[q]
    BY <1>3, <1>5, <2>1
  <2> QED  BY <1>5, <2>1, <2>2 DEF UpToDate, SecretsInv
<1>6. AllGiven'
  <2>1. values \in Nat /\ values' \in Nat
    BY SecretsAssumption DEF SecretsInv, SecretsTypeOK
  <2>2. \A q \in Processes : job'[q].next.values \in {job[q].next.values, new}
    BY DEF SecretsInv, SecretsTypeOK
  <2>3. store.values \in Values /\ \A q \in Processes : job[q].next.values \in Values
    BY DEF SecretsInv, SecretsTypeOK, Store, Job
  <2>4. Given(store.values, values')
    BY <2>1, <2>3, GivenFacts DEF SecretsInv, AllGiven
  <2>5. \A q \in Processes : Given(job[q].next.values, values')
    BY <2>1, <2>3, GivenFacts DEF SecretsInv, AllGiven
  <2> QED  BY <2>2, <2>4, <2>5 DEF AllGiven
<1> QED  BY <1>2, <1>4, <1>5, <1>6 DEF SecretsInv

\* The setup takes over the secrets that .env.local has now, except those it has changed since.
LEMMA SetUpStep ==
  ASSUME SecretsInv, NEW p \in Processes, NEW w \in Passphrases, SetUp(p, w)
  PROVE  SecretsInv'
<1>0. /\ process \in [Processes -> Process] /\ env \in Values /\ contested \in BOOLEAN
      /\ values \in 0..MaxValues /\ process[p].copy \in Values /\ "setup" \in Kinds
      /\ job \in [Processes -> Job]
  BY DEF SecretsInv, SecretsTypeOK, Process, Kinds
<1>1. /\ contested' \in BOOLEAN /\ (~contested' => ~contested /\ ~Busy(p))
      /\ outdated' \subseteq Names /\ env' = env
      /\ \A n \in Names \ outdated' : process[p].copy[n] = env[n]
  BY <1>0 DEF SetUp
<1>2. /\ job'[p].pc = "write" /\ job'[p].kind = "setup" /\ job'[p].next.values = process[p].copy
      /\ \A q \in Processes : q # p => job'[q] = job[q]
  BY <1>0 DEF SetUp
<1>3. ASSUME ~contested' PROVE UpToDate(p)' /\ Confirmed'
  <2>1. ~Busy(p)'
    BY <1>1, <1>2, <1>3 DEF Busy
  <2> QED  BY <1>1, <1>2, <1>3, <2>1 DEF SetUp, UpToDate, Confirmed, SecretsInv
<1>4. /\ Given(process[p].copy, values) /\ Given(env, values)
      /\ \A q \in Processes : Given(process[q].copy, values)
  BY DEF SecretsInv, AllGiven
<1>5. values <= values
  BY <1>0, SecretsAssumption
<1> QED  BY <1>0, <1>1, <1>3, <1>4, <1>5, JobBegins DEF SetUp

\* A job that begins on an existing store, and takes nothing back.
LEMMA ChangeBegins ==
  ASSUME SecretsInv, NEW p \in Processes, Free(p), store.exists, NEW kind \in {"put", "rotate"},
         NEW pass \in Passphrases, NEW new \in Values, BeginJob(p, kind, pass, new),
         \A n \in Names : new[n] >= store.values[n],
         values' \in 0..MaxValues, process' \in [Processes -> Process], env' \in Values,
         Given(new, values'), Given(env', values'), values <= values',
         \A q \in Processes : Given(process'[q].copy, values'),
         UNCHANGED <<store, promised, words, outdated, reboots>>
  PROVE  SecretsInv'
<1>0. contested \in BOOLEAN /\ job \in [Processes -> Job] /\ kind \in Kinds
  BY DEF SecretsInv, SecretsTypeOK, Kinds
<1>1. /\ contested' \in BOOLEAN /\ (~contested' => ~contested /\ ~Busy(p))
      /\ outdated' \subseteq Names
  BY <1>0 DEF BeginJob, SecretsInv, SecretsTypeOK
<1>2. /\ job'[p].pc = "write" /\ job'[p].kind = kind /\ job'[p].next.values = new
      /\ \A q \in Processes : q # p => job'[q] = job[q]
  BY <1>0 DEF BeginJob
<1>3. ASSUME ~contested' PROVE UpToDate(p)' /\ Confirmed'
  <2>1. ~Busy(p)'
    BY <1>1, <1>2, <1>3 DEF Busy
  <2>2. Confirmed'
    BY <1>1, <1>3 DEF Confirmed, SecretsInv
  <2>3. UpToDate(p)'
    BY <1>2, <2>1 DEF UpToDate
  <2> QED  BY <2>2, <2>3
<1> QED  BY <1>0, <1>1, <1>3, JobBegins DEF BeginJob

\* A secret is merged into what the store holds.
LEMMA PutStep ==
  ASSUME SecretsInv, NEW p \in Processes, PutSecret(p)
  PROVE  SecretsInv'
<1>0. /\ process \in [Processes -> Process] /\ env \in Values /\ values \in 0..MaxValues
      /\ store.values \in Values /\ Nothing \in Values
      /\ Given(store.values, values) /\ Given(env, values)
      /\ \A q \in Processes : process[q].copy \in Values /\ Given(process[q].copy, values)
  BY ProcessFacts DEF SecretsInv, SecretsTypeOK, Store, Process, AllGiven
<1>1. /\ values \in Nat /\ values' = values + 1 /\ values + 1 \in 0..MaxValues
      /\ values <= values' /\ values' \in Nat
  BY <1>0, SecretsAssumption DEF PutSecret
<1> DEFINE new == Merged(p, WrittenBy(p))
<1>2. new \in Values /\ Given(new, values')
  <2>1. WrittenBy(p) \in Names
    BY ProcessFacts
  <2>2. Given(new, values')
    BY <1>0, <1>1, <2>1, GivenFacts DEF Merged
  <2> QED  BY <1>0, <1>1, <2>2 DEF Merged, Values
<1>3. ASSUME NEW n \in Names PROVE new[n] >= store.values[n]
  <2>1. store.values[n] \in Nat /\ store.values[n] <= values
    BY <1>0, SecretsAssumption DEF Values, Given
  <2>2. new[n] = values + 1 \/ new[n] = store.values[n]
    BY <1>0 DEF Merged, Values
  <2>3. CASE new[n] = values + 1
    BY <1>1, <2>1, <2>3
  <2>4. CASE new[n] = store.values[n]
    BY <2>1, <2>4
  <2> QED  BY <2>2, <2>3, <2>4
<1>4. store.pass \in Passphrases
  BY DEF PutSecret, SecretsInv, PassesOK, SecretsTypeOK
<1>5. env' \in {env, Nothing}
  BY DEF PutSecret
<1>6. env' \in Values /\ Given(env', values')
  BY <1>0, <1>1, <1>5, GivenFacts
<1>7. process' = process \/ process' = [process EXCEPT ![p] = Scrubbed(process[p])]
  BY <1>0 DEF PutSecret, Scrubbed
<1>8. process' \in [Processes -> Process]
  BY <1>0, <1>7, ProcessType
<1>9. ASSUME NEW q \in Processes PROVE Given(process'[q].copy, values')
  <2>1. process'[q].copy = process[q].copy \/ process'[q].copy = Nothing
    BY <1>0, <1>7 DEF Scrubbed, Process
  <2> QED  BY <1>0, <1>1, <2>1, GivenFacts
<1> HIDE DEF new
<1>10. BeginJob(p, "put", store.pass, new) /\ Free(p) /\ store.exists
       /\ UNCHANGED <<store, promised, words, outdated, reboots>>
  BY DEF PutSecret, new
<1> QED  BY <1>1, <1>2, <1>3, <1>4, <1>6, <1>8, <1>9, <1>10, ChangeBegins

\* A change of the passphrase keeps every secret.
LEMMA RotateStep ==
  ASSUME SecretsInv, NEW p \in Processes, NEW w \in Passphrases, Rotate(p, w)
  PROVE  SecretsInv'
<1>1. /\ process' \in [Processes -> Process] /\ env' \in Values /\ values' \in 0..MaxValues
      /\ store.values \in Values /\ Given(store.values, values') /\ Given(env', values')
      /\ \A q \in Processes : Given(process'[q].copy, values')
  BY DEF Rotate, SecretsInv, SecretsTypeOK, Store, AllGiven
<1>2. values <= values' /\ \A n \in Names : store.values[n] >= store.values[n]
  BY <1>1, SecretsAssumption DEF Rotate, Values
<1> QED  BY <1>1, <1>2, ChangeBegins DEF Rotate

\* What is written has every confirmed value, and is what the jobs that were written have or later.
LEMMA WriteStep ==
  ASSUME SecretsInv, NEW p \in Processes, WriteStore(p)
  PROVE  SecretsInv'
<1>0. /\ job \in [Processes -> Job] /\ job[p] \in Job /\ job[p].pc = "write"
      /\ store' = job[p].next /\ job[p].next \in Store
      /\ job[p].next.exists /\ job[p].next.pass \in Passphrases
      /\ job' = [job EXCEPT ![p].pc = "reread"]
      /\ UNCHANGED <<env, process, promised, contested, outdated, values, reboots>>
  BY DEF WriteStore, SecretsInv, SecretsTypeOK, PassesOK, Free, Job
<1>1. /\ job'[p].pc = "reread" /\ job'[p].next = job[p].next /\ job'[p].kind = job[p].kind
      /\ \A q \in Processes : q # p => job'[q] = job[q]
      /\ job' \in [Processes -> Job]
  BY <1>0 DEF Job
<1>2. words' = words \cup {job[p].next.pass}
  BY <1>0 DEF WriteStore
<1>3. SecretsTypeOK'
  BY <1>0, <1>1, <1>2 DEF SecretsInv, SecretsTypeOK
<1>4. PassesOK'
  BY <1>0, <1>1, <1>2 DEF SecretsInv, PassesOK, Free
<1>5. AllGiven'
  BY <1>0, <1>1 DEF SecretsInv, AllGiven
<1>6. ASSUME ~contested PROVE Confirmed' /\ \A q \in Processes : UpToDate(q)'
  <2>1. \A n \in Names : /\ store.values[n] \in Nat /\ promised[n] \in Nat /\ env[n] \in Nat
                         /\ \A q \in Processes : job[q].next.values[n] \in Nat
    BY SecretsAssumption DEF SecretsInv, SecretsTypeOK, Store, Job, Values
  <2>2. Confirmed /\ \A q \in Processes : UpToDate(q)
    BY <1>6 DEF SecretsInv
  <2>3. ~Busy(p)
    BY <1>0, <2>2 DEF UpToDate
  <2>4. ASSUME NEW n \in Names \ outdated PROVE job[p].next.values[n] >= promised[n]
    <3>1. CASE job[p].kind = "setup"
      <4>1. job[p].next.values[n] = env[n] /\ env[n] >= promised[n]
        BY <1>0, <2>2, <3>1 DEF UpToDate, Confirmed
      <4> QED  BY <4>1
    <3>2. CASE job[p].kind # "setup"
      <4>1. job[p].next.values[n] >= store.values[n] /\ store.values[n] >= promised[n]
        BY <1>0, <2>2, <3>2 DEF UpToDate, Confirmed
      <4> QED  BY <2>1, <4>1
    <3> QED  BY <3>1, <3>2
  <2>5. Confirmed'
    BY <1>0, <2>4 DEF Confirmed
  <2>6. UpToDate(p)'
    BY <1>0, <1>1, <2>1 DEF UpToDate
  <2>7. ASSUME NEW q \in Processes, q # p PROVE UpToDate(q)'
    <3>1. job[q].pc # "write" /\ job'[q] = job[q]
      BY <1>1, <2>3, <2>7 DEF Busy
    <3>2. ASSUME job[q].pc = "reread", NEW n \in Names
          PROVE  job[p].next.values[n] >= job[q].next.values[n]
      <4>1. store.exists /\ store.values[n] >= job[q].next.values[n]
        BY <2>2, <3>2 DEF UpToDate, SecretsInv, PassesOK
      <4>2. job[p].next.values[n] >= store.values[n]
        BY <1>0, <2>2, <4>1 DEF UpToDate
      <4> QED  BY <2>1, <4>1, <4>2
    <3> QED  BY <1>0, <3>1, <3>2 DEF UpToDate
  <2> QED  BY <2>5, <2>6, <2>7
<1> QED  BY <1>0, <1>3, <1>4, <1>5, <1>6 DEF SecretsInv

\* A job ends on a store that has what it confirms.
LEMMA JobEnds ==
  ASSUME SecretsInv, NEW p \in Processes, job[p].pc = "reread",
         job' = [job EXCEPT ![p] = IdleJob],
         process' \in [Processes -> Process],
         \A q \in Processes : process'[q].copy \in {process[q].copy, Nothing},
         env' \in {env, Nothing}, promised' \in Values,
         words' \in {words, {store.pass}}, outdated' \subseteq Names,
         ~contested => \A n \in Names \ outdated' : store.values[n] >= promised'[n],
         UNCHANGED <<store, contested, values, reboots>>
  PROVE  SecretsInv'
<1>0. /\ store.exists /\ store.pass \in words /\ words \subseteq Passphrases
      /\ Nothing \in Values /\ IdleJob \in Job /\ IdleJob.pc = "idle"
      /\ IdleJob.next.values = Nothing
      /\ Given(Nothing, values) /\ job \in [Processes -> Job]
  BY ProcessFacts, GivenFacts, SecretsAssumption
     DEF SecretsInv, SecretsTypeOK, PassesOK, IdleJob, NoStore
<1>1. /\ job'[p] = IdleJob /\ \A q \in Processes : q # p => job'[q] = job[q]
      /\ job' \in [Processes -> Job]
  BY <1>0
<1>2. SecretsTypeOK'
  BY <1>0, <1>1 DEF SecretsInv, SecretsTypeOK
<1>3. PassesOK'
  BY <1>0, <1>1 DEF SecretsInv, PassesOK, Free
<1>4. AllGiven'
  BY <1>0, <1>1 DEF SecretsInv, AllGiven
<1>5. ASSUME ~contested, NEW q \in Processes PROVE UpToDate(q)'
  <2>1. CASE q = p
    BY <1>0, <1>1, <2>1 DEF UpToDate
  <2>2. CASE q # p
    BY <1>0, <1>1, <1>5, <2>2 DEF SecretsInv, UpToDate, Busy
  <2> QED  BY <2>1, <2>2
<1> QED  BY <1>0, <1>2, <1>3, <1>4, <1>5 DEF SecretsInv, Confirmed

\* The answer confirms what is in the store; a job whose store was changed confirms nothing.
LEMMA FinishStep ==
  ASSUME SecretsInv, NEW p \in Processes, FinishJob(p)
  PROVE  SecretsInv'
<1>0. /\ process \in [Processes -> Process] /\ process[p] \in Process /\ promised \in Values
      /\ store.values \in Values /\ job[p].next.values \in Values /\ job[p].pc = "reread"
      /\ store.exists /\ store.pass \in words /\ words \subseteq Passphrases
      /\ outdated \subseteq Names
      /\ job' = [job EXCEPT ![p] = IdleJob]
      /\ UNCHANGED <<store, contested, values, reboots>>
  BY DEF FinishJob, SecretsInv, SecretsTypeOK, Store, Job, PassesOK
<1>1. \A n \in Names : /\ store.values[n] \in Nat /\ promised[n] \in Nat
                       /\ job[p].next.values[n] \in Nat
  BY <1>0, SecretsAssumption DEF Values
<1>2. ~contested =>
        /\ \A n \in Names : store.values[n] >= job[p].next.values[n]
        /\ \A n \in Names \ outdated : store.values[n] >= promised[n]
  BY <1>0 DEF SecretsInv, UpToDate, Confirmed
<1>a. store.pass \in Passphrases /\ WrittenBy(p) \in Names
  BY <1>0, ProcessFacts
<1>3. CASE AnswerSetUp(p)
  <2> DEFINE y == [process[p] EXCEPT !.sessions = 0]
             z == Opened(y, store.pass, store.values)
             x == Scrubbed(z)
  <2>1. y \in Process /\ y.sessions < MaxSessions
    BY <1>0, SecretsAssumption DEF Process
  <2>2. x \in Process /\ x.copy = Nothing
    <3> HIDE DEF y
    <3>1. z \in Process
      BY <1>0, <1>a, <2>1, OpenedType
    <3> HIDE DEF z
    <3> QED  BY <3>1, ProcessType DEF Scrubbed, Process
  <2>3. /\ process' = [process EXCEPT ![p] = x] /\ env' = Nothing /\ words' = {store.pass}
        /\ outdated' = outdated
    BY <1>0, <1>3 DEF AnswerSetUp
  <2> HIDE DEF x
  <2>4. /\ process' \in [Processes -> Process]
        /\ \A q \in Processes : process'[q].copy \in {process[q].copy, Nothing}
    BY <1>0, <2>2, <2>3
  <2>5. \A n \in Names : promised'[n] \in {promised[n], job[p].next.values[n]}
    BY <1>3 DEF AnswerSetUp
  <2>6. promised' \in Values
    BY <1>0, <1>3 DEF AnswerSetUp, Values
  <2>7. ~contested => \A n \in Names \ outdated' : store.values[n] >= promised'[n]
    BY <1>2, <2>3, <2>5
  <2> QED  BY <1>0, <2>3, <2>4, <2>6, <2>7, JobEnds
<1>4. CASE AnswerPut(p)
  <2> DEFINE y == [process[p] EXCEPT !.cache = store.values]
             x == Scrubbed(y)
  <2>1. y \in Process
    BY <1>0 DEF Process
  <2>2. x \in Process /\ x.copy = Nothing
    <3> HIDE DEF y
    <3> QED  BY <2>1, ProcessType DEF Scrubbed, Process
  <2>3. /\ process' = [process EXCEPT ![p] = x] /\ env' = Nothing /\ words' = words
        /\ outdated' = outdated \ {WrittenBy(p)} /\ outdated' \subseteq Names
    BY <1>0, <1>4 DEF AnswerPut
  <2> HIDE DEF x
  <2>4. /\ process' \in [Processes -> Process]
        /\ \A q \in Processes : process'[q].copy \in {process[q].copy, Nothing}
    BY <1>0, <2>2, <2>3
  <2>5. \A n \in Names :
          promised'[n] = IF n = WrittenBy(p) THEN job[p].next.values[n] ELSE promised[n]
    BY <1>0, <1>4 DEF AnswerPut, Values
  <2>6. promised' \in Values
    BY <1>0, <1>4, <1>a DEF AnswerPut, Values
  <2>7. ~contested => \A n \in Names \ outdated' : store.values[n] >= promised'[n]
    BY <1>2, <2>3, <2>5
  <2> QED  BY <1>0, <2>3, <2>4, <2>6, <2>7, JobEnds
<1>5. CASE AnswerRotate(p)
  <2> DEFINE x == [process[p] EXCEPT !.pass = store.pass, !.cache = store.values]
  <2>1. x \in Process /\ x.copy = process[p].copy
    BY <1>0, <1>a DEF Process
  <2>2. process' = [process EXCEPT ![p] = x] /\ words' = {store.pass}
        /\ UNCHANGED <<env, promised, outdated>>
    BY <1>0, <1>5 DEF AnswerRotate
  <2> HIDE DEF x
  <2>3. /\ process' \in [Processes -> Process]
        /\ \A q \in Processes : process'[q].copy \in {process[q].copy, Nothing}
    BY <1>0, <2>1, <2>2
  <2> QED  BY <1>0, <1>2, <2>2, <2>3, JobEnds
<1>6. CASE UNCHANGED <<process, env, promised, words, outdated>>
  BY <1>0, <1>2, <1>6, JobEnds
<1> QED  BY <1>3, <1>4, <1>5, <1>6 DEF FinishJob

\* Without a store, the supervisor's copy and .env.local change together.
LEMMA RegisterStep ==
  ASSUME SecretsInv, RegisterBuyerInEnv
  PROVE  SecretsInv'
<1>0. /\ process \in [Processes -> Process] /\ "supervisor" \in Processes /\ "buyer" \in Names
      /\ ~store.exists /\ values \in 0..MaxValues /\ promised \in Values
      /\ \A q \in Processes : process[q] \in Process /\ process[q].copy \in Values
      /\ contested \in BOOLEAN
      /\ UNCHANGED <<store, job, words, reboots>>
  BY ProcessFacts DEF RegisterBuyerInEnv, SecretsInv, SecretsTypeOK, Process, Names
<1>1. /\ values' = values + 1 /\ values' \in 0..MaxValues /\ values \in Nat /\ values' \in Nat
      /\ values <= values'
  BY <1>0, SecretsAssumption DEF RegisterBuyerInEnv
<1> DEFINE new == [process["supervisor"].copy EXCEPT !["buyer"] = values + 1]
           x == [process["supervisor"] EXCEPT !.copy = new]
<1>2. new \in Values /\ Given(new, values')
  BY <1>0, <1>1, GivenFacts DEF Values, SecretsInv, AllGiven
<1>3. process' = [process EXCEPT !["supervisor"] = x] /\ env' = process'["supervisor"].copy
  BY <1>0 DEF RegisterBuyerInEnv, Process
<1>4. /\ promised' = [promised EXCEPT !["buyer"] = values + 1]
      /\ new["buyer"] = values + 1
      /\ \A n \in Names : n # "buyer" => new[n] = process["supervisor"].copy[n]
  BY <1>0 DEF RegisterBuyerInEnv, Values
<1>a. new["buyer"] \in Nat
  BY <1>1, <1>4
<1> HIDE DEF new
<1>5. x \in Process /\ x.copy = new
  BY <1>0, <1>2 DEF Process
<1> HIDE DEF x
<1>6. /\ process' \in [Processes -> Process] /\ env' = new /\ process'["supervisor"].copy = new
      /\ \A q \in Processes : process'[q].copy \in {process[q].copy, new}
  BY <1>0, <1>3, <1>5
<1>7. promised' \in Values
  BY <1>0, <1>1, <1>4 DEF Values
<1>b. /\ contested' \in BOOLEAN
      /\ ~contested' => ~contested /\ ~Busy("supervisor") /\ Free("supervisor")
      /\ outdated' \subseteq Names
  BY <1>0 DEF RegisterBuyerInEnv, SecretsInv, SecretsTypeOK
<1>8. SecretsTypeOK'
  BY <1>0, <1>1, <1>2, <1>6, <1>7, <1>b DEF SecretsInv, SecretsTypeOK
<1>9. PassesOK'
  BY <1>0 DEF SecretsInv, PassesOK, Free
<1>10. AllGiven'
  <2>1. /\ store.values \in Values /\ \A q \in Processes : job[q].next.values \in Values
    BY DEF SecretsInv, SecretsTypeOK, Store, Job
  <2>2. Given(store.values, values') /\ \A q \in Processes : Given(job[q].next.values, values')
    BY <1>1, <2>1, GivenFacts DEF SecretsInv, AllGiven
  <2>3. \A q \in Processes : Given(process[q].copy, values')
    BY <1>0, <1>1, GivenFacts DEF SecretsInv, AllGiven
  <2> QED  BY <1>0, <1>2, <1>6, <2>2, <2>3 DEF AllGiven
<1>11. ASSUME ~contested' PROVE Confirmed' /\ \A q \in Processes : UpToDate(q)'
  <2>1. \A q \in Processes : job[q].pc # "write"
    BY <1>b, <1>11 DEF Busy, Free
  <2>2. \A n \in Names : new[n] >= promised'[n]
    <3>1. \A n \in Names : n # "buyer" => new[n] >= promised'[n]
      BY <1>0, <1>4, <1>b, <1>11 DEF SecretsInv, Confirmed, Values
    <3>2. new["buyer"] >= promised'["buyer"]
      BY <1>0, <1>4, <1>a DEF Values
    <3> QED  BY <3>1, <3>2
  <2>3. Confirmed'
    BY <1>0, <1>6, <1>b, <1>11, <2>2 DEF SecretsInv, Confirmed
  <2>4. ASSUME NEW q \in Processes PROVE UpToDate(q)'
    BY <1>0, <1>b, <1>11, <2>1 DEF SecretsInv, UpToDate
  <2> QED  BY <2>3, <2>4
<1> QED  BY <1>8, <1>9, <1>10, <1>11 DEF SecretsInv

\* Saving the configuration writes what the file had, or clears what the store has.
LEMMA SaveStep ==
  ASSUME SecretsInv, NEW p \in Processes, SaveConfig(p)
  PROVE  SecretsInv'
<1>0. /\ process \in [Processes -> Process] /\ process[p] \in Process /\ process[p].copy \in Values
      /\ Nothing \in Values /\ Given(Nothing, values) /\ Given(process[p].copy, values)
      /\ UNCHANGED <<store, job, promised, words, contested, outdated, values, reboots>>
  BY ProcessFacts, GivenFacts, SecretsAssumption
     DEF SaveConfig, SecretsInv, SecretsTypeOK, Process, AllGiven
<1>1. /\ env' \in Values /\ Given(env', values)
      /\ env' = IF store.exists THEN Nothing ELSE process[p].copy
  BY <1>0 DEF SaveConfig
<1> DEFINE x == [process[p] EXCEPT !.copy = env']
<1>2. x \in Process /\ x.copy = env'
  BY <1>0, <1>1 DEF Process
<1>3. process' = [process EXCEPT ![p] = x]
  BY <1>0 DEF SaveConfig
<1> HIDE DEF x
<1>4. /\ process' \in [Processes -> Process] /\ process'[p].copy = env'
      /\ \A q \in Processes : q # p => process'[q] = process[q]
  BY <1>0, <1>2, <1>3
<1>5. SecretsTypeOK' /\ PassesOK'
  BY <1>0, <1>1, <1>4 DEF SecretsInv, SecretsTypeOK, PassesOK, Free
<1>6. AllGiven'
  BY <1>0, <1>1, <1>4 DEF SecretsInv, AllGiven
<1>7. ASSUME ~contested PROVE Confirmed' /\ \A q \in Processes : UpToDate(q)'
  <2>1. CASE store.exists
    BY <1>0, <1>7, <2>1 DEF SecretsInv, Confirmed, UpToDate, Busy
  <2>2. CASE ~store.exists
    <3>1. p = "supervisor" /\ env' = env /\ process'["supervisor"].copy = env
      BY <1>1, <1>4, <1>7, <2>2 DEF SaveConfig, SecretsInv, Confirmed, Processes
    <3> QED  BY <1>0, <1>7, <2>2, <3>1 DEF SecretsInv, Confirmed, UpToDate, Busy
  <2> QED  BY <2>1, <2>2
<1> QED  BY <1>0, <1>5, <1>6, <1>7 DEF SecretsInv

-----------------------------------------------------------------------------
(* The theorems                                                            *)

\* The invariant holds at first.
LEMMA SecretsStarts == SecretsInit => SecretsInv
<1> SUFFICES ASSUME SecretsInit PROVE SecretsInv
  OBVIOUS
<1>1. /\ job = [p \in Processes |-> IdleJob] /\ process = [p \in Processes |-> Booted(p)]
      /\ store = NoStore /\ promised = env /\ words = {} /\ contested = FALSE /\ reboots = 0
      /\ outdated = {}
      /\ env = [Nothing EXCEPT !["admin"] = values] /\ values \in 0..1
  BY DEF SecretsInit
<1>2. values \in Nat /\ values \in 0..MaxValues /\ MaxSessions \in Nat /\ MaxReboots \in Nat
  BY <1>1, SecretsAssumption
<1>3. env \in Values /\ \A n \in Names : env[n] \in {0, values}
  <2>1. Nothing = [n \in Names |-> 0]
    BY DEF Nothing
  <2>2. env \in [Names -> {0, values}]
    BY <1>1, <2>1
  <2>3. 0 \in 0..MaxValues
    BY SecretsAssumption
  <2>4. env \in [Names -> 0..MaxValues]
    BY <1>2, <2>2, <2>3
  <2> QED  BY <2>2, <2>4 DEF Values
<1>4. Given(env, values) /\ Given(Nothing, values)
  BY <1>2, <1>3 DEF Given, Nothing
<1>5. /\ NoStore \in Store /\ IdleJob \in Job /\ IdleJob.pc = "idle" /\ Nothing \in Values
      /\ ~NoStore.exists /\ NoStore.values = Nothing /\ IdleJob.next = NoStore
  BY ProcessFacts DEF NoStore, IdleJob
<1>6. ASSUME NEW p \in Processes PROVE process[p] \in Process /\ process[p].copy = env
  <2>1. Booted(p) \in Process /\ Booted(p).copy = env
    BY <1>1, <1>2, <1>3, <1>5 DEF Booted, Process
  <2> QED  BY <1>1, <2>1
<1>7. SecretsTypeOK
  <2>1. process \in [Processes -> Process]
    BY <1>1, <1>6
  <2>2. job \in [Processes -> Job]
    BY <1>1, <1>5
  <2>3. promised \in Values /\ words \subseteq Passphrases /\ contested \in BOOLEAN
    BY <1>1, <1>3
  <2>4. reboots \in 0..MaxReboots
    BY <1>1, <1>2
  <2> QED  BY <1>1, <1>2, <1>3, <1>5, <2>1, <2>2, <2>3, <2>4 DEF SecretsTypeOK
<1>8. PassesOK /\ AllGiven
  BY <1>1, <1>4, <1>5, <1>6 DEF PassesOK, AllGiven, Free
<1>9. \A n \in Names : env[n] >= env[n]
  BY <1>2, <1>3
<1>10. Confirmed
  BY <1>1, <1>5, <1>6, <1>9, ProcessFacts DEF Confirmed
<1>11. \A p \in Processes : UpToDate(p)
  BY <1>1, <1>5 DEF UpToDate
<1> QED  BY <1>7, <1>8, <1>10, <1>11 DEF SecretsInv

\* Every step keeps it.
LEMMA SecretsStep == SecretsInv /\ [SecretsNext]_secretVars => SecretsInv'
<1> SUFFICES ASSUME SecretsInv, [SecretsNext]_secretVars PROVE SecretsInv'
  OBVIOUS
<1>1. CASE UNCHANGED secretVars
  BY <1>1 DEF secretVars, SecretsInv, SecretsTypeOK, PassesOK, AllGiven, Confirmed, UpToDate,
              Busy, Free
<1>2. ASSUME NEW p \in Processes,
             Login(p) \/ Logout(p) \/ Expire(p) \/ Look(p) \/ RebootProcess(p)
      PROVE  SecretsInv'
  BY <1>2, Sessions
<1>3. ASSUME NEW p \in Processes,
             PutSecret(p) \/ WriteStore(p) \/ FinishJob(p) \/ SaveConfig(p)
      PROVE  SecretsInv'
  BY <1>3, PutStep, WriteStep, FinishStep, SaveStep
<1>4. ASSUME NEW p \in Processes, NEW w \in Passphrases, SetUp(p, w) \/ Rotate(p, w)
      PROVE  SecretsInv'
  BY <1>4, SetUpStep, RotateStep
<1>5. CASE RegisterBuyerInEnv
  BY <1>5, RegisterStep
<1> QED  BY <1>1, <1>2, <1>3, <1>4, <1>5 DEF SecretsNext

\* The invariant holds in every reachable state.
LEMMA SecretsInvariant == SecretsSpec => []SecretsInv
  BY SecretsStarts, SecretsStep, PTL DEF SecretsSpec

\* The files and what both processes remember always have their types: no session is counted
\* beyond the bound or below zero, and no secret has a value that was not given.
THEOREM SecretsTyped == SecretsSpec => []SecretsTypeOK
<1>1. SecretsInv => SecretsTypeOK
  BY DEF SecretsInv
<1> QED  BY <1>1, SecretsInvariant, PTL

\* Unless the supervisor and the console change the files at the same moment, the passphrase that
\* was last confirmed opens the store, and no confirmed secret is lost but those that a store was
\* set up without, by a process that had read .env.local before they were saved there.
THEOREM ConfirmedSecretsKept == SecretsSpec => []SecretsKept
  BY InvKeeps, SecretsInvariant, PTL
=============================================================================
