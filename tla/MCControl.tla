----------------------------- MODULE MCControl -----------------------------
(***************************************************************************)
(* The control plane's sequential parts in one run.  They share no         *)
(* variable, so instead of their product each is explored alone: "part"    *)
(* says which one moves.  Where one call of the code acts on two of them   *)
(* (saveOpsState writes the configuration and .env.local), each part has   *)
(* its own side of it as an action that may happen at any time.  The       *)
(* catalog is explored in two parts, accounts and keys, and reviews; both  *)
(* submit and restart.                                                     *)
(***************************************************************************)
EXTENDS PlatformCatalog, ReviewTests, OpsSecrets, OpsSupervisor, OpsBootstrap

CONSTANTS u1, s1, a1, a2, p1, p2, t1, w1, w2, o1

VARIABLE part

vars == <<part, catalogVars, reviewVars, secretVars, supervisorVars, bootstrapVars>>

\* A part that does not move starts in one state.
Init ==
  /\ part \in {"keys", "moderation", "tests", "secrets", "supervisor", "bootstrap"}
  /\ CatalogInit /\ (part \notin {"keys", "moderation"} => ~bootstrap)
  /\ ReviewInit
  /\ SecretsInit /\ (part # "secrets" => values = 0)
  /\ SupervisorInit
  /\ BootstrapInit /\ (part # "bootstrap" => ~adminKey)

\* SecretsKept says nothing once both processes have changed the files at a time.
PartNext ==
  \/ part = "keys" /\ KeysNext
     /\ UNCHANGED <<reviewVars, secretVars, supervisorVars, bootstrapVars>>
  \/ part = "moderation" /\ ModerationNext
     /\ UNCHANGED <<reviewVars, secretVars, supervisorVars, bootstrapVars>>
  \/ part = "tests" /\ ReviewNext
     /\ UNCHANGED <<catalogVars, secretVars, supervisorVars, bootstrapVars>>
  \/ part = "secrets" /\ SecretsNext /\ ~contested'
     /\ UNCHANGED <<catalogVars, reviewVars, supervisorVars, bootstrapVars>>
  \/ part = "supervisor" /\ SupervisorNext
     /\ UNCHANGED <<catalogVars, reviewVars, secretVars, bootstrapVars>>
  \/ part = "bootstrap" /\ BootstrapNext
     /\ UNCHANGED <<catalogVars, reviewVars, secretVars, supervisorVars>>

Next == PartNext /\ UNCHANGED part

FairSpec ==
  /\ Init /\ [][Next]_vars
  /\ \A n \in Runs : WF_reviewVars(part = "tests" /\ HarnessStep(n))

\* Every variable of the part that moves has its type.
TypesOK ==
  /\ part \in {"keys", "moderation"} => CatalogTypeOK
  /\ part = "tests" => ReviewTypeOK
  /\ part = "secrets" => SecretsTypeOK
  /\ part = "supervisor" => SupervisorTypeOK
  /\ part = "bootstrap" => BootstrapTypeOK
=============================================================================
