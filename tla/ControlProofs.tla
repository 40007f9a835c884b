--------------------------- MODULE ControlProofs ---------------------------
(***************************************************************************)
(* The control plane's parts together, as the run explores them, for every *)
(* value of the constants: in each behaviour of the composition every part *)
(* behaves as its own module says, so whatever was proved of a part holds  *)
(* here, the part's types among it.                                        *)
(***************************************************************************)
EXTENDS MCControl, CatalogProofs, ReviewProofs, SecretsProofs, OpsProofs

\* Every part starts as it does alone.
LEMMA PartsStart ==
  Init => CatalogInit /\ ReviewInit /\ SecretsInit /\ SupervisorInit /\ BootstrapInit
  BY DEF Init

\* A step of the composition is a step of each part or leaves it alone, whichever part moves.
LEMMA PartsStep ==
  ASSUME [Next]_vars
  PROVE  /\ [CatalogNext]_catalogVars /\ [ReviewNext]_reviewVars /\ [SecretsNext]_secretVars
         /\ [SupervisorNext]_supervisorVars /\ [BootstrapNext]_bootstrapVars
<1>1. CASE UNCHANGED vars
  BY <1>1 DEF vars
<1>2. CASE PartNext
  BY <1>2 DEF PartNext, CatalogNext
<1> QED  BY <1>1, <1>2 DEF Next

\* The handlers of the platform's catalog, its review tests, the two processes that keep
\* secrets, the supervisor and bootstrap: put together they are what each is alone.
THEOREM PartsImplemented ==
  FairSpec => CatalogSpec /\ ReviewSpec /\ SecretsSpec /\ SupervisorSpec /\ BootstrapSpec
<1>1. [Next]_vars =>
        /\ [CatalogNext]_catalogVars /\ [ReviewNext]_reviewVars /\ [SecretsNext]_secretVars
        /\ [SupervisorNext]_supervisorVars /\ [BootstrapNext]_bootstrapVars
  BY PartsStep
<1> QED
  BY <1>1, PartsStart, PTL
     DEF FairSpec, CatalogSpec, ReviewSpec, SecretsSpec, SupervisorSpec, BootstrapSpec

\* Every variable of the part that moves has its type, after any number of handlers, failing
\* saves, restarts, jobs, commands and runs.
THEOREM ControlTypes == FairSpec => []TypesOK
<1>1. /\ CatalogTypeOK /\ ReviewTypeOK /\ SecretsTypeOK /\ SupervisorTypeOK /\ BootstrapTypeOK
      => TypesOK
  BY DEF TypesOK
<1> QED
  BY <1>1, PartsImplemented, CatalogTypes, ReviewTypes, SecretsTyped, SupervisorTypes,
     BootstrapTypes, PTL

\* What the control run checks of its parts holds in their composition: visibility follows the
\* approvals, revoked keys stay dead, accounts agree, verdicts are earned and stand, marks mean
\* receipt, the seller serves what is configured, files and memory agree, confirmed secrets stay
\* and an undisturbed bootstrap gets through.
THEOREM ControlSafe ==
  FairSpec =>
    /\ [](PublicOnlyAsApproved /\ RevokedStaysDead /\ AccountsAgree)
    /\ []PassEarned /\ PassStands
    /\ []SecretsKept
    /\ [](MarkedMeansReceived /\ SellerAsConfigured /\ FileAgrees)
    /\ []RerunGetsThrough
<1>1. CatalogSpec => [](PublicOnlyAsApproved /\ RevokedStaysDead /\ AccountsAgree)
  BY ShownAsApproved, DeadKeysStayDead, AccountsStayInAgreement, PTL
<1>2. ReviewSpec => []PassEarned /\ PassStands
  BY VerdictsEarned, VerdictsStand, PTL
<1>3. SupervisorSpec => [](MarkedMeansReceived /\ SellerAsConfigured /\ FileAgrees)
  BY MarksEarned, SellerFollows, FilesAgree, PTL
<1> QED
  BY <1>1, <1>2, <1>3, PartsImplemented, ConfirmedSecretsKept, BootstrapGetsThrough, PTL
=============================================================================
