-------------------------- MODULE PlatformCatalog --------------------------
(***************************************************************************)
(* The platform's accounts and catalog: apps/platform-api/src/server.js,   *)
(* users and sellers register, api keys are drawn, rotated and revoked,    *)
(* subagents are submitted, reviewed, enabled and disabled; with the       *)
(* sqlite store, which saves before anything else runs.                    *)
(*                                                                         *)
(* A handler that has a body checks the key first and reads the body       *)
(* after, so it may act for a caller whose key is gone by then.  Any       *)
(* number of them may be waiting: "admitted" has every caller whose key    *)
(* was good since the process started.                                     *)
(*                                                                         *)
(* Availability, templates, schemas, audit and review events, limits of    *)
(* rate, and who may read what are left out.                               *)
(***************************************************************************)
EXTENDS Integers, FiniteSets

CONSTANTS
  Users,            \* user ids
  Sellers,          \* seller ids
  Subagents,        \* subagent ids
  Pems,             \* public signing keys
  BootSeller,       \* the seller of createPlatformState, with ENABLE_BOOTSTRAP_SELLERS
  BootSubagent,     \* its subagent
  BootPem,          \* and its signing key
  Quota,            \* PLATFORM_SUBAGENT_QUOTA_PER_SELLER
  MaxKeys,          \* bound: api keys ever drawn
  MaxSubmissions,   \* bound: submissions of a subagent, changes of a seller
  MaxSaveFaults,    \* bound: saves that throw
  MaxRestarts       \* bound: crashes of the platform

Nobody == "nobody"
Admin == "platform_admin"
Accounts == {Admin} \cup Users \cup Sellers
Reviewed == Sellers \cup Subagents

ASSUME CatalogAssumption ==
  /\ BootSeller \in Sellers /\ BootSubagent \in Subagents /\ BootPem \in Pems
  /\ {Nobody, Admin} \cap (Users \cup Sellers \cup Subagents) = {}
  /\ Sellers \cap (Users \cup Subagents) = {}
  /\ Quota \in Nat \ {0} /\ MaxKeys \in Nat /\ MaxKeys >= 2
  /\ {MaxSubmissions, MaxSaveFaults, MaxRestarts} \subseteq Nat

VARIABLES
  bootstrap,    \* ENABLE_BOOTSTRAP_SELLERS
  catalog,      \* the state in memory
  snapshot,     \* the states saved: none, or the last one
  admitted,     \* callers whose key was good since the start
  drawn,        \* api keys drawn: keys are random, a new one is fresh
  approvals,    \* what an operator has approved: <<seller or subagent, edition>>
  barred,       \* what an operator was told (2xx) is disabled or rejected, and has not let in since
  dead,         \* keys that a 2xx says are revoked or replaced
  saveFaults, restarts

catalogVars ==
  <<bootstrap, catalog, snapshot, admitted, drawn, approvals, barred, dead, saveFaults,
    restarts>>

-----------------------------------------------------------------------------
(* The state                                                               *)

Keys == 1..MaxKeys
NoKey == 0
AdminKey == 1        \* PLATFORM_ADMIN_API_KEY
BootKey == 2         \* BOOTSTRAP_SELLER_API_KEY

KeyRecord == [who : Accounts \cup {Nobody}, ids : SUBSET Subagents]
Unused == [who |-> Nobody, ids |-> {}]

User == [known : BOOLEAN, key : {NoKey} \cup Keys, admin : BOOLEAN]
Seller ==
  [known : BOOLEAN, owner : Users \cup {Nobody}, key : {NoKey} \cup Keys,
   ids : SUBSET Subagents, pem : Pems, pems : SUBSET Pems]
Item == [seller : Sellers \cup {Nobody}, pem : Pems, pems : SUBSET Pems]

\* edition counts what was submitted; a bootstrap entry was never submitted.
Review ==
  [verdict : {"pending", "approved", "rejected"}, enabled : BOOLEAN, edition : 0..MaxSubmissions]

Catalog ==
  [keys : [Keys -> KeyRecord], users : [Users -> User], sellers : [Sellers -> Seller],
   items : [Subagents -> Item], review : [Reviewed -> Review]]

\* createPlatformState
Bootstrapped == IF bootstrap THEN {BootSeller, BootSubagent} ELSE {}
Fresh ==
  [keys |-> [k \in Keys |->
     IF k = AdminKey THEN [who |-> Admin, ids |-> {}]
     ELSE IF k = BootKey /\ bootstrap THEN [who |-> BootSeller, ids |-> {BootSubagent}]
     ELSE Unused],
   users |-> [u \in Users |-> [known |-> FALSE, key |-> NoKey, admin |-> FALSE]],
   sellers |-> [s \in Sellers |->
     IF s \in Bootstrapped
     THEN [known |-> TRUE, owner |-> Nobody, key |-> BootKey, ids |-> {BootSubagent},
           pem |-> BootPem, pems |-> {BootPem}]
     ELSE [known |-> FALSE, owner |-> Nobody, key |-> NoKey, ids |-> {},
           pem |-> BootPem, pems |-> {}]],
   items |-> [a \in Subagents |->
     [seller |-> IF a \in Bootstrapped THEN BootSeller ELSE Nobody,
      pem |-> BootPem, pems |-> {BootPem}]],
   review |-> [x \in Reviewed |->
     IF x \in Bootstrapped
     THEN [verdict |-> "approved", enabled |-> TRUE, edition |-> 0]
     ELSE [verdict |-> "pending", enabled |-> FALSE, edition |-> 0]]]

Listed(m, a) == m.items[a].seller # Nobody
Known(m, x) == IF x \in Sellers THEN m.sellers[x].known ELSE Listed(m, x)

\* isSellerRoutable, isSubagentRoutable
Routable(m, x) == m.review[x].verdict = "approved" /\ m.review[x].enabled

\* resolveCatalogVisibility
Public(m, a) == Listed(m, a) /\ Routable(m, a) /\ Routable(m, m.items[a].seller)

-----------------------------------------------------------------------------
(* Callers                                                                 *)

\* resolveAuth: whose key the caller shows.
Holders(m) == {m.keys[k].who : k \in Keys} \ {Nobody}

\* requireOperator
Operator(c) == c = Admin \/ (c \in Users /\ catalog.users[c].admin)

CanManage(c, s) ==
  \/ c \in Users /\ catalog.sellers[s].owner = c
  \/ c = s

\* A request without a body acts as soon as its key is accepted, another may act later.
OperatorNow(c) == c \in Holders(catalog) /\ Operator(c)
OperatorWaiting(c) == c \in admitted /\ Operator(c)

-----------------------------------------------------------------------------
(* Saving, and what the answer promises                                    *)

\* persistPlatformState, last thing in every handler; a save that throws is answered with a
\* 500, and the memory keeps the change.
Save(m, replaced, shut, opened) ==
  /\ catalog' = m
  /\ admitted' = admitted \cup Holders(m)
  /\ \/ /\ snapshot' = {m}
        /\ dead' = dead \cup replaced
        /\ barred' = (barred \ opened) \cup shut
        /\ UNCHANGED saveFaults
     \/ /\ saveFaults < MaxSaveFaults /\ saveFaults' = saveFaults + 1
        /\ barred' = barred \ opened
        /\ UNCHANGED <<snapshot, dead>>
  /\ UNCHANGED <<bootstrap, restarts>>

-----------------------------------------------------------------------------
(* Accounts and keys                                                       *)

NewKey == drawn + 1

\* registerBuyerUser
UserRegistered(m, u) ==
  [m EXCEPT !.users[u] = [known |-> TRUE, key |-> NewKey, admin |-> FALSE],
            !.keys[NewKey] = [who |-> u, ids |-> {}]]

RegisterUser(u) ==
  /\ ~catalog.users[u].known /\ drawn < MaxKeys
  /\ drawn' = NewKey
  /\ Save(UserRegistered(catalog, u), {}, {}, {})
  /\ UNCHANGED approvals

\* addUserRole: of the roles only "admin" decides anything.
AdminAdded(m, u) == [m EXCEPT !.users[u].admin = TRUE]

GrantAdminRole(c, u) ==
  /\ OperatorWaiting(c)
  /\ catalog.users[u].known
  /\ Save(AdminAdded(catalog, u), {}, {}, {})
  /\ UNCHANGED <<drawn, approvals>>

\* revokeApiKey: the record of the key goes, and its owner no longer names it.
ForgetKeyRecord(m, k) == IF k = NoKey THEN m ELSE [m EXCEPT !.keys[k] = Unused]
ForgetKey(m, k) ==
  IF k = NoKey THEN m
  ELSE [m EXCEPT !.keys[k] = Unused,
                 !.users = [u \in Users |-> IF @[u].key = k THEN [@[u] EXCEPT !.key = NoKey]
                                            ELSE @[u]],
                 !.sellers = [s \in Sellers |-> IF @[s].key = k THEN [@[s] EXCEPT !.key = NoKey]
                                                ELSE @[s]]]

\* rotateBuyerApiKey, rotateSellerApiKey
BuyerKeyRotated(m, u) ==
  [ForgetKey(m, m.users[u].key) EXCEPT
     !.users[u].key = NewKey, !.keys[NewKey] = [who |-> u, ids |-> {}]]
SellerKeyRotated(m, s) ==
  [ForgetKey(m, m.sellers[s].key) EXCEPT
     !.sellers[s].key = NewKey, !.keys[NewKey] = [who |-> s, ids |-> m.sellers[s].ids]]

RotateBuyerKey(c, u) ==
  /\ OperatorNow(c)
  /\ catalog.users[u].known /\ drawn < MaxKeys
  /\ drawn' = NewKey
  /\ Save(BuyerKeyRotated(catalog, u), {catalog.users[u].key} \ {NoKey}, {}, {})
  /\ UNCHANGED approvals

RotateSellerKey(c, s) ==
  /\ OperatorNow(c)
  /\ catalog.sellers[s].known /\ drawn < MaxKeys
  /\ drawn' = NewKey
  /\ Save(SellerKeyRotated(catalog, s), {catalog.sellers[s].key} \ {NoKey}, {}, {})
  /\ UNCHANGED approvals

RevokeKey(c, k) ==
  /\ OperatorWaiting(c)
  /\ catalog.keys[k] # Unused
  /\ Save(ForgetKey(catalog, k), {k}, {}, {})
  /\ UNCHANGED <<drawn, approvals>>

\* rotateSellerSigningKey changes the seller and all its subagents.
SignWithSeller(m, s, p, valid) == [m EXCEPT !.sellers[s].pem = p, !.sellers[s].pems = valid]
SignWith(m, s, p, valid) ==
  [SignWithSeller(m, s, p, valid) EXCEPT
     !.items = [a \in Subagents |->
                  IF @[a].seller = s THEN [@[a] EXCEPT !.pem = p, !.pems = valid] ELSE @[a]]]

\* The body lists the keys that stay valid; without a list the last one does.
RotateSigningKey(c, s, p, previous) ==
  /\ OperatorWaiting(c)
  /\ catalog.sellers[s].known
  /\ Save(SignWith(catalog, s, p, {p} \cup previous), {}, {}, {})
  /\ UNCHANGED <<drawn, approvals>>

-----------------------------------------------------------------------------
(* Submissions                                                             *)

\* Not the refusals of submitCatalogSubagent.
MaySubmit(c, s, a) ==
  LET seller == catalog.sellers[s] IN
  /\ catalog.items[a].seller \in {Nobody, s}
  /\ seller.known =>
       /\ CanManage(c, s)
       /\ Listed(catalog, a) \/ Cardinality(seller.ids) < Quota

\* A seller key that is none of the seller's own any more is replaced, but not remembered.
KeyOf(s) == IF catalog.sellers[s].key = NoKey THEN NewKey ELSE catalog.sellers[s].key

SubmittedSeller(s, a, p, owner) ==
  LET x == catalog.sellers[s] IN
  [x EXCEPT !.known = TRUE,
            !.owner = IF x.known THEN x.owner ELSE owner,
            !.key = IF x.known THEN x.key ELSE NewKey,
            !.ids = x.ids \cup {a},
            !.pem = p,
            !.pems = x.pems \cup {p}]

KeepsApproval(x) == [x EXCEPT !.edition = @ + 1]
BackToReview(x) == [verdict |-> "pending", enabled |-> FALSE, edition |-> x.edition + 1]

\* sellerChanged: a new contact address, too, sends the seller back to review.
Submitted(s, a, p, owner, moved) ==
  LET x == catalog.sellers[s]
      seller == SubmittedSeller(s, a, p, owner)
      changed == ~x.known \/ moved \/ x.pem # p
      review == [catalog.review EXCEPT ![a] = BackToReview(@),
                                       ![s] = IF changed THEN BackToReview(@) ELSE @]
  IN [catalog EXCEPT
        !.sellers[s] = seller,
        !.keys[KeyOf(s)] = [who |-> s, ids |-> seller.ids],
        !.items[a] = [seller |-> s, pem |-> p, pems |-> seller.pems],
        !.review = review]

\* submitCatalogSubagent: the body may name an owner for a new seller when the caller is none.
\* (A known seller keeps its owner, and a new one has not moved.)
Submit(c, s, a, p, owner, moved) ==
  LET m == Submitted(s, a, p, owner, moved) IN
  /\ IF catalog.sellers[s].known THEN owner = catalog.sellers[s].owner
     ELSE ~moved /\ (c \in Users => owner = c)
  /\ MaySubmit(c, s, a) /\ KeyOf(s) \in Keys
  /\ \A x \in {s, a} : m.review[x].edition <= MaxSubmissions
  /\ drawn' = IF KeyOf(s) > drawn THEN KeyOf(s) ELSE drawn
  /\ Save(m, {}, {}, {})
  /\ UNCHANGED approvals

\* POST catalog/subagents
SubmitSubagent(c, s, a, p, owner, moved) ==
  /\ c \in admitted \ {Admin}
  /\ Submit(c, s, a, p, owner, moved)

\* POST sellers/register lets anyone create a seller; with a key, which is checked after the
\* body is read, it does what SubmitSubagent does.
RegisterSeller(s, a, p, owner) ==
  /\ ~catalog.sellers[s].known
  /\ Submit(Nobody, s, a, p, owner, FALSE)

-----------------------------------------------------------------------------
(* Reviews                                                                 *)

Approve(c, x) ==
  /\ OperatorWaiting(c) /\ Known(catalog, x)
  /\ approvals' = approvals \cup {<<x, catalog.review[x].edition>>}
  /\ Save([catalog EXCEPT !.review[x].verdict = "approved", !.review[x].enabled = TRUE],
          {}, {}, {x})
  /\ UNCHANGED drawn

Reject(c, x) ==
  /\ OperatorWaiting(c) /\ Known(catalog, x)
  /\ Save([catalog EXCEPT !.review[x].verdict = "rejected", !.review[x].enabled = FALSE],
          {}, {x}, {})
  /\ UNCHANGED <<drawn, approvals>>

Disable(c, x) ==
  /\ OperatorWaiting(c) /\ Known(catalog, x)
  /\ Save([catalog EXCEPT !.review[x].enabled = FALSE], {}, {x}, {})
  /\ UNCHANGED <<drawn, approvals>>

Enable(c, x) ==
  /\ OperatorNow(c) /\ Known(catalog, x)
  /\ catalog.review[x].verdict = "approved"
  /\ Save([catalog EXCEPT !.review[x].enabled = TRUE], {}, {}, {x})
  /\ UNCHANGED <<drawn, approvals>>

ApproveSeller(c, s) == Approve(c, s)
RejectSeller(c, s) == Reject(c, s)
DisableSeller(c, s) == Disable(c, s)
EnableSeller(c, s) == Enable(c, s)
ApproveSubagent(c, a) == Approve(c, a)
RejectSubagent(c, a) == Reject(c, a)
DisableSubagent(c, a) == Disable(c, a)
EnableSubagent(c, a) == Enable(c, a)

-----------------------------------------------------------------------------
(* Restart                                                                 *)

\* hydratePlatformState clears what createPlatformState made, its keys too.
HydrateCatalog(m) == m

Restart ==
  /\ restarts < MaxRestarts /\ restarts' = restarts + 1
  /\ catalog' = IF snapshot = {} THEN Fresh ELSE HydrateCatalog(CHOOSE m \in snapshot : TRUE)
  /\ admitted' = Holders(catalog')
  /\ approvals' = {e \in approvals : e[2] <= catalog'.review[e[1]].edition}
  /\ UNCHANGED <<bootstrap, snapshot, drawn, barred, dead, saveFaults>>

-----------------------------------------------------------------------------

CatalogInit ==
  /\ bootstrap \in BOOLEAN
  /\ catalog = Fresh /\ snapshot = {}
  /\ admitted = Holders(Fresh)
  /\ drawn = BootKey
  /\ approvals = Bootstrapped \X {0}
  /\ barred = {} /\ dead = {}
  /\ saveFaults = 0 /\ restarts = 0

Submission(s, a, p, owner) ==
  \/ \E c \in Accounts, moved \in BOOLEAN : SubmitSubagent(c, s, a, p, owner, moved)
  \/ RegisterSeller(s, a, p, owner)

Moderation(c) ==
  \/ \E s \in Sellers :
       ApproveSeller(c, s) \/ RejectSeller(c, s) \/ DisableSeller(c, s) \/ EnableSeller(c, s)
  \/ \E a \in Subagents : ApproveSubagent(c, a) \/ RejectSubagent(c, a)
                            \/ DisableSubagent(c, a) \/ EnableSubagent(c, a)

KeyCare(c) ==
  \/ \E u \in Users : RotateBuyerKey(c, u) \/ GrantAdminRole(c, u)
  \/ \E s \in Sellers : RotateSellerKey(c, s)
  \/ \E k \in Keys : RevokeKey(c, k)
  \/ \E s \in Sellers, p \in Pems : \E previous \in SUBSET (Pems \ {p}) :
       RotateSigningKey(c, s, p, previous)

AnySubmission ==
  \E s \in Sellers, a \in Subagents, p \in Pems, owner \in Users \cup {Nobody} :
    Submission(s, a, p, owner)

\* Two parts of the platform's work: accounts with their keys, and reviews.
KeysNext ==
  \/ \E u \in Users : RegisterUser(u)
  \/ \E c \in Accounts : KeyCare(c)
  \/ AnySubmission \/ Restart

ModerationNext ==
  \/ \E c \in Accounts : Moderation(c)
  \/ AnySubmission \/ Restart

CatalogNext == KeysNext \/ ModerationNext

CatalogSpec == CatalogInit /\ [][CatalogNext]_catalogVars

-----------------------------------------------------------------------------
(* Properties                                                              *)

CatalogTypeOK ==
  /\ bootstrap \in BOOLEAN
  /\ catalog \in Catalog
  /\ snapshot \subseteq Catalog /\ Cardinality(snapshot) <= 1
  /\ admitted \subseteq Accounts
  /\ drawn \in Keys
  /\ approvals \subseteq Reviewed \X (0..MaxSubmissions)
  /\ barred \subseteq Reviewed
  /\ dead \subseteq Keys
  /\ saveFaults \in 0..MaxSaveFaults /\ restarts \in 0..MaxRestarts

States == {catalog} \cup snapshot

\* What the catalog shows, now or after a restart, an operator has approved as it stands: this
\* submission of the subagent, and the seller with this key and these contacts.  And an
\* operator who was told that either is disabled or rejected has let it in again.
\* (resolveCatalogVisibility, submitCatalogSubagent and the eight review handlers, over failing
\* saves and restarts.)
PublicOnlyAsApproved ==
  \A m \in States, a \in Subagents : Public(m, a) =>
    \A x \in {a, m.items[a].seller} : <<x, m.review[x].edition>> \in approvals /\ x \notin barred

\* A key that an operator was told is revoked or replaced opens nothing again: not by rotation
\* or resubmission, nor by a restart that draws or configures keys before it loads the
\* snapshot.  (revokeApiKey, rotateBuyerApiKey, rotateSellerApiKey, hydratePlatformState.)
RevokedStaysDead == \A m \in States, k \in dead : m.keys[k] = Unused

\* Accounts, keys and catalog agree, now and after a restart: the key an account names is the
\* account's, a buyer has no other, a seller's key covers its subagents, a subagent is listed
\* by the one seller it belongs to, and its results are checked with a key the seller has
\* declared valid.  (submitCatalogSubagent against the rotations and revokeApiKey.)
BuyerAgrees(m, u) == {k \in Keys : m.keys[k].who = u} = {m.users[u].key} \ {NoKey}
SellerAgrees(m, s) ==
  LET x == m.sellers[s] IN
  /\ x.key # NoKey => m.keys[x.key] = [who |-> s, ids |-> x.ids]
  /\ x.ids = {a \in Subagents : m.items[a].seller = s}
  /\ \A a \in x.ids : m.items[a].pem \in x.pems
AccountsAgree ==
  \A m \in States :
    (\A u \in Users : BuyerAgrees(m, u)) /\ (\A s \in Sellers : SellerAgrees(m, s))
=============================================================================
