--------------------------- MODULE CatalogProofs ---------------------------
(***************************************************************************)
(* PlatformCatalog for any number of users, sellers, subagents, keys,      *)
(* failing saves and restarts: its types; that what is public is as an     *)
(* operator approved it; that a revoked key stays dead; and that accounts, *)
(* keys and catalog agree.                                                 *)
(***************************************************************************)
EXTENDS PlatformCatalog, FiniteSetTheorems, TLAPS

\* Keys above the last one drawn are nobody's, and nobody unknown has one.
KeysUpTo(m, top) == \A k \in Keys : k > top => m.keys[k] = Unused
Blank(m) ==
  /\ \A u \in Users : ~m.users[u].known => m.users[u].key = NoKey
  /\ \A s \in Sellers : ~m.sellers[s].known => m.sellers[s].key = NoKey

AgreeOn(m) == (\A u \in Users : BuyerAgrees(m, u)) /\ (\A s \in Sellers : SellerAgrees(m, s))

CatalogOK(m, top) == m \in Catalog /\ KeysUpTo(m, top) /\ Blank(m) /\ AgreeOn(m)

\* What is approved was approved as it stands, what is shut is not shown.
ApprovedOK(m, ok) ==
  \A x \in Reviewed : m.review[x].verdict = "approved" => <<x, m.review[x].edition>> \in ok
ShutOK(m, shut) == \A x \in Reviewed : Routable(m, x) => x \notin shut

DeadOK(m, gone) == \A k \in gone : m.keys[k] = Unused

MemoryOK(m) ==
  CatalogOK(m, drawn) /\ ApprovedOK(m, approvals) /\ ShutOK(m, barred) /\ DeadOK(m, dead)

CatalogInv ==
  /\ bootstrap \in BOOLEAN
  /\ snapshot = {} \/ \E m : snapshot = {m}
  /\ \A m \in States : MemoryOK(m)
  /\ snapshot = {} => barred = {} /\ dead = {}
  /\ admitted \subseteq Accounts /\ drawn \in Keys /\ drawn >= BootKey
  /\ approvals \subseteq Reviewed \X (0..MaxSubmissions)
  /\ Bootstrapped \X {0} \subseteq approvals
  /\ barred \subseteq Reviewed /\ dead \subseteq 1..drawn
  /\ saveFaults \in 0..MaxSaveFaults /\ restarts \in 0..MaxRestarts

-----------------------------------------------------------------------------
(* What the operators do                                                   *)

\* The constants, with what the definitions make of them.
LEMMA CatalogConstants ==
  /\ MaxKeys \in Nat /\ MaxKeys >= 2 /\ MaxSubmissions \in Nat /\ MaxSaveFaults \in Nat
  /\ MaxRestarts \in Nat /\ AdminKey \in Keys /\ BootKey \in Keys /\ NoKey \notin Keys
  /\ Nobody \notin Accounts /\ Users \cap Sellers = {} /\ Sellers \cap Subagents = {}
  /\ Nobody \notin Users /\ Nobody \notin Sellers /\ Admin \notin Users /\ Admin \notin Sellers
  /\ BootSeller \in Sellers /\ BootSubagent \in Subagents /\ BootPem \in Pems
<1>1. Nobody # Admin
  BY DEF Nobody, Admin
<1> QED
  BY <1>1, CatalogAssumption DEF Keys, AdminKey, BootKey, NoKey, Accounts

\* A record of the catalog, field by field.
LEMMA CatalogFields ==
  ASSUME NEW m \in Catalog
  PROVE  /\ m.keys \in [Keys -> KeyRecord] /\ m.users \in [Users -> User]
         /\ m.sellers \in [Sellers -> Seller] /\ m.items \in [Subagents -> Item]
         /\ m.review \in [Reviewed -> Review]
  BY DEF Catalog

\* A key record nobody uses.
LEMMA UnusedFacts == Unused \in KeyRecord /\ Unused.who = Nobody /\ Unused.ids = {}
  BY DEF Unused, KeyRecord

\* Without its key an account is the same account.
LEMMA UserWithout ==
  ASSUME NEW x \in User, NEW k \in {NoKey} \cup Keys
  PROVE  /\ [x EXCEPT !.key = k] \in User /\ [x EXCEPT !.key = k].key = k
         /\ [x EXCEPT !.key = k].known = x.known
  BY DEF User

\* Replacing the key of a seller changes nothing else of it.
LEMMA SellerWithout ==
  ASSUME NEW x \in Seller, NEW k \in {NoKey} \cup Keys
  PROVE  /\ [x EXCEPT !.key = k] \in Seller /\ [x EXCEPT !.key = k].key = k
         /\ [x EXCEPT !.key = k].known = x.known /\ [x EXCEPT !.key = k].ids = x.ids
         /\ [x EXCEPT !.key = k].pems = x.pems
<1>1. [x EXCEPT !.key = k] \in Seller
  BY DEF Seller
<1> QED
  BY <1>1 DEF Seller

\* Revoking a key: its record goes, and no account names it.
LEMMA ForgetFacts ==
  ASSUME NEW m \in Catalog, NEW k \in Keys
  PROVE  /\ ForgetKey(m, k) \in Catalog
         /\ ForgetKey(m, k).items = m.items /\ ForgetKey(m, k).review = m.review
         /\ \A j \in Keys : ForgetKey(m, k).keys[j] = IF j = k THEN Unused ELSE m.keys[j]
         /\ \A u \in Users :
              /\ ForgetKey(m, k).users[u].known = m.users[u].known
              /\ ForgetKey(m, k).users[u].key = IF m.users[u].key = k THEN NoKey ELSE m.users[u].key
         /\ \A s \in Sellers :
              /\ ForgetKey(m, k).sellers[s].known = m.sellers[s].known
              /\ ForgetKey(m, k).sellers[s].ids = m.sellers[s].ids
              /\ ForgetKey(m, k).sellers[s].pems = m.sellers[s].pems
              /\ ForgetKey(m, k).sellers[s].key =
                   IF m.sellers[s].key = k THEN NoKey ELSE m.sellers[s].key
<1> DEFINE ks == [m.keys EXCEPT ![k] = Unused]
           us == [u \in Users |-> IF m.users[u].key = k THEN [m.users[u] EXCEPT !.key = NoKey]
                                  ELSE m.users[u]]
           ss == [s \in Sellers |-> IF m.sellers[s].key = k
                                    THEN [m.sellers[s] EXCEPT !.key = NoKey] ELSE m.sellers[s]]
<1>0. k # NoKey
  BY CatalogConstants
<1>1. ForgetKey(m, k) = [m EXCEPT !.keys = ks, !.users = us, !.sellers = ss]
  BY <1>0 DEF ForgetKey, Catalog
<1>2. ks \in [Keys -> KeyRecord] /\ \A j \in Keys : ks[j] = IF j = k THEN Unused ELSE m.keys[j]
  BY CatalogFields, UnusedFacts
<1>3. us \in [Users -> User]
  BY CatalogFields, UserWithout
<1>4. \A u \in Users : /\ us[u].known = m.users[u].known
                       /\ us[u].key = IF m.users[u].key = k THEN NoKey ELSE m.users[u].key
  BY CatalogFields, UserWithout
<1>5. ss \in [Sellers -> Seller]
  BY CatalogFields, SellerWithout
<1>6. \A s \in Sellers :
        /\ ss[s].known = m.sellers[s].known /\ ss[s].ids = m.sellers[s].ids
        /\ ss[s].pems = m.sellers[s].pems
        /\ ss[s].key = IF m.sellers[s].key = k THEN NoKey ELSE m.sellers[s].key
  BY CatalogFields, SellerWithout
<1> HIDE DEF ks, us, ss
<1>7. /\ ForgetKey(m, k) \in Catalog /\ ForgetKey(m, k).keys = ks
      /\ ForgetKey(m, k).users = us /\ ForgetKey(m, k).sellers = ss
      /\ ForgetKey(m, k).items = m.items /\ ForgetKey(m, k).review = m.review
  BY <1>1, <1>2, <1>3, <1>5 DEF Catalog
<1> QED
  BY <1>2, <1>4, <1>6, <1>7

\* An account is in agreement as long as its key, its subagents and its valid keys are.
LEMMA SellerSame ==
  ASSUME NEW m, NEW g, NEW t, SellerAgrees(m, t), g.items = m.items,
         g.sellers[t].ids = m.sellers[t].ids, g.sellers[t].pems = m.sellers[t].pems,
         g.sellers[t].key # NoKey =>
           g.keys[g.sellers[t].key] = [who |-> t, ids |-> g.sellers[t].ids]
  PROVE  SellerAgrees(g, t)
<1>1. g.sellers[t].ids = {a \in Subagents : g.items[a].seller = t}
  <2>1. m.sellers[t].ids = {a \in Subagents : m.items[a].seller = t}
    BY DEF SellerAgrees
  <2> QED
    BY <2>1
<1>2. \A a \in g.sellers[t].ids : g.items[a].pem \in g.sellers[t].pems
  BY DEF SellerAgrees
<1> QED
  BY <1>1, <1>2 DEF SellerAgrees

\* The record of the key a seller has.
LEMMA SellerKey ==
  ASSUME NEW m, NEW t, SellerAgrees(m, t), m.sellers[t].key # NoKey
  PROVE  m.keys[m.sellers[t].key] = [who |-> t, ids |-> m.sellers[t].ids]
  BY Zenon DEF SellerAgrees

\* Forgetting a key keeps accounts, keys and entries in agreement.
LEMMA ForgetOK ==
  ASSUME NEW m, NEW top, CatalogOK(m, top), NEW k \in Keys
  PROVE  CatalogOK(ForgetKey(m, k), top)
<1> DEFINE f == ForgetKey(m, k)
<1>0. m \in Catalog
  BY DEF CatalogOK
<1>1. /\ f \in Catalog
      /\ f.items = m.items
      /\ \A j \in Keys : f.keys[j] = IF j = k THEN Unused ELSE m.keys[j]
      /\ \A u \in Users : /\ f.users[u].known = m.users[u].known
                          /\ f.users[u].key = IF m.users[u].key = k THEN NoKey ELSE m.users[u].key
      /\ \A s \in Sellers :
           /\ f.sellers[s].known = m.sellers[s].known /\ f.sellers[s].ids = m.sellers[s].ids
           /\ f.sellers[s].pems = m.sellers[s].pems
           /\ f.sellers[s].key = IF m.sellers[s].key = k THEN NoKey ELSE m.sellers[s].key
  BY <1>0, ForgetFacts
<1> HIDE DEF f
<1>2. KeysUpTo(f, top)
  BY <1>1 DEF CatalogOK, KeysUpTo
<1>3. Blank(f)
  BY <1>1 DEF CatalogOK, Blank
<1>4. ASSUME NEW u \in Users PROVE BuyerAgrees(f, u)
  <2>1. BuyerAgrees(m, u)
    BY DEF CatalogOK, AgreeOn
  <2>2. \A j \in Keys : f.keys[j].who = u <=> j # k /\ m.keys[j].who = u
    BY <1>1, UnusedFacts, CatalogConstants
  <2> QED
    BY <1>1, <2>1, <2>2 DEF BuyerAgrees
<1>5. ASSUME NEW s \in Sellers PROVE SellerAgrees(f, s)
  <2>1. SellerAgrees(m, s)
    BY DEF CatalogOK, AgreeOn
  <2>2. m.sellers[s].key \in {NoKey} \cup Keys
    BY <1>0, CatalogFields DEF Seller
  <2>3. ASSUME f.sellers[s].key # NoKey
        PROVE  f.keys[f.sellers[s].key] = [who |-> s, ids |-> f.sellers[s].ids]
    <3>1. f.sellers[s].key = m.sellers[s].key /\ m.sellers[s].key \in Keys \ {k}
      BY <1>1, <2>2, <2>3
    <3>2. m.keys[m.sellers[s].key] = [who |-> s, ids |-> m.sellers[s].ids]
      BY <2>1, <2>3, <3>1, SellerKey
    <3> QED
      BY <1>1, <3>1, <3>2
  <2> QED
    BY <1>1, <2>1, <2>3, SellerSame
<1> QED
  BY <1>1, <1>2, <1>3, <1>4, <1>5 DEF CatalogOK, AgreeOn, f

\* A user without a key is given a new one.
UserGiven(m, u, x, n) ==
  [m EXCEPT !.users = [m.users EXCEPT ![u] = x],
            !.keys = [m.keys EXCEPT ![n] = [who |-> u, ids |-> {}]]]

\* So does giving a fresh key to a user who has none.
LEMMA GiveUserKey ==
  ASSUME NEW m, NEW top \in Nat, CatalogOK(m, top), NEW u \in Users, m.users[u].key = NoKey,
         NEW n \in Keys, n > top, NEW x \in User, x.key = n, x.known,
         NEW g, g = UserGiven(m, u, x, n)
  PROVE  /\ CatalogOK(g, n) /\ g.review = m.review
         /\ \A k \in Keys : k # n => g.keys[k] = m.keys[k]
<1> DEFINE new == [who |-> u, ids |-> {}]
<1>0. m \in Catalog /\ \A k \in Keys : k \in Nat
  BY DEF CatalogOK, Keys
<1>1. new \in KeyRecord /\ new.who = u
  BY DEF KeyRecord, Accounts
<1> HIDE DEF new
<1>2. /\ g \in Catalog /\ g.items = m.items /\ g.review = m.review /\ g.sellers = m.sellers
      /\ g.users = [m.users EXCEPT ![u] = x] /\ g.keys = [m.keys EXCEPT ![n] = new]
  BY <1>0, <1>1 DEF Catalog, new, UserGiven
<1>3. /\ \A k \in Keys : g.keys[k] = IF k = n THEN new ELSE m.keys[k]
      /\ \A v \in Users : g.users[v] = IF v = u THEN x ELSE m.users[v]
  <2>1. m.keys \in [Keys -> KeyRecord] /\ m.users \in [Users -> User]
    BY <1>0, CatalogFields
  <2> QED
    BY <1>2, <2>1
<1>4. m.keys[n] = Unused
  BY DEF CatalogOK, KeysUpTo
<1>5. KeysUpTo(g, n)
  BY <1>0, <1>3 DEF CatalogOK, KeysUpTo
<1>6. Blank(g)
  BY <1>2, <1>3 DEF CatalogOK, Blank
<1>7. ASSUME NEW v \in Users PROVE BuyerAgrees(g, v)
  <2>1. BuyerAgrees(m, v)
    BY DEF CatalogOK, AgreeOn
  <2>2. \A k \in Keys : g.keys[k].who = v <=> (m.keys[k].who = v \/ (k = n /\ v = u))
    BY <1>1, <1>3, <1>4, UnusedFacts, CatalogConstants
  <2>3. n # NoKey
    BY CatalogConstants
  <2> QED
    BY <1>3, <2>1, <2>2, <2>3 DEF BuyerAgrees
<1>8. ASSUME NEW s \in Sellers PROVE SellerAgrees(g, s)
  <2>1. SellerAgrees(m, s)
    BY DEF CatalogOK, AgreeOn
  <2>2. m.sellers[s].key # NoKey => m.sellers[s].key \in Keys \ {n}
    <3>1. m.sellers[s].key \in {NoKey} \cup Keys
      BY <1>0, CatalogFields DEF Seller
    <3> QED
      BY <1>4, <2>1, <3>1, UnusedFacts, CatalogConstants DEF SellerAgrees
  <2>3. ASSUME g.sellers[s].key # NoKey
        PROVE  g.keys[g.sellers[s].key] = [who |-> s, ids |-> g.sellers[s].ids]
    <3>1. m.keys[m.sellers[s].key] = [who |-> s, ids |-> m.sellers[s].ids]
      BY <1>2, <2>1, <2>3, SellerKey
    <3> QED
      BY <1>2, <1>3, <2>2, <2>3, <3>1
  <2> QED
    BY <1>2, <2>1, <2>3, SellerSame
<1> QED
  BY <1>2, <1>3, <1>5, <1>6, <1>7, <1>8 DEF CatalogOK, AgreeOn

\* So is a seller; the key covers its subagents.
SellerGiven(m, s, n) ==
  [m EXCEPT !.sellers = [m.sellers EXCEPT ![s] = [m.sellers[s] EXCEPT !.key = n]],
            !.keys = [m.keys EXCEPT ![n] = [who |-> s, ids |-> m.sellers[s].ids]]]

\* So does giving one to a seller who has none.
LEMMA GiveSellerKey ==
  ASSUME NEW m, NEW top \in Nat, CatalogOK(m, top), NEW s \in Sellers, m.sellers[s].key = NoKey,
         m.sellers[s].known, NEW n \in Keys, n > top,
         NEW g, g = SellerGiven(m, s, n)
  PROVE  /\ CatalogOK(g, n) /\ g.review = m.review
         /\ \A k \in Keys : k # n => g.keys[k] = m.keys[k]
<1> DEFINE new == [who |-> s, ids |-> m.sellers[s].ids]
           x == [m.sellers[s] EXCEPT !.key = n]
<1>0. m \in Catalog /\ \A k \in Keys : k \in Nat
  BY DEF CatalogOK, Keys
<1>1. new \in KeyRecord /\ new.who = s /\ new.ids = m.sellers[s].ids
  BY <1>0, CatalogFields DEF KeyRecord, Accounts, Seller
<1>2. /\ x \in Seller /\ x.key = n /\ x.known /\ x.ids = m.sellers[s].ids
      /\ x.pems = m.sellers[s].pems
  BY <1>0, CatalogFields, SellerWithout
<1>3. g = [m EXCEPT !.sellers = [m.sellers EXCEPT ![s] = x], !.keys = [m.keys EXCEPT ![n] = new]]
  BY DEF SellerGiven
<1> HIDE DEF new, x
<1>4. /\ g \in Catalog /\ g.items = m.items /\ g.review = m.review /\ g.users = m.users
      /\ g.sellers = [m.sellers EXCEPT ![s] = x] /\ g.keys = [m.keys EXCEPT ![n] = new]
  <2> DEFINE ss == [m.sellers EXCEPT ![s] = x]
             ks == [m.keys EXCEPT ![n] = new]
  <2>1. ss \in [Sellers -> Seller] /\ ks \in [Keys -> KeyRecord]
    BY <1>0, <1>1, <1>2, CatalogFields
  <2>2. g = [m EXCEPT !.sellers = ss, !.keys = ks]
    BY <1>3
  <2> HIDE DEF ss, ks
  <2>3. /\ g \in Catalog /\ g.items = m.items /\ g.review = m.review /\ g.users = m.users
        /\ g.sellers = ss /\ g.keys = ks
    BY <1>0, <2>1, <2>2 DEF Catalog
  <2> QED
    BY <2>3 DEF ss, ks
<1>5. /\ \A k \in Keys : g.keys[k] = IF k = n THEN new ELSE m.keys[k]
      /\ \A t \in Sellers : g.sellers[t] = IF t = s THEN x ELSE m.sellers[t]
  BY <1>0, <1>4, CatalogFields
<1>6. m.keys[n] = Unused
  BY DEF CatalogOK, KeysUpTo
<1>7. KeysUpTo(g, n)
  BY <1>0, <1>5 DEF CatalogOK, KeysUpTo
<1>8. Blank(g)
  BY <1>2, <1>4, <1>5 DEF CatalogOK, Blank
<1>9. ASSUME NEW u \in Users PROVE BuyerAgrees(g, u)
  <2>1. BuyerAgrees(m, u)
    BY DEF CatalogOK, AgreeOn
  <2>2. \A k \in Keys : g.keys[k].who = u <=> m.keys[k].who = u
    BY <1>1, <1>5, <1>6, UnusedFacts, CatalogConstants
  <2> QED
    BY <1>4, <2>1, <2>2 DEF BuyerAgrees
<1>10. ASSUME NEW t \in Sellers PROVE SellerAgrees(g, t)
  <2>1. SellerAgrees(m, t)
    BY DEF CatalogOK, AgreeOn
  <2>2. m.sellers[t].key # NoKey => m.sellers[t].key \in Keys \ {n}
    <3>1. m.sellers[t].key \in {NoKey} \cup Keys
      BY <1>0, CatalogFields DEF Seller
    <3> QED
      BY <1>6, <2>1, <3>1, UnusedFacts, CatalogConstants DEF SellerAgrees
  <2>3. new = [who |-> s, ids |-> x.ids]
    BY <1>2 DEF new
  <2>4. CASE t = s
    <3>1. g.sellers[t] = x /\ g.keys[x.key] = [who |-> t, ids |-> x.ids]
      BY <1>2, <1>5, <2>3, <2>4
    <3>2. g.sellers[t].ids = m.sellers[t].ids /\ g.sellers[t].pems = m.sellers[t].pems
      BY <1>2, <2>4, <3>1
    <3>3. g.keys[g.sellers[t].key] = [who |-> t, ids |-> g.sellers[t].ids]
      BY <3>1
    <3> QED
      BY <1>4, <2>1, <3>2, <3>3, SellerSame
  <2>5. CASE t # s
    <3>1. g.sellers[t] = m.sellers[t]
      BY <1>5, <2>5
    <3>2. g.sellers[t].key # NoKey => g.keys[g.sellers[t].key] = [who |-> t, ids |-> g.sellers[t].ids]
      BY <1>5, <2>1, <2>2, <3>1 DEF SellerAgrees
    <3> QED
      BY <1>4, <2>1, <3>1, <3>2, SellerSame
  <2> QED
    BY <2>4, <2>5
<1> QED
  BY <1>4, <1>5, <1>7, <1>8, <1>9, <1>10 DEF CatalogOK, AgreeOn

\* A new signing key of a seller is its subagents' too.
LEMMA SignOK ==
  ASSUME NEW m, NEW top, CatalogOK(m, top), NEW s \in Sellers, NEW p \in Pems,
         NEW valid \in SUBSET Pems, p \in valid
  PROVE  /\ CatalogOK(SignWith(m, s, p, valid), top)
         /\ SignWith(m, s, p, valid).review = m.review /\ SignWith(m, s, p, valid).keys = m.keys
<1> DEFINE g == SignWith(m, s, p, valid)
           x == [m.sellers[s] EXCEPT !.pem = p, !.pems = valid]
           ss == [m.sellers EXCEPT ![s] = x]
           is == [a \in Subagents |-> IF m.items[a].seller = s
                                      THEN [m.items[a] EXCEPT !.pem = p, !.pems = valid]
                                      ELSE m.items[a]]
<1>0. /\ m \in Catalog /\ m.sellers \in [Sellers -> Seller] /\ m.items \in [Subagents -> Item]
      /\ m.keys \in [Keys -> KeyRecord]
  BY CatalogFields DEF CatalogOK
<1>1. /\ x \in Seller /\ x.known = m.sellers[s].known /\ x.key = m.sellers[s].key
      /\ x.ids = m.sellers[s].ids /\ x.pems = valid
  BY <1>0 DEF Seller
<1>2. is \in [Subagents -> Item]
  BY <1>0 DEF Item
<1>3. \A a \in Subagents :
        /\ is[a].seller = m.items[a].seller
        /\ is[a].pem = IF m.items[a].seller = s THEN p ELSE m.items[a].pem
  BY <1>0 DEF Item
<1>4. g = [m EXCEPT !.sellers = ss, !.items = is]
  BY <1>0 DEF SignWith, SignWithSeller, Catalog, Seller
<1> HIDE DEF x, is
<1>5. ss \in [Sellers -> Seller] /\ \A t \in Sellers : ss[t] = IF t = s THEN x ELSE m.sellers[t]
  BY <1>0, <1>1
<1> HIDE DEF ss
<1>6. /\ g \in Catalog /\ g.users = m.users /\ g.keys = m.keys /\ g.review = m.review
      /\ g.sellers = ss /\ g.items = is
  BY <1>0, <1>2, <1>4, <1>5 DEF Catalog
<1> HIDE DEF g
<1>7. KeysUpTo(g, top) /\ Blank(g)
  BY <1>1, <1>5, <1>6 DEF CatalogOK, KeysUpTo, Blank
<1>8. ASSUME NEW u \in Users PROVE BuyerAgrees(g, u)
  BY <1>6 DEF CatalogOK, AgreeOn, BuyerAgrees
<1>9. ASSUME NEW t \in Sellers PROVE SellerAgrees(g, t)
  <2>1. SellerAgrees(m, t)
    BY DEF CatalogOK, AgreeOn
  <2>2. m.sellers[t].ids = {a \in Subagents : m.items[a].seller = t}
        /\ \A a \in m.sellers[t].ids : m.items[a].pem \in m.sellers[t].pems
    BY <2>1 DEF SellerAgrees
  <2>3. g.sellers[t].ids = m.sellers[t].ids /\ g.sellers[t].key = m.sellers[t].key
    BY <1>1, <1>5, <1>6
  <2>4. g.sellers[t].key # NoKey => g.keys[g.sellers[t].key] = [who |-> t, ids |-> g.sellers[t].ids]
    BY <1>6, <2>1, <2>3, SellerKey
  <2>5. g.sellers[t].ids = {a \in Subagents : g.items[a].seller = t}
    BY <1>3, <1>6, <2>2, <2>3
  <2>6. \A a \in g.sellers[t].ids : g.items[a].pem \in g.sellers[t].pems
    BY <1>1, <1>3, <1>5, <1>6, <2>2, <2>3
  <2> QED
    BY <2>4, <2>5, <2>6 DEF SellerAgrees
<1> QED
  BY <1>6, <1>7, <1>8, <1>9 DEF CatalogOK, AgreeOn, g

\* A decision about one seller or subagent leaves accounts and keys alone.
LEMMA ReviewOK ==
  ASSUME NEW m, NEW top, CatalogOK(m, top), NEW r \in [Reviewed -> Review],
         NEW g, g = [m EXCEPT !.review = r]
  PROVE  CatalogOK(g, top) /\ g.review = r /\ g.keys = m.keys
<1>1. /\ g \in Catalog /\ g.users = m.users /\ g.keys = m.keys /\ g.review = r
      /\ g.sellers = m.sellers /\ g.items = m.items
  BY DEF CatalogOK, Catalog
<1> QED
  BY <1>1 DEF CatalogOK, KeysUpTo, Blank, AgreeOn, BuyerAgrees, SellerAgrees

\* A submission.
LEMMA SubmittedOK ==
  ASSUME CatalogOK(catalog, drawn), drawn \in Keys, NEW s \in Sellers, NEW a \in Subagents,
         NEW p \in Pems, NEW owner \in Users \cup {Nobody}, NEW moved \in BOOLEAN,
         catalog.items[a].seller \in {Nobody, s}, KeyOf(s) \in Keys,
         NEW m, m = Submitted(s, a, p, owner, moved),
         \A x \in {s, a} : m.review[x].edition <= MaxSubmissions,
         NEW top, top = IF KeyOf(s) > drawn THEN KeyOf(s) ELSE drawn
  PROVE  /\ CatalogOK(m, top) /\ top \in Keys /\ top >= drawn
         /\ \A k \in Keys : k # KeyOf(s) => m.keys[k] = catalog.keys[k]
         /\ \A x \in Reviewed :
              m.review[x] = catalog.review[x] \/ m.review[x] = BackToReview(catalog.review[x])
<1> DEFINE c == catalog
           x == catalog.sellers[s]
           y == SubmittedSeller(s, a, p, owner)
           n == KeyOf(s)
           new == [who |-> s, ids |-> y.ids]
           item == [seller |-> s, pem |-> p, pems |-> y.pems]
           changed == ~x.known \/ moved \/ x.pem # p
           ss == [catalog.sellers EXCEPT ![s] = y]
           ks == [catalog.keys EXCEPT ![n] = new]
           is == [catalog.items EXCEPT ![a] = item]
           rs == [catalog.review EXCEPT ![a] = BackToReview(@),
                                        ![s] = IF changed THEN BackToReview(@) ELSE @]
<1>0. /\ c \in Catalog /\ c.sellers \in [Sellers -> Seller] /\ c.items \in [Subagents -> Item]
      /\ c.keys \in [Keys -> KeyRecord] /\ c.review \in [Reviewed -> Review]
      /\ x \in Seller /\ x.key \in {NoKey} \cup Keys
  <2>1. c \in Catalog
    BY DEF CatalogOK
  <2>2. c.sellers \in [Sellers -> Seller]
    BY <2>1, CatalogFields
  <2>3. x \in Seller /\ x.key \in {NoKey} \cup Keys
    BY <2>2 DEF Seller
  <2> QED
    BY <2>1, <2>2, <2>3, CatalogFields
<1>1. drawn \in Nat /\ \A k \in Keys : k \in Nat /\ k > 0
  BY DEF Keys
<1>2. /\ x.key = NoKey => n = NewKey
      /\ x.key # NoKey => n = x.key /\ c.keys[n] = [who |-> s, ids |-> x.ids]
      /\ ~x.known => x.key = NoKey
  <2>1. ~x.known => x.key = NoKey
    BY DEF CatalogOK, Blank
  <2>2. SellerAgrees(c, s)
    BY DEF CatalogOK, AgreeOn
  <2> QED
    BY <2>1, <2>2, SellerKey DEF KeyOf
<1>u. \A k \in Keys : k > drawn => c.keys[k] = Unused
  BY DEF CatalogOK, KeysUpTo
<1>3. n \in Keys /\ (n <= drawn \/ n = NewKey)
  <2>1. CASE x.key = NoKey
    BY <1>2, <2>1
  <2>2. CASE x.key # NoKey
    <3>1. c.keys[n].who = s
      BY <1>2, <2>2
    <3>2. c.keys[n] # Unused
      BY <3>1, UnusedFacts, CatalogConstants
    <3> QED
      <4>1. ~(n > drawn)
        BY <1>u, <3>2
      <4>2. n \in Keys /\ n \in Nat
        BY <1>1
      <4> HIDE DEF n
      <4> QED
        BY <1>1, <4>1, <4>2
  <2> QED
    BY <2>1, <2>2
<1>4. /\ y \in Seller /\ y.known /\ y.ids = x.ids \cup {a} /\ y.pems = x.pems \cup {p}
      /\ y.key = IF x.known THEN x.key ELSE NewKey
  <2>1. ~x.known => NewKey \in Keys
    BY <1>2
  <2> QED
    BY <1>0, <2>1 DEF SubmittedSeller, Seller
<1>5. /\ new \in KeyRecord /\ new.who = s /\ item \in Item /\ item.seller = s
      /\ item.pem = p
  BY <1>4 DEF KeyRecord, Accounts, Item, Seller
<1>6. m = [catalog EXCEPT !.sellers = ss, !.keys = ks, !.items = is, !.review = rs]
  BY <1>0 DEF Submitted, Catalog
<1>7. a \in Reviewed /\ s \in Reviewed /\ a # s
  BY CatalogConstants DEF Reviewed
<1>8. \A z \in Reviewed : rs[z] = IF z = a THEN BackToReview(c.review[z])
                                 ELSE IF z = s /\ changed THEN BackToReview(c.review[z])
                                 ELSE c.review[z]
  BY <1>0, <1>7
<1> HIDE DEF y, new, item, changed, n
<1>9. /\ ss \in [Sellers -> Seller] /\ \A t \in Sellers : ss[t] = IF t = s THEN y ELSE c.sellers[t]
      /\ ks \in [Keys -> KeyRecord] /\ \A k \in Keys : ks[k] = IF k = n THEN new ELSE c.keys[k]
      /\ is \in [Subagents -> Item] /\ \A b \in Subagents : is[b] = IF b = a THEN item ELSE c.items[b]
  <2>1. n \in Keys
    BY DEF n
  <2> QED
    BY <1>0, <1>4, <1>5, <2>1
<1>10. rs \in [Reviewed -> Review]
  <2>1. DOMAIN rs = Reviewed /\ rs = [z \in Reviewed |-> rs[z]]
    BY <1>0
  <2>2. m.review = rs
    BY <1>0, <1>6 DEF Catalog
  <2>3. ASSUME NEW z \in Reviewed, rs[z] = BackToReview(c.review[z]),
               rs[z].edition <= MaxSubmissions
        PROVE  rs[z] \in Review
    <3>1. c.review[z].edition \in 0..MaxSubmissions
      BY <1>0 DEF Review
    <3>2. rs[z] = [verdict |-> "pending", enabled |-> FALSE, edition |-> c.review[z].edition + 1]
      BY <2>3 DEF BackToReview
    <3> DEFINE e == c.review[z].edition + 1
    <3>3. e \in 0..MaxSubmissions
      BY <2>3, <3>1, <3>2, CatalogConstants
    <3> HIDE DEF e
    <3> QED
      <4>1. rs[z] = [verdict |-> "pending", enabled |-> FALSE, edition |-> e]
        BY <3>2 DEF e
      <4>2. [verdict |-> "pending", enabled |-> FALSE, edition |-> e] \in Review
        BY <3>3 DEF Review
      <4> QED
        BY <4>1, <4>2
  <2>4. ASSUME NEW z \in Reviewed PROVE rs[z] \in Review
    BY <1>0, <1>7, <1>8, <2>2, <2>3
  <2> HIDE DEF rs
  <2> QED
    BY <2>1, <2>4
<1> HIDE DEF ss, ks, is, rs
<1>11. /\ m \in Catalog /\ m.users = c.users /\ m.sellers = ss /\ m.keys = ks /\ m.items = is
       /\ m.review = rs
  BY <1>0, <1>6, <1>9, <1>10 DEF Catalog
<1>12. top \in Keys /\ top >= drawn /\ top >= n
  <2>1. top = IF n > drawn THEN n ELSE drawn
    BY DEF n
  <2> QED
    BY <1>1, <1>3, <2>1
<1>13. KeysUpTo(m, top)
  BY <1>1, <1>9, <1>11, <1>12 DEF CatalogOK, KeysUpTo
<1>14. Blank(m)
  BY <1>4, <1>9, <1>11 DEF CatalogOK, Blank
\* The key of the seller was the seller's or nobody's.
<1>15. c.keys[n] = Unused \/ (c.keys[n].who = s /\ n = x.key)
  <2>1. CASE x.key = NoKey
    BY <1>1, <1>2, <1>3, <1>u, <2>1 DEF NewKey
  <2>2. CASE x.key # NoKey
    BY <1>2, <2>2
  <2> QED
    BY <2>1, <2>2
<1>16. ASSUME NEW u \in Users PROVE BuyerAgrees(m, u)
  <2>1. BuyerAgrees(c, u)
    BY DEF CatalogOK, AgreeOn
  <2>2. u # s /\ u # Nobody
    BY CatalogConstants
  <2>3. \A k \in Keys : m.keys[k].who = u <=> c.keys[k].who = u
    BY <1>5, <1>9, <1>11, <1>15, <2>2, UnusedFacts
  <2> QED
    BY <1>11, <2>1, <2>3 DEF BuyerAgrees
<1>17. SellerAgrees(m, s)
  <2>1. SellerAgrees(c, s)
    BY DEF CatalogOK, AgreeOn
  <2>2. x.ids = {b \in Subagents : c.items[b].seller = s}
        /\ \A b \in x.ids : c.items[b].pem \in x.pems
    BY <2>1 DEF SellerAgrees
  <2>3. m.sellers[s] = y
    BY <1>9, <1>11
  <2>4. y.key # NoKey => m.keys[y.key] = [who |-> s, ids |-> y.ids]
    <3>1. y.key # NoKey => y.key = n /\ n \in Keys
      BY <1>2, <1>4 DEF n
    <3>2. m.keys[n] = new
      BY <1>9, <1>11 DEF n
    <3> QED
      BY <3>1, <3>2 DEF new
  <2>5. y.ids = {b \in Subagents : m.items[b].seller = s}
    BY <1>4, <1>5, <1>9, <1>11, <2>2
  <2>6. \A b \in y.ids : m.items[b].pem \in y.pems
    BY <1>4, <1>5, <1>9, <1>11, <2>2
  <2> QED
    BY <2>3, <2>4, <2>5, <2>6 DEF SellerAgrees
<1>18. ASSUME NEW t \in Sellers, t # s PROVE SellerAgrees(m, t)
  <2>1. SellerAgrees(c, t)
    BY DEF CatalogOK, AgreeOn
  <2>2. c.sellers[t].ids = {b \in Subagents : c.items[b].seller = t}
        /\ \A b \in c.sellers[t].ids : c.items[b].pem \in c.sellers[t].pems
    BY <2>1 DEF SellerAgrees
  <2>3. m.sellers[t] = c.sellers[t] /\ t # Nobody
    BY <1>9, <1>11, <1>18, CatalogConstants
  <2>4. ASSUME c.sellers[t].key # NoKey
        PROVE  m.keys[c.sellers[t].key] = [who |-> t, ids |-> c.sellers[t].ids]
    <3>1. c.keys[c.sellers[t].key] = [who |-> t, ids |-> c.sellers[t].ids]
      BY <2>1, <2>4, SellerKey
    <3>2. c.sellers[t].key \in Keys
      BY <1>0, <2>4 DEF Seller
    <3>3. c.sellers[t].key # n
      BY <1>15, <1>18, <2>3, <3>1, UnusedFacts
    <3> QED
      BY <1>9, <1>11, <3>1, <3>2, <3>3
  <2>5. c.sellers[t].ids = {b \in Subagents : m.items[b].seller = t}
    BY <1>5, <1>9, <1>11, <1>18, <2>2, <2>3
  <2>6. \A b \in c.sellers[t].ids : m.items[b].pem \in c.sellers[t].pems
    BY <1>9, <1>11, <1>18, <2>2, <2>3
  <2> QED
    BY <2>3, <2>4, <2>5, <2>6 DEF SellerAgrees
<1>19. CatalogOK(m, top)
  BY <1>11, <1>13, <1>14, <1>16, <1>17, <1>18 DEF CatalogOK, AgreeOn
<1> QED
  BY <1>8, <1>9, <1>11, <1>12, <1>19 DEF n

\* The roles of a user are nobody else's business.
LEMMA AdminOK ==
  ASSUME NEW m, NEW top, CatalogOK(m, top), NEW u \in Users
  PROVE  /\ CatalogOK(AdminAdded(m, u), top)
         /\ AdminAdded(m, u).review = m.review /\ AdminAdded(m, u).keys = m.keys
<1> DEFINE g == AdminAdded(m, u)
           x == [m.users[u] EXCEPT !.admin = TRUE]
           us == [m.users EXCEPT ![u] = x]
<1>0. m \in Catalog /\ m.users \in [Users -> User]
  BY CatalogFields DEF CatalogOK
<1>1. x \in User /\ x.known = m.users[u].known /\ x.key = m.users[u].key
  BY <1>0 DEF User
<1>2. g = [m EXCEPT !.users = us]
  BY <1>0 DEF AdminAdded, Catalog
<1> HIDE DEF x
<1>3. us \in [Users -> User] /\ \A v \in Users : us[v] = IF v = u THEN x ELSE m.users[v]
  BY <1>0, <1>1
<1> HIDE DEF us
<1>4. /\ g \in Catalog /\ g.users = us /\ g.keys = m.keys /\ g.review = m.review
      /\ g.sellers = m.sellers /\ g.items = m.items
  BY <1>0, <1>2, <1>3 DEF Catalog
<1> HIDE DEF g
<1>5. KeysUpTo(g, top) /\ Blank(g)
  BY <1>1, <1>3, <1>4 DEF CatalogOK, KeysUpTo, Blank
<1>6. ASSUME NEW v \in Users PROVE BuyerAgrees(g, v)
  BY <1>1, <1>3, <1>4 DEF CatalogOK, AgreeOn, BuyerAgrees
<1>7. ASSUME NEW t \in Sellers PROVE SellerAgrees(g, t)
  BY <1>4 DEF CatalogOK, AgreeOn, SellerAgrees
<1> QED
  BY <1>4, <1>5, <1>6, <1>7 DEF CatalogOK, AgreeOn, g

\* What a platform starts with.
LEMMA FreshOK ==
  ASSUME bootstrap \in BOOLEAN, NEW top \in Keys, top >= BootKey
  PROVE  /\ CatalogOK(Fresh, top)
         /\ \A x \in Reviewed : /\ Fresh.review[x].verdict = "approved" => x \in Bootstrapped
                                /\ Fresh.review[x].edition = 0
<1>1. \A x \in Sellers : x \in Bootstrapped <=> bootstrap /\ x = BootSeller
  BY CatalogConstants DEF Bootstrapped
<1>2. \A x \in Subagents : x \in Bootstrapped <=> bootstrap /\ x = BootSubagent
  BY CatalogConstants DEF Bootstrapped
<1>3. /\ \A k \in Keys : Fresh.keys[k] = IF k = AdminKey THEN [who |-> Admin, ids |-> {}]
                                         ELSE IF k = BootKey /\ bootstrap
                                         THEN [who |-> BootSeller, ids |-> {BootSubagent}]
                                         ELSE Unused
      /\ \A u \in Users : Fresh.users[u] = [known |-> FALSE, key |-> NoKey, admin |-> FALSE]
      /\ \A s \in Sellers : Fresh.sellers[s] =
           IF s \in Bootstrapped
           THEN [known |-> TRUE, owner |-> Nobody, key |-> BootKey, ids |-> {BootSubagent},
                 pem |-> BootPem, pems |-> {BootPem}]
           ELSE [known |-> FALSE, owner |-> Nobody, key |-> NoKey, ids |-> {},
                 pem |-> BootPem, pems |-> {}]
      /\ \A a \in Subagents : Fresh.items[a] =
           [seller |-> IF a \in Bootstrapped THEN BootSeller ELSE Nobody,
            pem |-> BootPem, pems |-> {BootPem}]
      /\ \A x \in Reviewed : Fresh.review[x] =
           IF x \in Bootstrapped
           THEN [verdict |-> "approved", enabled |-> TRUE, edition |-> 0]
           ELSE [verdict |-> "pending", enabled |-> FALSE, edition |-> 0]
  BY Zenon DEF Fresh
<1>4. Fresh \in Catalog
  <2>1. \A k \in Keys : Fresh.keys[k] \in KeyRecord
    BY <1>3, UnusedFacts, CatalogConstants DEF KeyRecord, Accounts
  <2>2. \A u \in Users : Fresh.users[u] \in User
    <3>1. [known |-> FALSE, key |-> NoKey, admin |-> FALSE] \in User
      BY DEF User
    <3> QED
      BY <1>3, <3>1, Zenon
  <2>3. \A s \in Sellers : Fresh.sellers[s] \in Seller
    <3>1. [known |-> TRUE, owner |-> Nobody, key |-> BootKey, ids |-> {BootSubagent},
           pem |-> BootPem, pems |-> {BootPem}] \in Seller
      BY CatalogConstants DEF Seller
    <3>2. [known |-> FALSE, owner |-> Nobody, key |-> NoKey, ids |-> {},
           pem |-> BootPem, pems |-> {}] \in Seller
      BY CatalogConstants DEF Seller
    <3>3. ASSUME NEW s \in Sellers PROVE Fresh.sellers[s] \in Seller
      <4>1. CASE s \in Bootstrapped
        BY <1>3, <3>1, <4>1, Zenon
      <4>2. CASE s \notin Bootstrapped
        BY <1>3, <3>2, <4>2, Zenon
      <4> QED
        BY <4>1, <4>2
    <3> QED
      BY <3>3
  <2>4. \A a \in Subagents : Fresh.items[a] \in Item
    <3>1. ASSUME NEW x \in Sellers \cup {Nobody}
          PROVE  [seller |-> x, pem |-> BootPem, pems |-> {BootPem}] \in Item
      BY CatalogConstants DEF Item
    <3>2. ASSUME NEW a \in Subagents
          PROVE  (IF a \in Bootstrapped THEN BootSeller ELSE Nobody) \in Sellers \cup {Nobody}
      BY CatalogConstants
    <3> QED
      BY <1>3, <3>1, <3>2, Zenon
  <2>5. \A x \in Reviewed : Fresh.review[x] \in Review
    <3>1. /\ [verdict |-> "approved", enabled |-> TRUE, edition |-> 0] \in Review
          /\ [verdict |-> "pending", enabled |-> FALSE, edition |-> 0] \in Review
      BY CatalogConstants DEF Review
    <3>2. ASSUME NEW x \in Reviewed PROVE Fresh.review[x] \in Review
      <4>1. CASE x \in Bootstrapped
        BY <1>3, <3>1, <4>1, Zenon
      <4>2. CASE x \notin Bootstrapped
        BY <1>3, <3>1, <4>2, Zenon
      <4> QED
        BY <4>1, <4>2
    <3> QED
      BY <3>2
  <2>6. Fresh = [keys |-> [k \in Keys |-> Fresh.keys[k]], users |-> [u \in Users |-> Fresh.users[u]],
                 sellers |-> [s \in Sellers |-> Fresh.sellers[s]],
                 items |-> [a \in Subagents |-> Fresh.items[a]],
                 review |-> [x \in Reviewed |-> Fresh.review[x]]]
    BY Zenon DEF Fresh
  <2> QED
    BY <2>1, <2>2, <2>3, <2>4, <2>5, <2>6 DEF Catalog
<1>i. \A a \in Subagents : Fresh.items[a] =
        [seller |-> IF a \in Bootstrapped THEN BootSeller ELSE Nobody,
         pem |-> BootPem, pems |-> {BootPem}]
  BY <1>3, Zenon
<1>k. bootstrap => Fresh.keys[BootKey] = [who |-> BootSeller, ids |-> {BootSubagent}]
  <2>1. BootKey # AdminKey
    BY DEF BootKey, AdminKey
  <2>2. BootKey \in Keys
    BY CatalogConstants
  <2> QED
    BY <1>3, <2>1, <2>2, Zenon
<1>5. KeysUpTo(Fresh, top)
  <2>1. AdminKey <= top /\ BootKey <= top
    BY DEF AdminKey, BootKey, Keys
  <2> QED
    BY <1>3, <2>1 DEF KeysUpTo, Keys, AdminKey, BootKey
<1>6. Blank(Fresh)
  BY <1>3 DEF Blank
<1>7. ASSUME NEW u \in Users PROVE BuyerAgrees(Fresh, u)
  <2>1. \A k \in Keys : Fresh.keys[k].who # u
    BY <1>3, UnusedFacts, CatalogConstants
  <2> QED
    BY <1>3, <2>1 DEF BuyerAgrees
<1>8. ASSUME NEW s \in Sellers PROVE SellerAgrees(Fresh, s)
  <2>i. ASSUME NEW a \in Subagents
        PROVE  /\ Fresh.items[a].seller = IF a \in Bootstrapped THEN BootSeller ELSE Nobody
               /\ Fresh.items[a].pem = BootPem
    <3> DEFINE z == IF a \in Bootstrapped THEN BootSeller ELSE Nobody
    <3>1. Fresh.items[a] = [seller |-> z, pem |-> BootPem, pems |-> {BootPem}]
      BY <1>i
    <3> HIDE DEF z
    <3>2. Fresh.items[a].seller = z /\ Fresh.items[a].pem = BootPem
      BY <3>1
    <3> QED
      BY <3>2 DEF z
  <2>1. \A a \in Subagents : Fresh.items[a].seller =
          IF a \in Bootstrapped THEN BootSeller ELSE Nobody
    BY <2>i
  <2>2. \A a \in Subagents : Fresh.items[a].pem = BootPem
    BY <2>i
  <2>3. CASE s \in Bootstrapped
    <3>1. /\ Fresh.sellers[s].key = BootKey /\ Fresh.sellers[s].ids = {BootSubagent}
          /\ Fresh.sellers[s].pems = {BootPem}
      BY <1>3, <2>3
    <3>2. Fresh.keys[BootKey] = [who |-> s, ids |-> {BootSubagent}]
      BY <1>1, <1>k, <2>3
    <3>3. {BootSubagent} = {a \in Subagents : Fresh.items[a].seller = s}
      BY <1>1, <1>2, <2>1, <2>3, CatalogConstants
    <3> QED
      BY <2>2, <3>1, <3>2, <3>3, CatalogConstants DEF SellerAgrees
  <2>4. CASE s \notin Bootstrapped
    <3>1. Fresh.sellers[s].key = NoKey /\ Fresh.sellers[s].ids = {}
      BY <1>3, <2>4
    <3>2. \A a \in Subagents : Fresh.items[a].seller # s
      BY <1>1, <1>2, <2>1, <2>4, CatalogConstants
    <3> QED
      BY <3>1, <3>2 DEF SellerAgrees
  <2> QED
    BY <2>3, <2>4
<1>9. \A x \in Reviewed : /\ Fresh.review[x].verdict = "approved" => x \in Bootstrapped
                          /\ Fresh.review[x].edition = 0
  BY <1>3
<1> QED
  BY <1>4, <1>5, <1>6, <1>7, <1>8, <1>9 DEF CatalogOK, AgreeOn

-----------------------------------------------------------------------------
(* Every step                                                              *)

\* Drawing further keys changes nothing for those in use.
LEMMA StateUpTo ==
  ASSUME NEW m, NEW top \in Nat, CatalogOK(m, top), NEW more \in Nat, more >= top
  PROVE  CatalogOK(m, more)
<1>1. \A k \in Keys : k \in Nat
  BY DEF Keys
<1>2. KeysUpTo(m, top)
  BY DEF CatalogOK
<1>3. KeysUpTo(m, more)
  BY <1>1, <1>2 DEF KeysUpTo
<1> QED
  BY <1>3 DEF CatalogOK

\* What the invariant says of the memory.
LEMMA Memory ==
  ASSUME CatalogInv
  PROVE  /\ CatalogOK(catalog, drawn) /\ catalog \in Catalog /\ ApprovedOK(catalog, approvals)
         /\ ShutOK(catalog, barred) /\ DeadOK(catalog, dead)
         /\ drawn \in Keys /\ drawn \in Nat /\ dead \subseteq 1..drawn /\ dead \subseteq Keys
         /\ barred \subseteq Reviewed
         /\ approvals \subseteq Reviewed \X (0..MaxSubmissions)
<1>1. catalog \in States
  BY DEF States
<1>2. MemoryOK(catalog)
  BY <1>1 DEF CatalogInv
<1>3. drawn \in Keys /\ drawn \in Nat /\ dead \subseteq 1..drawn
  BY DEF CatalogInv, Keys
<1>4. dead \subseteq Keys
  <2>1. \A k \in 1..drawn : k \in Nat /\ 1 <= k /\ k <= MaxKeys
    BY <1>3, CatalogConstants DEF Keys
  <2>2. \A k \in 1..drawn : k \in Keys
    BY <2>1, CatalogConstants DEF Keys
  <2> QED
    BY <1>3, <2>2
<1> QED
  BY <1>2, <1>3, <1>4 DEF MemoryOK, CatalogInv, CatalogOK

\* Whose key opens the platform has an account there.
LEMMA HoldersOK ==
  ASSUME NEW m \in Catalog
  PROVE  Holders(m) \subseteq Accounts
  BY CatalogFields DEF Holders, KeyRecord

\* A handler that saves a state in order leaves the platform in order, saved or not.
LEMMA CatalogSaveStep ==
  ASSUME CatalogInv, NEW m, NEW replaced, NEW shut, NEW opened, Save(m, replaced, shut, opened),
         CatalogOK(m, drawn'), drawn' \in Keys, drawn' >= drawn, replaced \subseteq 1..drawn',
         shut \subseteq Reviewed, approvals \subseteq approvals',
         approvals' \subseteq Reviewed \X (0..MaxSubmissions),
         ApprovedOK(m, approvals'), ShutOK(m, (barred \ opened) \cup shut),
         DeadOK(m, dead \cup replaced)
  PROVE  CatalogInv'
<1>1. /\ catalog' = m /\ bootstrap' = bootstrap /\ restarts' = restarts
      /\ admitted' = admitted \cup Holders(m)
  BY DEF Save
<1>2. drawn \in Nat /\ drawn' \in Nat /\ drawn \in Keys
  BY DEF CatalogInv, Keys
<1>3. admitted' \subseteq Accounts
  BY <1>1, HoldersOK DEF CatalogInv, CatalogOK
<1>4. (Bootstrapped \X {0} \subseteq approvals)'
  BY <1>1 DEF CatalogInv, Bootstrapped
<1>5. drawn' >= BootKey
  BY <1>2 DEF CatalogInv, BootKey
<1>6. CASE /\ snapshot' = {m} /\ dead' = dead \cup replaced
           /\ barred' = (barred \ opened) \cup shut /\ saveFaults' = saveFaults
  <2>1. MemoryOK(m)'
    BY <1>6 DEF MemoryOK
  <2>2. States' = {m}
    BY <1>1, <1>6 DEF States
  <2>3. dead' \subseteq 1..drawn'
    BY <1>2, <1>6 DEF CatalogInv
  <2>4. barred' \subseteq Reviewed
    BY <1>6 DEF CatalogInv
  <2>5. \A g \in States' : MemoryOK(g)'
    BY <2>1, <2>2
  <2>6. snapshot' = {m} /\ snapshot' # {}
    BY <1>6
  <2> QED
    BY <1>1, <1>3, <1>4, <1>5, <1>6, <2>3, <2>4, <2>5, <2>6 DEF CatalogInv
<1>7. CASE /\ snapshot' = snapshot /\ dead' = dead /\ barred' = barred \ opened
           /\ saveFaults < MaxSaveFaults /\ saveFaults' = saveFaults + 1
  <2>1. MemoryOK(m)'
    BY <1>7 DEF MemoryOK, ShutOK, DeadOK
  <2>2. ASSUME NEW g \in snapshot PROVE MemoryOK(g)'
    <3>1. MemoryOK(g)
      BY DEF CatalogInv, States
    <3>2. CatalogOK(g, drawn')
      BY <1>2, <3>1, StateUpTo DEF MemoryOK
    <3>3. ApprovedOK(g, approvals')
      BY <3>1 DEF MemoryOK, ApprovedOK
    <3>4. ShutOK(g, barred') /\ DeadOK(g, dead')
      BY <1>7, <3>1 DEF MemoryOK, ShutOK
    <3> QED
      BY <3>2, <3>3, <3>4 DEF MemoryOK
  <2>3. \A g \in States' : MemoryOK(g)'
    BY <1>1, <1>7, <2>1, <2>2 DEF States
  <2>4. dead' \subseteq 1..drawn'
    BY <1>2, <1>7 DEF CatalogInv
  <2>5. saveFaults' \in 0..MaxSaveFaults
    BY <1>7, CatalogConstants DEF CatalogInv
  <2>6. barred' \subseteq Reviewed /\ (snapshot' = {} => barred' = {} /\ dead' = {})
    BY <1>7 DEF CatalogInv
  <2>7. snapshot' = {} \/ \E g : snapshot' = {g}
    BY <1>7 DEF CatalogInv
  <2> QED
    BY <1>1, <1>3, <1>4, <1>5, <2>3, <2>4, <2>5, <2>6, <2>7 DEF CatalogInv
<1> QED
  BY <1>6, <1>7 DEF Save

\* A handler that reviews nothing.
LEMMA KeysStep ==
  ASSUME CatalogInv, NEW m, NEW replaced, Save(m, replaced, {}, {}), UNCHANGED approvals,
         CatalogOK(m, drawn'), drawn' \in Keys, drawn' >= drawn, replaced \subseteq 1..drawn',
         m.review = catalog.review, DeadOK(m, dead \cup replaced)
  PROVE  CatalogInv'
<1> DEFINE none == {}
<1>1. /\ ApprovedOK(m, approvals') /\ ShutOK(m, (barred \ none) \cup none)
      /\ none \subseteq Reviewed
  BY Memory DEF ApprovedOK, ShutOK, Routable
<1>2. approvals \subseteq approvals' /\ approvals' \subseteq Reviewed \X (0..MaxSubmissions)
  BY Memory
<1>3. Save(m, replaced, none, none)
  OBVIOUS
<1> HIDE DEF none
<1> QED
  BY <1>1, <1>2, <1>3, CatalogSaveStep

\* A key that is drawn is nobody's yet, and dead to nobody.
LEMMA Drawing ==
  ASSUME CatalogInv, drawn < MaxKeys
  PROVE  /\ NewKey \in Keys /\ NewKey \in Nat /\ NewKey > drawn /\ NewKey \notin dead
         /\ 1..drawn \subseteq 1..NewKey
  BY Memory, CatalogConstants DEF NewKey, Keys

\* Registering a user.
LEMMA RegisterUserKeeps ==
  ASSUME CatalogInv, NEW u \in Users, RegisterUser(u)
  PROVE  CatalogInv'
<1> DEFINE x == [known |-> TRUE, key |-> NewKey, admin |-> FALSE]
           g == UserRegistered(catalog, u)
<1>1. /\ ~catalog.users[u].known /\ drawn < MaxKeys /\ drawn' = NewKey
      /\ Save(g, {}, {}, {}) /\ UNCHANGED approvals
  BY DEF RegisterUser
<1>2. x \in User /\ x.key = NewKey /\ x.known
  BY <1>1, Drawing DEF User
<1>3. g = UserGiven(catalog, u, x, NewKey)
  BY Memory DEF UserRegistered, UserGiven, Catalog
<1>4. catalog.users[u].key = NoKey
  BY <1>1, Memory DEF CatalogOK, Blank
<1> HIDE DEF x, g
<1>5. /\ CatalogOK(g, NewKey) /\ g.review = catalog.review
      /\ \A k \in Keys : k # NewKey => g.keys[k] = catalog.keys[k]
  <2>1. CatalogOK(catalog, drawn) /\ drawn \in Nat /\ NewKey \in Keys /\ NewKey > drawn
    BY <1>1, Memory, Drawing
  <2> QED
    BY <1>2, <1>3, <1>4, <2>1, GiveUserKey
<1>6. DeadOK(g, dead \cup {})
  BY <1>1, <1>5, Memory, Drawing DEF DeadOK
<1>7. CatalogOK(g, drawn') /\ drawn' \in Keys /\ drawn' >= drawn
  <2>1. NewKey \in Keys /\ NewKey >= drawn
    BY <1>1, Memory, Drawing
  <2> QED
    BY <1>1, <1>5, <2>1
<1> QED
  BY <1>1, <1>5, <1>6, <1>7, KeysStep

\* Granting the admin role.
LEMMA GrantAdminRoleKeeps ==
  ASSUME CatalogInv, NEW c, NEW u \in Users, GrantAdminRole(c, u)
  PROVE  CatalogInv'
<1> DEFINE g == AdminAdded(catalog, u)
<1>1. Save(g, {}, {}, {}) /\ UNCHANGED <<drawn, approvals>>
  BY DEF GrantAdminRole
<1>2. CatalogOK(g, drawn) /\ g.review = catalog.review /\ g.keys = catalog.keys
  BY Memory, AdminOK
<1> HIDE DEF g
<1>3. DeadOK(g, dead \cup {})
  BY <1>2, Memory DEF DeadOK
<1>4. drawn' = drawn /\ drawn \in Nat /\ drawn \in Keys
  BY <1>1, Memory
<1>5. CatalogOK(g, drawn') /\ drawn' \in Keys /\ drawn' >= drawn
  BY <1>2, <1>4
<1> QED
  BY <1>1, <1>2, <1>3, <1>5, KeysStep

\* Revoking a key.
LEMMA RevokeKeyKeeps ==
  ASSUME CatalogInv, NEW c, NEW k \in Keys, RevokeKey(c, k)
  PROVE  CatalogInv'
<1> DEFINE g == ForgetKey(catalog, k)
<1>1. /\ catalog.keys[k] # Unused /\ Save(g, {k}, {}, {}) /\ UNCHANGED <<drawn, approvals>>
  BY DEF RevokeKey
<1>2. CatalogOK(g, drawn)
  BY Memory, ForgetOK
<1>3. g.review = catalog.review /\ \A j \in Keys : g.keys[j] = IF j = k THEN Unused ELSE catalog.keys[j]
  BY Memory, ForgetFacts
<1> HIDE DEF g
<1>4. k \in 1..drawn
  <2>1. ~(k > drawn)
    BY <1>1, Memory DEF CatalogOK, KeysUpTo
  <2>2. k \in Nat /\ k >= 1 /\ drawn \in Nat
    BY Memory DEF Keys
  <2> QED
    BY <2>1, <2>2
<1>5. DeadOK(g, dead \cup {k})
  BY <1>3, Memory DEF DeadOK
<1>6. drawn' = drawn /\ drawn \in Nat /\ drawn \in Keys
  BY <1>1, Memory
<1>7. CatalogOK(g, drawn') /\ drawn' \in Keys /\ drawn' >= drawn /\ {k} \subseteq 1..drawn'
  BY <1>2, <1>4, <1>6
<1> QED
  BY <1>1, <1>3, <1>5, <1>7, KeysStep

\* Rotating a signing key.
LEMMA RotateSigningKeyKeeps ==
  ASSUME CatalogInv, NEW c, NEW s \in Sellers, NEW p \in Pems, NEW previous \in SUBSET (Pems \ {p}),
         RotateSigningKey(c, s, p, previous)
  PROVE  CatalogInv'
<1> DEFINE g == SignWith(catalog, s, p, {p} \cup previous)
<1>1. Save(g, {}, {}, {}) /\ UNCHANGED <<drawn, approvals>>
  BY DEF RotateSigningKey
<1>2. CatalogOK(g, drawn) /\ g.review = catalog.review /\ g.keys = catalog.keys
  <2>1. {p} \cup previous \in SUBSET Pems /\ p \in {p} \cup previous
    OBVIOUS
  <2> QED
    BY <2>1, Memory, SignOK
<1> HIDE DEF g
<1>3. DeadOK(g, dead \cup {})
  BY <1>2, Memory DEF DeadOK
<1>4. drawn' = drawn /\ drawn \in Nat /\ drawn \in Keys
  BY <1>1, Memory
<1>5. CatalogOK(g, drawn') /\ drawn' \in Keys /\ drawn' >= drawn
  BY <1>2, <1>4
<1> QED
  BY <1>1, <1>2, <1>3, <1>5, KeysStep

\* Rotating a buyer's key.
LEMMA RotateBuyerKeyKeeps ==
  ASSUME CatalogInv, NEW c, NEW u \in Users, RotateBuyerKey(c, u)
  PROVE  CatalogInv'
<1> DEFINE old == catalog.users[u].key
           f == ForgetKey(catalog, old)
           x == [f.users[u] EXCEPT !.key = NewKey]
           g == BuyerKeyRotated(catalog, u)
<1>1. /\ catalog.users[u].known /\ drawn < MaxKeys /\ drawn' = NewKey
      /\ Save(g, {old} \ {NoKey}, {}, {}) /\ UNCHANGED approvals
  BY DEF RotateBuyerKey
<1>2. old \in {NoKey} \cup Keys
  BY Memory, CatalogFields DEF User
<1>3. f \in Catalog /\ CatalogOK(f, drawn) /\ f.users[u].key = NoKey /\ f.users[u].known
      /\ f.review = catalog.review
      /\ \A k \in Keys : f.keys[k] = IF k = old THEN Unused ELSE catalog.keys[k]
  <2>1. CASE old = NoKey
    <3>1. f = catalog
      BY <2>1 DEF ForgetKey
    <3>2. \A k \in Keys : k # old
      BY <2>1, CatalogConstants
    <3> QED
      BY <1>1, <2>1, <3>1, <3>2, Memory
  <2>2. CASE old \in Keys
    <3>1. catalog \in Catalog /\ CatalogOK(catalog, drawn)
      BY Memory
    <3>2. CatalogOK(f, drawn)
      BY <2>2, <3>1, ForgetOK
    <3> HIDE DEF old
    <3>3. /\ f \in Catalog /\ f.review = catalog.review
          /\ \A k \in Keys : f.keys[k] = IF k = old THEN Unused ELSE catalog.keys[k]
      BY <2>2, <3>1, ForgetFacts
    <3>4. /\ f.users[u].known = catalog.users[u].known
          /\ f.users[u].key = IF catalog.users[u].key = old THEN NoKey ELSE catalog.users[u].key
      BY <2>2, <3>1, ForgetFacts
    <3>5. catalog.users[u].key = old
      BY DEF old
    <3> QED
      BY <1>1, <3>2, <3>3, <3>4, <3>5
  <2> QED
    BY <1>2, <2>1, <2>2
<1>4. old # NoKey => old \in 1..drawn
  <2>1. BuyerAgrees(catalog, u)
    BY Memory DEF CatalogOK, AgreeOn
  <2>2. ASSUME old # NoKey PROVE catalog.keys[old].who = u /\ old \in Keys
    BY <1>2, <2>1, <2>2 DEF BuyerAgrees
  <2>3. old # NoKey => ~(old > drawn)
    BY <2>2, Memory, UnusedFacts, CatalogConstants DEF CatalogOK, KeysUpTo
  <2>4. \A k \in Keys : k \in Nat /\ k >= 1
    BY DEF Keys
  <2> HIDE DEF old
  <2> QED
    BY <1>2, <2>3, <2>4, Memory
<1>5. x \in User /\ x.key = NewKey /\ x.known
  <2>1. f.users[u] \in User
    BY <1>3, CatalogFields
  <2> QED
    BY <1>1, <1>3, <2>1, Drawing, UserWithout
<1>6. g = UserGiven(f, u, x, NewKey)
  BY <1>3 DEF BuyerKeyRotated, UserGiven, Catalog
<1> HIDE DEF x, g, f, old
<1>7. /\ CatalogOK(g, NewKey) /\ g.review = f.review
      /\ \A k \in Keys : k # NewKey => g.keys[k] = f.keys[k]
  <2>1. drawn \in Nat /\ NewKey \in Keys /\ NewKey > drawn
    BY <1>1, Memory, Drawing
  <2> QED
    BY <1>3, <1>5, <1>6, <2>1, GiveUserKey
<1>8. DeadOK(g, dead \cup ({old} \ {NoKey}))
  <2>1. old # NewKey
    BY <1>1, <1>2, <1>4, Memory, Drawing, CatalogConstants
  <2> QED
    BY <1>1, <1>2, <1>3, <1>7, <2>1, Memory, Drawing DEF DeadOK
<1>9. /\ CatalogOK(g, drawn') /\ drawn' \in Keys /\ drawn' >= drawn
      /\ {old} \ {NoKey} \subseteq 1..drawn'
  <2>1. NewKey \in Keys /\ NewKey >= drawn
    BY <1>1, Memory, Drawing
  <2>2. {old} \ {NoKey} \subseteq 1..NewKey
    BY <1>1, <1>4, Drawing
  <2> QED
    BY <1>1, <1>7, <2>1, <2>2
<1> QED
  BY <1>1, <1>3, <1>7, <1>8, <1>9, KeysStep

\* Rotating a seller's key.
LEMMA RotateSellerKeyKeeps ==
  ASSUME CatalogInv, NEW c, NEW s \in Sellers, RotateSellerKey(c, s)
  PROVE  CatalogInv'
<1> DEFINE old == catalog.sellers[s].key
           f == ForgetKey(catalog, old)
           g == SellerKeyRotated(catalog, s)
<1>1. /\ catalog.sellers[s].known /\ drawn < MaxKeys /\ drawn' = NewKey
      /\ Save(g, {old} \ {NoKey}, {}, {}) /\ UNCHANGED approvals
  BY DEF RotateSellerKey
<1>2. old \in {NoKey} \cup Keys
  BY Memory, CatalogFields DEF Seller
<1>3. f \in Catalog /\ CatalogOK(f, drawn) /\ f.sellers[s].key = NoKey /\ f.sellers[s].known
      /\ f.sellers[s].ids = catalog.sellers[s].ids
      /\ f.review = catalog.review
      /\ \A k \in Keys : f.keys[k] = IF k = old THEN Unused ELSE catalog.keys[k]
  <2>1. CASE old = NoKey
    <3>1. f = catalog
      BY <2>1 DEF ForgetKey
    <3>2. \A k \in Keys : k # old
      BY <2>1, CatalogConstants
    <3> QED
      BY <1>1, <2>1, <3>1, <3>2, Memory
  <2>2. CASE old \in Keys
    <3>1. catalog \in Catalog /\ CatalogOK(catalog, drawn)
      BY Memory
    <3>2. CatalogOK(f, drawn)
      BY <2>2, <3>1, ForgetOK
    <3> HIDE DEF old
    <3>3. /\ f \in Catalog /\ f.review = catalog.review
          /\ \A k \in Keys : f.keys[k] = IF k = old THEN Unused ELSE catalog.keys[k]
      BY <2>2, <3>1, ForgetFacts
    <3>4. /\ f.sellers[s].known = catalog.sellers[s].known
          /\ f.sellers[s].ids = catalog.sellers[s].ids
          /\ f.sellers[s].key = IF catalog.sellers[s].key = old THEN NoKey ELSE catalog.sellers[s].key
      BY <2>2, <3>1, ForgetFacts
    <3>5. catalog.sellers[s].key = old
      BY DEF old
    <3> QED
      BY <1>1, <3>2, <3>3, <3>4, <3>5
  <2> QED
    BY <1>2, <2>1, <2>2
<1>4. old # NoKey => old \in 1..drawn
  <2>1. SellerAgrees(catalog, s)
    BY Memory DEF CatalogOK, AgreeOn
  <2>2. ASSUME old # NoKey PROVE catalog.keys[old].who = s /\ old \in Keys
    <3>1. catalog.keys[old] = [who |-> s, ids |-> catalog.sellers[s].ids]
      BY <2>1, <2>2, SellerKey
    <3> HIDE DEF old
    <3> QED
      BY <1>2, <2>2, <3>1
  <2>3. old # NoKey => ~(old > drawn)
    BY <2>2, Memory, UnusedFacts, CatalogConstants DEF CatalogOK, KeysUpTo
  <2>4. \A k \in Keys : k \in Nat /\ k >= 1
    BY DEF Keys
  <2> HIDE DEF old
  <2> QED
    BY <1>2, <2>3, <2>4, Memory
<1>5. g = SellerGiven(f, s, NewKey)
  <2>1. f.sellers \in [Sellers -> Seller]
    BY <1>3, CatalogFields
  <2> QED
    BY <1>3, <2>1 DEF SellerKeyRotated, SellerGiven, Catalog
<1> HIDE DEF g, f, old
<1>6. /\ CatalogOK(g, NewKey) /\ g.review = f.review
      /\ \A k \in Keys : k # NewKey => g.keys[k] = f.keys[k]
  <2>1. drawn \in Nat /\ NewKey \in Keys /\ NewKey > drawn
    BY <1>1, Memory, Drawing
  <2> QED
    BY <1>3, <1>5, <2>1, GiveSellerKey
<1>7. DeadOK(g, dead \cup ({old} \ {NoKey}))
  <2>1. old # NewKey
    BY <1>1, <1>2, <1>4, Memory, Drawing, CatalogConstants
  <2> QED
    BY <1>1, <1>2, <1>3, <1>6, <2>1, Memory, Drawing DEF DeadOK
<1>8. /\ CatalogOK(g, drawn') /\ drawn' \in Keys /\ drawn' >= drawn
      /\ {old} \ {NoKey} \subseteq 1..drawn'
  <2>1. NewKey \in Keys /\ NewKey >= drawn
    BY <1>1, Memory, Drawing
  <2>2. {old} \ {NoKey} \subseteq 1..NewKey
    BY <1>1, <1>4, Drawing
  <2> QED
    BY <1>1, <1>6, <2>1, <2>2
<1> QED
  BY <1>1, <1>3, <1>6, <1>7, <1>8, KeysStep

\* A review of one seller or subagent.
ReviewedAs(x, y) == [catalog EXCEPT !.review = [catalog.review EXCEPT ![x] = y]]

\* A review handler changes one verdict: an approval is of the edition that is shown, and what
\* is shown was not shut out since.
LEMMA ReviewStep ==
  ASSUME CatalogInv, NEW x \in Reviewed, NEW y \in Review, NEW m, m = ReviewedAs(x, y),
         NEW none, none = {}, NEW shut, NEW opened, Save(m, none, shut, opened), drawn' = drawn,
         shut \subseteq {x}, approvals \subseteq approvals',
         approvals' \subseteq Reviewed \X (0..MaxSubmissions),
         y.verdict = "approved" => <<x, y.edition>> \in approvals',
         y.verdict = "approved" /\ y.enabled =>
           x \notin shut /\ (x \in opened \/ Routable(catalog, x))
  PROVE  CatalogInv'
<1> DEFINE r == [catalog.review EXCEPT ![x] = y]
<1>1. catalog.review \in [Reviewed -> Review]
  BY Memory, CatalogFields
<1>2. r \in [Reviewed -> Review] /\ \A z \in Reviewed : r[z] = IF z = x THEN y ELSE catalog.review[z]
  BY <1>1
<1>3. m = [catalog EXCEPT !.review = r]
  BY DEF ReviewedAs
<1> HIDE DEF r
<1>4. CatalogOK(m, drawn) /\ m.review = r /\ m.keys = catalog.keys
  BY <1>2, <1>3, Memory, ReviewOK
<1>5. ApprovedOK(m, approvals')
  BY <1>2, <1>4, Memory DEF ApprovedOK
<1>6. ShutOK(m, (barred \ opened) \cup shut)
  <2>1. ASSUME NEW z \in Reviewed, Routable(m, z), z # x
        PROVE  z \notin (barred \ opened) \cup shut
    <3>1. Routable(catalog, z)
      BY <1>2, <1>4, <2>1 DEF Routable
    <3> QED
      BY <2>1, <3>1, Memory DEF ShutOK
  <2>2. ASSUME Routable(m, x) PROVE x \notin (barred \ opened) \cup shut
    <3>1. y.verdict = "approved" /\ y.enabled
      BY <1>2, <1>4, <2>2 DEF Routable
    <3>2. Routable(catalog, x) => x \notin barred
      BY Memory DEF ShutOK
    <3> QED
      BY <3>1, <3>2
  <2> QED
    BY <2>1, <2>2 DEF ShutOK
<1>7. DeadOK(m, dead \cup none)
  BY <1>4, Memory DEF DeadOK
<1>8. /\ drawn' \in Keys /\ drawn' >= drawn /\ none \subseteq 1..drawn' /\ CatalogOK(m, drawn')
      /\ shut \subseteq Reviewed
  BY <1>4, Memory
<1> QED
  BY <1>5, <1>6, <1>7, <1>8, CatalogSaveStep

\* Approving.
LEMMA ApproveKeeps ==
  ASSUME CatalogInv, NEW c, NEW x \in Reviewed, Approve(c, x)
  PROVE  CatalogInv'
<1> DEFINE old == catalog.review[x]
           y == [old EXCEPT !.verdict = "approved", !.enabled = TRUE]
           m == ReviewedAs(x, y)
           none == {}
<1>1. catalog.review \in [Reviewed -> Review] /\ old \in Review
  BY Memory, CatalogFields
<1>2. y \in Review /\ y.verdict = "approved" /\ y.enabled = TRUE /\ y.edition = old.edition
  BY <1>1 DEF Review
<1>3. m = [catalog EXCEPT !.review[x].verdict = "approved", !.review[x].enabled = TRUE]
  BY <1>1, Memory DEF ReviewedAs, Review, Catalog
<1>4. /\ Save(m, none, none, {x}) /\ drawn' = drawn
      /\ approvals' = approvals \cup {<<x, y.edition>>}
  BY <1>2, <1>3 DEF Approve
<1>5. old.edition \in 0..MaxSubmissions
  BY <1>1 DEF Review
<1>6. approvals' \subseteq Reviewed \X (0..MaxSubmissions)
  BY <1>2, <1>4, <1>5, Memory
<1>7. none = {} /\ none \subseteq {x} /\ x \notin none
  OBVIOUS
<1>e. m = ReviewedAs(x, y)
  OBVIOUS
<1> HIDE DEF y, m, none
<1> QED
  BY <1>2, <1>4, <1>6, <1>7, <1>e, ReviewStep

\* Rejecting.
LEMMA RejectKeeps ==
  ASSUME CatalogInv, NEW c, NEW x \in Reviewed, Reject(c, x)
  PROVE  CatalogInv'
<1> DEFINE old == catalog.review[x]
           y == [old EXCEPT !.verdict = "rejected", !.enabled = FALSE]
           m == ReviewedAs(x, y)
           none == {}
<1>1. catalog.review \in [Reviewed -> Review] /\ old \in Review
  BY Memory, CatalogFields
<1>2. y \in Review /\ y.verdict = "rejected"
  BY <1>1 DEF Review
<1>3. m = [catalog EXCEPT !.review[x].verdict = "rejected", !.review[x].enabled = FALSE]
  BY <1>1, Memory DEF ReviewedAs, Review, Catalog
<1>4. /\ Save(m, none, {x}, none) /\ drawn' = drawn /\ approvals' = approvals /\ none = {}
  BY <1>3 DEF Reject
<1>5. approvals' \subseteq Reviewed \X (0..MaxSubmissions)
  BY <1>4, Memory
<1>e. m = ReviewedAs(x, y)
  OBVIOUS
<1> HIDE DEF y, m, none
<1> QED
  BY <1>2, <1>4, <1>5, <1>e, ReviewStep

\* Disabling.
LEMMA DisableKeeps ==
  ASSUME CatalogInv, NEW c, NEW x \in Reviewed, Disable(c, x)
  PROVE  CatalogInv'
<1> DEFINE old == catalog.review[x]
           y == [old EXCEPT !.enabled = FALSE]
           m == ReviewedAs(x, y)
           none == {}
<1>1. catalog.review \in [Reviewed -> Review] /\ old \in Review
  BY Memory, CatalogFields
<1>2. y \in Review /\ y.verdict = old.verdict /\ y.enabled = FALSE /\ y.edition = old.edition
  BY <1>1 DEF Review
<1>3. m = [catalog EXCEPT !.review[x].enabled = FALSE]
  BY <1>1, Memory DEF ReviewedAs, Review, Catalog
<1>4. /\ Save(m, none, {x}, none) /\ drawn' = drawn /\ approvals' = approvals /\ none = {}
  BY <1>3 DEF Disable
<1>5. approvals' \subseteq Reviewed \X (0..MaxSubmissions)
  BY <1>4, Memory
<1>6. y.verdict = "approved" => <<x, y.edition>> \in approvals'
  BY <1>2, <1>4, Memory DEF ApprovedOK
<1>e. m = ReviewedAs(x, y)
  OBVIOUS
<1> HIDE DEF y, m, none
<1> QED
  BY <1>2, <1>4, <1>5, <1>6, <1>e, ReviewStep

\* Enabling.
LEMMA EnableKeeps ==
  ASSUME CatalogInv, NEW c, NEW x \in Reviewed, Enable(c, x)
  PROVE  CatalogInv'
<1> DEFINE old == catalog.review[x]
           y == [old EXCEPT !.enabled = TRUE]
           m == ReviewedAs(x, y)
           none == {}
<1>1. catalog.review \in [Reviewed -> Review] /\ old \in Review
  BY Memory, CatalogFields
<1>2. y \in Review /\ y.verdict = old.verdict /\ y.edition = old.edition
  BY <1>1 DEF Review
<1>3. m = [catalog EXCEPT !.review[x].enabled = TRUE]
  BY <1>1, Memory DEF ReviewedAs, Review, Catalog
<1>4. /\ Save(m, none, none, {x}) /\ drawn' = drawn /\ approvals' = approvals
      /\ none = {} /\ x \notin none /\ none \subseteq {x}
  BY <1>3 DEF Enable
<1>5. approvals' \subseteq Reviewed \X (0..MaxSubmissions)
  BY <1>4, Memory
<1>6. y.verdict = "approved" => <<x, y.edition>> \in approvals'
  BY <1>2, <1>4, Memory DEF ApprovedOK
<1>e. m = ReviewedAs(x, y)
  OBVIOUS
<1> HIDE DEF y, m, none
<1> QED
  BY <1>2, <1>4, <1>5, <1>6, <1>e, ReviewStep

\* Submitting a subagent, new or edited.
LEMMA SubmitKeeps ==
  ASSUME CatalogInv, NEW c, NEW s \in Sellers, NEW a \in Subagents, NEW p \in Pems,
         NEW owner \in Users \cup {Nobody}, NEW moved \in BOOLEAN, Submit(c, s, a, p, owner, moved)
  PROVE  CatalogInv'
<1> DEFINE m == Submitted(s, a, p, owner, moved)
           n == KeyOf(s)
           top == IF n > drawn THEN n ELSE drawn
           none == {}
<1>1. /\ catalog.items[a].seller \in {Nobody, s} /\ n \in Keys
      /\ \A x \in {s, a} : m.review[x].edition <= MaxSubmissions
      /\ drawn' = top /\ Save(m, none, none, none) /\ approvals' = approvals /\ none = {}
  BY DEF Submit, MaySubmit
<1>2. /\ CatalogOK(m, top) /\ top \in Keys /\ top >= drawn
      /\ \A k \in Keys : k # n => m.keys[k] = catalog.keys[k]
      /\ \A x \in Reviewed :
           m.review[x] = catalog.review[x] \/ m.review[x] = BackToReview(catalog.review[x])
  BY <1>1, Memory, SubmittedOK
<1>3. n \notin dead
  <2>1. CASE catalog.sellers[s].key = NoKey
    <3>1. n = drawn + 1
      BY <2>1 DEF KeyOf, NewKey
    <3> QED
      BY <3>1, Memory
  <2>2. CASE catalog.sellers[s].key # NoKey
    <3>1. SellerAgrees(catalog, s) /\ n = catalog.sellers[s].key
      BY <2>2, Memory DEF CatalogOK, AgreeOn, KeyOf
    <3>2. catalog.keys[n] = [who |-> s, ids |-> catalog.sellers[s].ids]
      BY <2>2, <3>1, SellerKey
    <3>3. catalog.keys[n] # Unused
      BY <3>2, UnusedFacts, CatalogConstants
    <3> QED
      BY <3>3, Memory DEF DeadOK
  <2> QED
    BY <2>1, <2>2
<1> HIDE DEF m, n, top, none
<1>4. \A x \in Reviewed : m.review[x].verdict = "approved" => m.review[x] = catalog.review[x]
  <2>1. \A x \in Reviewed : BackToReview(catalog.review[x]).verdict = "pending"
    BY DEF BackToReview
  <2> QED
    BY <1>2, <2>1
<1>5. ApprovedOK(m, approvals')
  BY <1>1, <1>4, Memory DEF ApprovedOK
<1>6. ShutOK(m, (barred \ none) \cup none)
  BY <1>1, <1>4, Memory DEF ShutOK, Routable
<1>7. DeadOK(m, dead \cup none)
  BY <1>1, <1>2, <1>3, Memory DEF DeadOK
<1>8. /\ drawn' \in Keys /\ drawn' >= drawn /\ none \subseteq 1..drawn' /\ CatalogOK(m, drawn')
      /\ none \subseteq Reviewed
  BY <1>1, <1>2
<1>9. approvals \subseteq approvals' /\ approvals' \subseteq Reviewed \X (0..MaxSubmissions)
  BY <1>1, Memory
<1> QED
  BY <1>1, <1>5, <1>6, <1>7, <1>8, <1>9, CatalogSaveStep

\* A restart finds what was saved, or starts afresh when nothing was.
LEMMA RestartKeeps ==
  ASSUME CatalogInv, Restart
  PROVE  CatalogInv'
<1>1. /\ restarts < MaxRestarts /\ restarts' = restarts + 1
      /\ catalog' = IF snapshot = {} THEN Fresh ELSE HydrateCatalog(CHOOSE m \in snapshot : TRUE)
      /\ admitted' = Holders(catalog')
      /\ approvals' = {e \in approvals : e[2] <= catalog'.review[e[1]].edition}
      /\ bootstrap' = bootstrap /\ snapshot' = snapshot /\ drawn' = drawn /\ barred' = barred
      /\ dead' = dead /\ saveFaults' = saveFaults
  BY DEF Restart
<1>2. /\ catalog' \in Catalog /\ (Bootstrapped \X {0} \subseteq approvals)'
      /\ \A m \in States' : MemoryOK(m)'
  <2>1. CASE snapshot = {}
    <3>1. catalog' = Fresh /\ States' = {Fresh} /\ Fresh' = Fresh
      BY <1>1, <2>1 DEF States, Fresh, Bootstrapped
    <3>2. /\ bootstrap \in BOOLEAN /\ drawn \in Keys /\ drawn >= BootKey
          /\ barred = {} /\ dead = {} /\ Bootstrapped \X {0} \subseteq approvals
      BY <2>1 DEF CatalogInv
    <3>3. /\ CatalogOK(Fresh, drawn)
          /\ \A x \in Reviewed : /\ Fresh.review[x].verdict = "approved" => x \in Bootstrapped
                                 /\ Fresh.review[x].edition = 0
      BY <3>2, FreshOK
    <3>4. Bootstrapped \subseteq Reviewed /\ Bootstrapped' = Bootstrapped
      BY <1>1, CatalogConstants DEF Bootstrapped, Reviewed
    <3>5. ASSUME NEW x \in Bootstrapped PROVE <<x, 0>> \in approvals'
      <4>1. <<x, 0>> \in approvals /\ 0 <= Fresh.review[x].edition
        BY <3>2, <3>3, <3>4
      <4> QED
        BY <1>1, <3>1, <4>1
    <3>6. ApprovedOK(Fresh, approvals')
      BY <3>3, <3>5 DEF ApprovedOK
    <3>7. ShutOK(Fresh, barred') /\ DeadOK(Fresh, dead')
      BY <1>1, <3>2 DEF ShutOK, DeadOK
    <3>8. MemoryOK(Fresh)'
      BY <1>1, <3>1, <3>3, <3>6, <3>7 DEF MemoryOK
    <3>9. \A m \in States' : MemoryOK(m)'
      BY <3>1, <3>8
    <3>10. (Bootstrapped \X {0} \subseteq approvals)'
      BY <3>4, <3>5
    <3> QED
      BY <3>1, <3>3, <3>9, <3>10 DEF CatalogOK
  <2>2. CASE snapshot # {}
    <3>1. PICK g : snapshot = {g}
      BY <2>2 DEF CatalogInv
    <3>2. catalog' = g /\ States' = {g}
      BY <1>1, <3>1 DEF States, HydrateCatalog
    <3>3. MemoryOK(g)
      BY <3>1 DEF CatalogInv, States
    <3>4. g.review \in [Reviewed -> Review] /\ g \in Catalog
      BY <3>3, CatalogFields DEF MemoryOK, CatalogOK
    <3>5. ASSUME NEW x \in Reviewed, g.review[x].verdict = "approved"
          PROVE  <<x, g.review[x].edition>> \in approvals'
      <4>1. <<x, g.review[x].edition>> \in approvals
        BY <3>3, <3>5 DEF MemoryOK, ApprovedOK
      <4>2. g.review[x].edition <= g.review[x].edition
        BY <3>4 DEF Review
      <4> QED
        BY <1>1, <3>2, <4>1, <4>2
    <3>6. ApprovedOK(g, approvals')
      BY <3>5 DEF ApprovedOK
    <3>7. MemoryOK(g)'
      BY <1>1, <3>3, <3>6 DEF MemoryOK
    <3>8. \A m \in States' : MemoryOK(m)'
      BY <3>2, <3>7
    <3>9. Bootstrapped \subseteq Reviewed /\ Bootstrapped' = Bootstrapped
      BY <1>1, CatalogConstants DEF Bootstrapped, Reviewed
    <3>10. ASSUME NEW x \in Bootstrapped PROVE <<x, 0>> \in approvals'
      <4>1. <<x, 0>> \in approvals
        BY DEF CatalogInv
      <4>2. 0 <= g.review[x].edition
        BY <3>4, <3>9 DEF Review
      <4> QED
        BY <1>1, <3>2, <4>1, <4>2
    <3> QED
      BY <3>2, <3>4, <3>8, <3>9, <3>10
  <2> QED
    BY <2>1, <2>2
<1>3. admitted' \subseteq Accounts
  BY <1>1, <1>2, HoldersOK
<1>4. restarts' \in 0..MaxRestarts
  BY <1>1, CatalogConstants DEF CatalogInv
<1>5. approvals' \subseteq Reviewed \X (0..MaxSubmissions)
  BY <1>1, Memory
<1>6. /\ bootstrap' \in BOOLEAN /\ drawn' \in Keys /\ drawn' >= BootKey /\ barred' \subseteq Reviewed
      /\ dead' \subseteq 1..drawn' /\ saveFaults' \in 0..MaxSaveFaults
      /\ (snapshot' = {} => barred' = {} /\ dead' = {})
      /\ (snapshot' = {} \/ \E m : snapshot' = {m})
  BY <1>1 DEF CatalogInv
<1> QED
  BY <1>2, <1>3, <1>4, <1>5, <1>6 DEF CatalogInv

\* The invariant holds at first.
LEMMA CatalogInvInit == CatalogInit => CatalogInv
<1> SUFFICES ASSUME CatalogInit PROVE CatalogInv
  OBVIOUS
<1>1. /\ bootstrap \in BOOLEAN /\ catalog = Fresh /\ snapshot = {} /\ admitted = Holders(Fresh)
      /\ drawn = BootKey /\ approvals = Bootstrapped \X {0} /\ barred = {} /\ dead = {}
      /\ saveFaults = 0 /\ restarts = 0
  BY DEF CatalogInit
<1>2. drawn \in Keys /\ drawn >= BootKey
  BY <1>1, CatalogConstants DEF BootKey
<1>3. /\ CatalogOK(Fresh, drawn)
      /\ \A x \in Reviewed : /\ Fresh.review[x].verdict = "approved" => x \in Bootstrapped
                             /\ Fresh.review[x].edition = 0
  BY <1>1, <1>2, FreshOK
<1>4. ApprovedOK(Fresh, approvals)
  BY <1>1, <1>3 DEF ApprovedOK
<1>5. ShutOK(Fresh, barred) /\ DeadOK(Fresh, dead)
  BY <1>1 DEF ShutOK, DeadOK
<1>6. \A m \in States : MemoryOK(m)
  BY <1>1, <1>3, <1>4, <1>5 DEF States, MemoryOK
<1>7. Bootstrapped \subseteq Reviewed
  BY CatalogConstants DEF Bootstrapped, Reviewed
<1>8. approvals \subseteq Reviewed \X (0..MaxSubmissions)
  BY <1>1, <1>7, CatalogConstants
<1>9. admitted \subseteq Accounts
  BY <1>1, <1>3, HoldersOK DEF CatalogOK
<1>10. saveFaults \in 0..MaxSaveFaults /\ restarts \in 0..MaxRestarts
  BY <1>1, CatalogConstants
<1> QED
  BY <1>1, <1>2, <1>6, <1>8, <1>9, <1>10 DEF CatalogInv

\* Every handler and every restart keeps it.
LEMMA CatalogInvStep == CatalogInv /\ [CatalogNext]_catalogVars => CatalogInv'
<1> SUFFICES ASSUME CatalogInv, [CatalogNext]_catalogVars PROVE CatalogInv'
  OBVIOUS
<1>1. CASE AnySubmission
  <2>1. PICK s \in Sellers, a \in Subagents, p \in Pems, owner \in Users \cup {Nobody} :
          Submission(s, a, p, owner)
    BY <1>1 DEF AnySubmission
  <2>2. ASSUME NEW c \in Accounts, NEW moved \in BOOLEAN, SubmitSubagent(c, s, a, p, owner, moved)
        PROVE  CatalogInv'
    BY <2>2, SubmitKeeps DEF SubmitSubagent
  <2>3. CASE RegisterSeller(s, a, p, owner)
    <3>1. Submit(Nobody, s, a, p, owner, FALSE) /\ FALSE \in BOOLEAN
      BY <2>3 DEF RegisterSeller
    <3> QED
      BY <3>1, SubmitKeeps
  <2> QED
    BY <2>1, <2>2, <2>3 DEF Submission
<1>2. CASE \E u \in Users : RegisterUser(u)
  BY <1>2, RegisterUserKeeps
<1>3. ASSUME NEW c \in Accounts, KeyCare(c) PROVE CatalogInv'
  BY <1>3, RotateBuyerKeyKeeps, GrantAdminRoleKeeps, RotateSellerKeyKeeps, RevokeKeyKeeps,
     RotateSigningKeyKeeps DEF KeyCare
<1>4. ASSUME NEW c \in Accounts, Moderation(c) PROVE CatalogInv'
  <2>1. Sellers \subseteq Reviewed /\ Subagents \subseteq Reviewed
    BY DEF Reviewed
  <2>2. PICK x \in Reviewed : Approve(c, x) \/ Reject(c, x) \/ Disable(c, x) \/ Enable(c, x)
    BY <1>4, <2>1 DEF Moderation, ApproveSeller, RejectSeller, DisableSeller, EnableSeller,
       ApproveSubagent, RejectSubagent, DisableSubagent, EnableSubagent
  <2> QED
    BY <2>2, ApproveKeeps, RejectKeeps, DisableKeeps, EnableKeeps
<1>5. CASE Restart
  BY <1>5, RestartKeeps
<1>6. CASE UNCHANGED catalogVars
  BY <1>6 DEF catalogVars, CatalogInv, MemoryOK, States, Bootstrapped
<1> QED
  BY <1>1, <1>2, <1>3, <1>4, <1>5, <1>6 DEF CatalogNext, KeysNext, ModerationNext

\* It holds throughout.
LEMMA CatalogInvHolds == CatalogSpec => []CatalogInv
  BY CatalogInvInit, CatalogInvStep, PTL DEF CatalogSpec

-----------------------------------------------------------------------------
(* The theorems                                                            *)

\* Every variable keeps its type, and one state at most is saved (persistPlatformState).
THEOREM CatalogTypes == CatalogSpec => []CatalogTypeOK
<1>1. CatalogInv => CatalogTypeOK
  <2> SUFFICES ASSUME CatalogInv PROVE CatalogTypeOK
    OBVIOUS
  <2>1. Cardinality(snapshot) <= 1
    <3>1. CASE snapshot = {}
      BY <3>1, FS_EmptySet
    <3>2. CASE \E m : snapshot = {m}
      BY <3>2, FS_Singleton
    <3> QED
      BY <3>1, <3>2 DEF CatalogInv
  <2>2. catalog \in Catalog /\ snapshot \subseteq Catalog
    BY DEF CatalogInv, States, MemoryOK, CatalogOK
  <2> QED
    BY <2>1, <2>2, Memory DEF CatalogInv, CatalogTypeOK
<1> QED
  BY <1>1, CatalogInvHolds, PTL

\* What the catalog shows, an operator has approved as it stands, and let in again after the
\* last time it was shut out; over saves that fail and restarts (resolveCatalogVisibility,
\* submitCatalogSubagent and the handlers of reviews).
THEOREM ShownAsApproved == CatalogSpec => []PublicOnlyAsApproved
<1>1. CatalogInv => PublicOnlyAsApproved
  <2> SUFFICES ASSUME CatalogInv, NEW m \in States, NEW a \in Subagents, Public(m, a),
                      NEW x \in {a, m.items[a].seller}
               PROVE  <<x, m.review[x].edition>> \in approvals /\ x \notin barred
    BY DEF PublicOnlyAsApproved
  <2>1. MemoryOK(m) /\ m \in Catalog
    BY DEF CatalogInv, MemoryOK, CatalogOK
  <2>2. m.items[a].seller \in Sellers
    BY <2>1, CatalogFields DEF Public, Listed, Item
  <2>3. x \in Reviewed /\ Routable(m, x)
    BY <2>2 DEF Public, Reviewed
  <2> QED
    BY <2>1, <2>3 DEF MemoryOK, ApprovedOK, ShutOK, Routable
<1> QED
  BY <1>1, CatalogInvHolds, PTL

\* A key that was revoked or replaced opens nothing again (revokeApiKey, the two rotations,
\* submitCatalogSubagent, hydratePlatformState).
THEOREM DeadKeysStayDead == CatalogSpec => []RevokedStaysDead
<1>1. CatalogInv => RevokedStaysDead
  BY DEF CatalogInv, MemoryOK, DeadOK, RevokedStaysDead
<1> QED
  BY <1>1, CatalogInvHolds, PTL

\* Accounts, keys and catalog agree, in memory and in the snapshot (submitCatalogSubagent
\* against the rotations and revokeApiKey).
THEOREM AccountsStayInAgreement == CatalogSpec => []AccountsAgree
<1>1. CatalogInv => AccountsAgree
  BY DEF CatalogInv, MemoryOK, CatalogOK, AgreeOn, AccountsAgree
<1> QED
  BY <1>1, CatalogInvHolds, PTL
=============================================================================
