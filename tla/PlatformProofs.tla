--------------------------- MODULE PlatformProofs ---------------------------
(***************************************************************************)
(* Theorems about PlatformRequests: the types and the histories for both   *)
(* stores, and that what is saved undisturbed is kept; for the sqlite      *)
(* store, that whatever is answered is kept as long as its saves succeed,  *)
(* and that RequestLedger is implemented.                                  *)
(***************************************************************************)
EXTENDS PlatformRequests, SequenceTheorems, TLAPS

-----------------------------------------------------------------------------
(* The invariant                                                           *)

Once(x) == \A e \in SellerEvents : \A j, k \in Matching(x, e) : j = k

GoodRequest(x) ==
  /\ x \in Request
  /\ x.buyer = Null <=> x.subagent = Null
  /\ x.code # 0 => Known(x)
  /\ Len(x.events) <= x.appended
  /\ Once(x)

GoodDoc(doc) == doc \in Doc /\ \A r \in Requests : GoodRequest(doc.requests[r])

RowsOK == DOMAIN rows \subseteq Handlers /\ \A d \in DOMAIN rows : GoodDoc(rows[d])
CallsOK == call \in [Handlers -> Call] /\ \A h \in Handlers : GoodDoc(call[h].doc)
AnswersOK == promised \in SUBSET Facts /\ kept \in SUBSET Facts
CountsOK == codes \in Nat /\ faults \in Nat /\ crashes \in Nat

\* Every record in memory, in the table and on its way there is well formed and has each
\* seller event at most once.
IInv == GoodDoc(mem) /\ RowsOK /\ CallsOK /\ AnswersOK /\ CountsOK

-----------------------------------------------------------------------------
(* Histories                                                               *)

\* The event of this number is in the history, or Limit later ones have pushed it out.
HasEvent(x, e, n) ==
  \/ \E j \in Matching(x, e) : Number(x, j) = n
  \/ x.appended >= n + Limit

\* An event goes to the end, and when the history is full the oldest goes.
LEMMA PushHistory ==
  ASSUME NEW s \in Histories, NEW e \in EventTypes,
         NEW d \in Nat, d = IF Len(s) = Limit THEN 1 ELSE 0
  PROVE  /\ PushCapped(s, e) \in Histories
         /\ Len(PushCapped(s, e)) = Len(s) + 1 - d
         /\ PushCapped(s, e)[Len(s) + 1 - d] = e
         /\ \A j \in 1..Len(s) : j > d => PushCapped(s, e)[j - d] = s[j]
<1> DEFINE t == Append(s, e)
<1> USE PlatformAssumption
<1>1. s \in Seq(EventTypes) /\ Len(s) \in Nat /\ Len(s) <= Limit
  BY LenProperties DEF Histories
<1>2. /\ t \in Seq(EventTypes) /\ Len(t) = Len(s) + 1
      /\ \A j \in 1..Len(s) : t[j] = s[j]
      /\ t[Len(s) + 1] = e
  BY <1>1, AppendProperties
<1>3. CASE Len(s) = Limit
  <2>1. PushCapped(s, e) = SubSeq(t, 2, Limit + 1)
    BY <1>1, <1>2, <1>3 DEF PushCapped
  <2>2. /\ SubSeq(t, 2, Limit + 1) \in Seq(EventTypes)
        /\ Len(SubSeq(t, 2, Limit + 1)) = Limit
        /\ \A j \in 1..Limit : SubSeq(t, 2, Limit + 1)[j] = t[j + 1]
    BY <1>1, <1>2, <1>3
  <2> QED  BY <1>1, <1>2, <1>3, <2>1, <2>2 DEF Histories
<1>4. CASE Len(s) # Limit
  <2>1. PushCapped(s, e) = t
    BY <1>1, <1>2, <1>4 DEF PushCapped
  <2> QED  BY <1>1, <1>2, <1>4, <2>1 DEF Histories
<1> QED  BY <1>3, <1>4

\* Appending an event loses no seller event but by overflow, records the new one, and touches
\* neither the binding nor the code.
LEMMA AppendRecord ==
  ASSUME NEW x, GoodRequest(x), NEW e \in EventTypes,
         e \in SellerEvents => ~Recorded(x, e)
  PROVE  /\ GoodRequest(AppendEvent(x, e))
         /\ \A f \in SellerEvents, n \in Nat :
              HasEvent(x, f, n) => HasEvent(AppendEvent(x, e), f, n)
         /\ HasEvent(AppendEvent(x, e), e, x.appended + 1)
         /\ AppendEvent(x, e).buyer = x.buyer /\ AppendEvent(x, e).subagent = x.subagent
         /\ AppendEvent(x, e).code = x.code
<1> DEFINE y == AppendEvent(x, e)
           s == x.events
           t == PushCapped(s, e)
           d == IF Len(s) = Limit THEN 1 ELSE 0
<1> USE PlatformAssumption
<1>1. x \in Request /\ s \in Histories /\ Len(s) \in Nat /\ x.appended \in Nat
      /\ Len(s) <= x.appended /\ Len(s) <= Limit
  BY LenProperties DEF GoodRequest, Request, Histories
<1>2. d \in Nat /\ (d = 0 \/ d = 1) /\ (d = 1 => Len(s) = Limit) /\ (d = 0 => Len(s) < Limit)
  BY <1>1
<1>d. d = IF Len(s) = Limit THEN 1 ELSE 0
  OBVIOUS
<1> HIDE DEF d
<1>3. /\ PushCapped(s, e) \in Histories /\ Len(PushCapped(s, e)) = Len(s) + 1 - d
      /\ PushCapped(s, e)[Len(s) + 1 - d] = e
      /\ \A j \in 1..Len(s) : j > d => PushCapped(s, e)[j - d] = s[j]
  <2>1. s \in Histories /\ d \in Nat
    BY <1>1, <1>2
  <2> HIDE DEF s
  <2> QED  BY ONLY <2>1, <1>d, e \in EventTypes, PushHistory
<1>4. /\ y = [x EXCEPT !.events = t, !.appended = x.appended + 1]
      /\ y \in Request /\ y.events = t /\ y.appended = x.appended + 1
      /\ y.buyer = x.buyer /\ y.subagent = x.subagent /\ y.code = x.code
  <2>1. y = [x EXCEPT !.events = t, !.appended = x.appended + 1]
    BY DEF AppendEvent
  <2>2. t \in Histories /\ x.appended + 1 \in Nat
    BY <1>1, <1>3
  <2> HIDE DEF t, y, s
  <2> QED  BY <1>1, <2>1, <2>2 DEF Request
<1>t. /\ t \in Histories /\ Len(t) = Len(s) + 1 - d /\ t[Len(s) + 1 - d] = e
      /\ \A j \in 1..Len(s) : j > d => t[j - d] = s[j]
  BY <1>3
<1>5. \A j \in 1..Len(t) : j = Len(t) \/ (j + d \in 1..Len(s) /\ t[j] = s[j + d])
  <2> HIDE DEF t, s
  <2> SUFFICES ASSUME NEW j \in 1..Len(t), j # Len(t)
               PROVE  j + d \in 1..Len(s) /\ t[j] = s[j + d]
    OBVIOUS
  <2>1. j + d \in 1..Len(s) /\ j + d > d
    BY <1>1, <1>2, <1>t
  <2>2. t[(j + d) - d] = s[j + d]
    BY <1>t, <2>1
  <2>3. (j + d) - d = j
    BY <1>2, <2>1
  <2> QED  BY <2>1, <2>2, <2>3
<1>6. DOMAIN s = 1..Len(s) /\ DOMAIN t = 1..Len(t)
  <2>1. s \in Seq(EventTypes) /\ t \in Seq(EventTypes)
    BY <1>1, <1>t DEF Histories
  <2> HIDE DEF t, s
  <2> QED  BY <2>1, LenProperties
<1> HIDE DEF t, s, y
<1>7. Once(y)
  <2> SUFFICES ASSUME NEW f \in SellerEvents, NEW j \in 1..Len(t), NEW k \in 1..Len(t),
                      t[j] = f, t[k] = f
               PROVE  j = k
    BY <1>4, <1>6 DEF Once, Matching
  <2>1. CASE j = Len(t) /\ k # Len(t)
    <3>1. e = f /\ k + d \in 1..Len(s) /\ s[k + d] = f
      BY <1>t, <1>5, <2>1
    <3> QED  BY <1>6, <3>1 DEF Recorded, Matching, s
  <2>2. CASE k = Len(t) /\ j # Len(t)
    <3>1. e = f /\ j + d \in 1..Len(s) /\ s[j + d] = f
      BY <1>t, <1>5, <2>2
    <3> QED  BY <1>6, <3>1 DEF Recorded, Matching, s
  <2>3. CASE j # Len(t) /\ k # Len(t)
    <3>1. j + d \in 1..Len(s) /\ s[j + d] = f /\ k + d \in 1..Len(s) /\ s[k + d] = f
      BY <1>5, <2>3
    <3>2. j + d = k + d
      BY <1>6, <3>1 DEF GoodRequest, Once, Matching, s
    <3> QED  BY <1>2, <3>2
  <2> QED  BY <2>1, <2>2, <2>3
<1>8. GoodRequest(y)
  BY <1>1, <1>2, <1>t, <1>4, <1>7 DEF GoodRequest, Known
<1>9. ASSUME NEW f \in SellerEvents, NEW n \in Nat, HasEvent(x, f, n)
      PROVE  HasEvent(y, f, n)
  <2>1. CASE x.appended >= n + Limit
    BY <1>1, <1>4, <2>1 DEF HasEvent
  <2>2. CASE \E j \in Matching(x, f) : Number(x, j) = n
    <3>1. PICK j \in 1..Len(s) : s[j] = f /\ x.appended - Len(s) + j = n
      BY <1>6, <2>2 DEF Matching, Number, s
    <3>2. CASE j > d
      <4>1. j - d \in 1..Len(t) /\ t[j - d] = f
        <5>1. t[j - d] = s[j]
          BY <1>t, <3>1, <3>2
        <5>2. j - d \in 1..Len(s) + 1 - d
          BY <1>1, <1>2, <3>1, <3>2
        <5> QED  BY <1>t, <3>1, <5>1, <5>2
      <4>2. Number(y, j - d) = n
        BY <1>1, <1>2, <1>t, <1>4, <3>1 DEF Number
      <4> QED  BY <1>4, <1>6, <4>1, <4>2 DEF HasEvent, Matching
    <3>3. CASE ~(j > d)
      <4>1. j = 1 /\ d = 1 /\ Len(s) = Limit
        BY <1>2, <3>1, <3>3
      <4>2. y.appended >= n + Limit
        BY <1>1, <1>4, <3>1, <4>1
      <4> QED  BY <4>2 DEF HasEvent
    <3> QED  BY <3>2, <3>3
  <2> QED  BY <1>9, <2>1, <2>2 DEF HasEvent
<1>10. HasEvent(y, e, x.appended + 1)
  <2>1. Len(t) \in 1..Len(t) /\ t[Len(t)] = e
    BY <1>1, <1>2, <1>t
  <2>2. Number(y, Len(t)) = x.appended + 1
    BY <1>1, <1>2, <1>t, <1>4 DEF Number
  <2> QED  BY <1>4, <1>6, <2>1, <2>2 DEF HasEvent, Matching
<1> QED  BY <1>4, <1>8, <1>9, <1>10 DEF y

-----------------------------------------------------------------------------
(* What a handler does to a request                                        *)

\* y is what a handler makes of x: the binding and the code are final once made, and no
\* seller event is lost but by overflow.
Evolves(x, y) ==
  /\ GoodRequest(y)
  /\ Known(x) => y.buyer = x.buyer /\ y.subagent = x.subagent
  /\ x.code # 0 => y.code = x.code
  /\ \A f \in SellerEvents, n \in Nat : HasEvent(x, f, n) => HasEvent(y, f, n)

\* Binding a request to the buyer and subagent it may have, and giving it a code, evolves it.
LEMMA BoundGood ==
  ASSUME NEW x, GoodRequest(x), NEW b \in Buyers, NEW a \in Subagents, NEW c \in Nat,
         x.buyer \in {Null, b}, x.subagent \in {Null, a}, x.code # 0 => c = x.code
  PROVE  Evolves(x, [BindRequest(x, b, a) EXCEPT !.code = c])
<1> DEFINE y == [BindRequest(x, b, a) EXCEPT !.code = c]
<1>1. /\ y \in Request /\ y.buyer = b /\ y.subagent = a /\ y.code = c
      /\ y.events = x.events /\ y.appended = x.appended
  BY DEF GoodRequest, Request, BindRequest
<1>2. b # Null /\ a # Null
  BY PlatformAssumption
<1>3. GoodRequest(y)
  BY <1>1, <1>2 DEF GoodRequest, Known, Once, Matching
<1>4. \A f \in SellerEvents, n \in Nat : HasEvent(x, f, n) => HasEvent(y, f, n)
  BY <1>1 DEF HasEvent, Matching, Number
<1> QED  BY <1>1, <1>3, <1>4 DEF Evolves, Known, GoodRequest

\* An event on top of that evolves it as well.
LEMMA AppendEvolves ==
  ASSUME NEW x, GoodRequest(x), NEW y, Evolves(x, y), NEW e \in EventTypes,
         e \in SellerEvents => ~Recorded(y, e)
  PROVE  /\ Evolves(x, AppendEvent(y, e))
         /\ HasEvent(AppendEvent(y, e), e, y.appended + 1)
         /\ AppendEvent(y, e).buyer = y.buyer /\ AppendEvent(y, e).code = y.code
<1>1. GoodRequest(y)
  BY DEF Evolves
<1> QED  BY <1>1, AppendRecord DEF Evolves

-----------------------------------------------------------------------------
(* What a step does to the memory                                          *)

Changed(r, y) == Evolves(mem.requests[r], y) /\ SetRequest(r, y)

\* A handler that evolves one request leaves the memory well formed.
LEMMA SetGood ==
  ASSUME GoodDoc(mem), NEW r \in Requests, NEW y, Changed(r, y)
  PROVE  /\ GoodDoc(mem')
         /\ mem'.requests = [mem.requests EXCEPT ![r] = y]
         /\ mem'.public = mem.public /\ mem'.version = mem.version
<1>1. /\ mem.requests \in [Requests -> Request] /\ y \in Request
      /\ mem' = [mem EXCEPT !.requests = [mem.requests EXCEPT ![r] = y]]
  BY DEF Changed, Evolves, GoodRequest, GoodDoc, Doc, SetRequest
<1>2. /\ mem' \in Doc /\ mem'.requests = [mem.requests EXCEPT ![r] = y]
      /\ mem'.public = mem.public /\ mem'.version = mem.version
  BY <1>1 DEF GoodDoc, Doc
<1>3. \A q \in Requests : GoodRequest(mem'.requests[q])
  BY <1>1, <1>2 DEF Changed, Evolves, GoodDoc
<1> QED  BY <1>2, <1>3 DEF GoodDoc

-----------------------------------------------------------------------------
(* What is answered                                                        *)

\* Holds, with the number of the event an answer was about.
Proven(doc, f) ==
  \/ f.kind = "moderated" /\ doc.version >= f.n
  \/ f.kind = "token" /\ f.req \in Requests /\ Known(doc.requests[f.req])
  \/ f.kind = "meta" /\ f.req \in Requests /\ f.n # 0 /\ doc.requests[f.req].code = f.n
  \/ /\ f.kind \in SellerEvents /\ f.req \in Requests /\ Known(doc.requests[f.req])
     /\ HasEvent(doc.requests[f.req], f.kind, f.n)

\* Proven is the stronger of the two.
LEMMA ProvenHolds ==
  ASSUME NEW doc, NEW f, Proven(doc, f)
  PROVE  Holds(doc, f)
  BY DEF Proven, Holds, HasEvent

\* The parts of an answer.
LEMMA FactType ==
  ASSUME NEW kind \in Kinds, NEW r \in Requests \cup {Null}, NEW n \in Nat
  PROVE  /\ Fact(kind, r, n) \in Facts
         /\ Fact(kind, r, n).kind = kind /\ Fact(kind, r, n).req = r /\ Fact(kind, r, n).n = n
  BY DEF Fact, Facts

\* Evolving one request takes back nothing that was true of the memory.
LEMMA ChangeKeeps ==
  ASSUME GoodDoc(mem), NEW r \in Requests, NEW y, Changed(r, y), NEW g \in Facts, Proven(mem, g)
  PROVE  Proven(mem', g)
<1> DEFINE q == g.req
<1>1. /\ mem'.requests = [mem.requests EXCEPT ![r] = y]
      /\ mem'.public = mem.public /\ mem'.version = mem.version
      /\ mem.requests \in [Requests -> Request]
  BY SetGood DEF GoodDoc, Doc
<1>2. g.n \in Nat /\ GoodRequest(y) /\ GoodRequest(mem.requests[r])
  BY DEF Facts, Changed, Evolves, GoodDoc
<1>3. CASE g.kind = "moderated"
  BY <1>1, <1>3 DEF Proven, SellerEvents
<1>4. CASE g.kind = "token"
  <2>1. q \in Requests /\ Known(mem.requests[q])
    BY <1>4 DEF Proven, SellerEvents
  <2>2. Known(mem'.requests[q])
    BY <1>1, <2>1 DEF Changed, Evolves, Known
  <2> QED  BY <1>4, <2>1, <2>2 DEF Proven
<1>5. CASE g.kind = "meta"
  <2>1. q \in Requests /\ g.n # 0 /\ mem.requests[q].code = g.n
    BY <1>5 DEF Proven, SellerEvents
  <2>2. mem'.requests[q].code = g.n
    BY <1>1, <2>1 DEF Changed, Evolves
  <2> QED  BY <1>5, <2>1, <2>2 DEF Proven
<1>6. CASE g.kind \in SellerEvents
  <2>1. q \in Requests /\ HasEvent(mem.requests[q], g.kind, g.n) /\ Known(mem.requests[q])
    BY <1>6 DEF Proven, SellerEvents
  <2>2. HasEvent(mem'.requests[q], g.kind, g.n)
    BY <1>1, <1>2, <1>6, <2>1 DEF Changed, Evolves
  <2>3. Known(mem'.requests[q])
    BY <1>1, <2>1 DEF Changed, Evolves, Known
  <2> QED  BY <1>6, <2>1, <2>2, <2>3 DEF Proven
<1> QED  BY <1>3, <1>4, <1>5, <1>6 DEF Facts, Kinds

\* A handler's step: the memory changes one request or what is public, everything answered
\* stays true, and the handler answers f now or when it has saved.
Answers(h, f) ==
  /\ f \in Facts /\ Proven(mem', f)
  /\ \/ Persist(h, f)
     \/ promised' = promised \cup {f} /\ UNCHANGED <<mem, rows, call, kept, faults>>

Served(h) ==
  /\ Idle(h)
  /\ (\E r \in Requests : \E y : Changed(r, y)) \/ mem'.requests = mem.requests
  /\ GoodDoc(mem')
  /\ \A g \in Facts : Proven(mem, g) => Proven(mem', g)
  /\ \E f \in Facts : Answers(h, f)
  /\ codes' \in Nat /\ crashes' = crashes

\* A handler that evolves a request and answers what is now true of it serves its caller.
LEMMA ChangeServes ==
  ASSUME GoodDoc(mem), NEW h, Idle(h), NEW r \in Requests, NEW y, Changed(r, y),
         NEW f \in Facts, f.req = r, f.n \in Nat,
         \/ f.kind = "token" /\ Known(y)
         \/ f.kind = "meta" /\ f.n # 0 /\ y.code = f.n
         \/ f.kind \in SellerEvents /\ Known(y) /\ HasEvent(y, f.kind, f.n),
         \/ Persist(h, f)
         \/ promised' = promised \cup {f} /\ UNCHANGED <<mem, rows, call, kept, faults>>,
         codes' \in Nat, crashes' = crashes
  PROVE  Served(h)
<1>1. mem'.requests[r] = y
  <2>1. mem'.requests = [mem.requests EXCEPT ![r] = y]
    BY SetGood
  <2>2. mem.requests \in [Requests -> Request]
    BY DEF GoodDoc, Doc
  <2> QED  BY <2>1, <2>2
<1>2. Proven(mem', f)
  BY <1>1 DEF Proven
<1> QED  BY <1>2, SetGood, ChangeKeeps DEF Served, Answers

-----------------------------------------------------------------------------
(* The handlers                                                            *)

\* POST tokens/task and delivery-meta.
LEMMA BuyerServed ==
  ASSUME IInv, NEW h \in Handlers, BuyerCall(h)
  PROVE  Served(h)
<1> PICK r \in Requests, b \in Buyers, a \in Subagents :
      IssueToken(h, r, b, a) \/ IssueDeliveryMeta(h, r, b, a)
  BY DEF BuyerCall
<1> DEFINE x == mem.requests[r]
<1>1. GoodDoc(mem) /\ GoodRequest(x) /\ x.code \in Nat /\ codes \in Nat
  BY DEF IInv, GoodDoc, GoodRequest, Request, CountsOK
<1>2. CASE IssueToken(h, r, b, a)
  <2> DEFINE z == BindRequest(x, b, a)
             y == AppendEvent(z, "TASK_TOKEN_ISSUED")
  <2>1. Evolves(x, z)
    <3>1. Evolves(x, [z EXCEPT !.code = x.code])
      BY <1>1, <1>2, BoundGood DEF IssueToken, Bindable
    <3>2. [z EXCEPT !.code = x.code] = z
      BY <1>1 DEF GoodRequest, Request, BindRequest
    <3> QED  BY <3>1, <3>2
  <2>2. Evolves(x, y) /\ y.buyer = z.buyer
    BY <1>1, <2>1, AppendEvolves DEF EventTypes, SellerEvents
  <2>3. Known(y)
    BY <1>1, <2>2, PlatformAssumption DEF Known, BindRequest, GoodRequest, Request
  <2>4. Changed(r, y)
    BY <1>2, <2>2 DEF IssueToken, Changed
  <2>5. Fact("token", r, 0) \in Facts /\ Fact("token", r, 0).req = r
        /\ Fact("token", r, 0).kind = "token" /\ Fact("token", r, 0).n \in Nat
    BY FactType DEF Kinds
  <2> QED  BY <1>1, <1>2, <2>3, <2>4, <2>5, ChangeServes DEF IssueToken
<1>3. CASE IssueDeliveryMeta(h, r, b, a)
  <2> DEFINE c == CodeFor(x)
             z == [BindRequest(x, b, a) EXCEPT !.code = c]
             y == AppendEvent(z, "DELIVERY_META_ISSUED")
  <2>1. c \in Nat /\ c # 0 /\ (x.code # 0 => c = x.code) /\ codes' \in Nat
    BY <1>1, <1>3 DEF CodeFor, IssueDeliveryMeta
  <2>2. Evolves(x, z) /\ z.code = c
    <3>1. Evolves(x, z)
      BY <1>1, <1>3, <2>1, BoundGood DEF IssueDeliveryMeta, Bindable
    <3>2. z.code = c
      BY <1>1 DEF GoodRequest, Request, BindRequest
    <3> QED  BY <3>1, <3>2
  <2>3. Evolves(x, y) /\ y.code = c
    BY <1>1, <2>2, AppendEvolves DEF EventTypes, SellerEvents
  <2>4. Changed(r, y)
    BY <1>3, <2>3 DEF IssueDeliveryMeta, Changed
  <2>5. Fact("meta", r, c) \in Facts /\ Fact("meta", r, c).req = r
        /\ Fact("meta", r, c).kind = "meta" /\ Fact("meta", r, c).n = c
    BY <2>1, FactType DEF Kinds
  <2>6. Idle(h) /\ Persist(h, Fact("meta", r, c)) /\ crashes' = crashes
    BY <1>3 DEF IssueDeliveryMeta
  <2> HIDE DEF c, y
  <2> QED  BY <1>1, <2>1, <2>3, <2>4, <2>5, <2>6, ChangeServes
<1> QED  BY <1>2, <1>3

\* POST ack and events, recorded or answered from the history.
LEMMA SellerServed ==
  ASSUME IInv, NEW h \in Handlers, SellerCall(h)
  PROVE  Served(h)
<1> PICK r \in Requests, a \in Subagents, e \in SellerEvents :
      RecordEvent(h, r, a, e) \/ AnswerRecorded(h, r, a, e)
  BY DEF SellerCall, AckRequest, ReportEvent, SellerEvents
<1> DEFINE x == mem.requests[r]
           z == BindRequest(x, x.buyer, a)
           n == x.appended + 1
<1>1. GoodDoc(mem) /\ GoodRequest(x) /\ x.code \in Nat /\ codes \in Nat /\ x.appended \in Nat
  BY DEF IInv, GoodDoc, GoodRequest, Request, CountsOK
<1>2. /\ Known(x) /\ Bindable(x, a) /\ Idle(h) /\ crashes' = crashes /\ codes' = codes
      /\ x.buyer \in Buyers
  BY <1>1 DEF RecordEvent, AnswerRecorded, Known, GoodRequest, Request
<1>3. Evolves(x, z) /\ z.events = x.events /\ z.appended = x.appended
  <2>1. Evolves(x, [z EXCEPT !.code = x.code])
    BY <1>1, <1>2, BoundGood DEF Bindable
  <2>2. [z EXCEPT !.code = x.code] = z /\ z.events = x.events /\ z.appended = x.appended
    BY <1>1 DEF GoodRequest, Request, BindRequest
  <2> QED  BY <2>1, <2>2
<1>4. CASE RecordEvent(h, r, a, e)
  <2> DEFINE y == AppendEvent(z, e)
  <2>1. ~Recorded(z, e)
    BY <1>3, <1>4 DEF RecordEvent, Recorded, Matching
  <2>2. Evolves(x, y) /\ HasEvent(y, e, n)
    BY <1>1, <1>3, <2>1, AppendEvolves DEF EventTypes
  <2>3. Changed(r, y)
    BY <1>4, <2>2 DEF RecordEvent, Changed
  <2>4. Fact(e, r, n) \in Facts /\ Fact(e, r, n).req = r
        /\ Fact(e, r, n).kind = e /\ Fact(e, r, n).n = n
    BY <1>1, FactType DEF Kinds
  <2>5. Persist(h, Fact(e, r, n))
    BY <1>4 DEF RecordEvent
  <2>6. Known(y)
    BY <1>2, <2>2 DEF Evolves, Known
  <2> HIDE DEF y
  <2> QED  BY <1>1, <1>2, <2>2, <2>3, <2>4, <2>5, <2>6, ChangeServes
<1>5. CASE AnswerRecorded(h, r, a, e)
  <2>1. PICK j \in Matching(x, e) : promised' = promised \cup {Fact(e, r, Number(x, j))}
    BY <1>5 DEF AnswerRecorded
  <2>2. Number(x, j) \in Nat
    <3>1. x.events \in Seq(EventTypes) /\ Len(x.events) <= x.appended
      BY <1>1 DEF GoodRequest, Request, Histories
    <3>2. j \in 1..Len(x.events) /\ Len(x.events) \in Nat
      BY <2>1, <3>1, LenProperties DEF Matching
    <3> QED  BY <1>1, <3>1, <3>2 DEF Number
  <2>3. HasEvent(z, e, Number(x, j))
    BY <1>3, <2>1 DEF HasEvent, Matching, Number
  <2>4. Changed(r, z)
    BY <1>3, <1>5 DEF AnswerRecorded, Changed
  <2>5. Fact(e, r, Number(x, j)) \in Facts /\ Fact(e, r, Number(x, j)).req = r
        /\ Fact(e, r, Number(x, j)).kind = e /\ Fact(e, r, Number(x, j)).n = Number(x, j)
    BY <2>2, FactType DEF Kinds
  <2>6. UNCHANGED <<mem, rows, call, kept, faults>>
    <3>1. z = x
      BY <1>1, <1>2 DEF BindRequest, Bindable, Known, GoodRequest, Request
    <3>2. mem' = [mem EXCEPT !.requests[r] = x]
      BY <1>5, <3>1 DEF AnswerRecorded, SetRequest
    <3>3. mem' = mem
      BY <1>1, <3>2 DEF GoodDoc, Doc
    <3> QED  BY <1>5, <3>3 DEF AnswerRecorded
  <2>7. Known(z)
    BY <1>2, <1>3 DEF Evolves, Known
  <2> HIDE DEF z
  <2> QED  BY <1>1, <1>2, <2>1, <2>2, <2>3, <2>4, <2>5, <2>6, <2>7, ChangeServes
<1> QED  BY <1>4, <1>5

\* Moderation.
LEMMA OperatorServed ==
  ASSUME IInv, NEW h \in Handlers, OperatorCall(h)
  PROVE  Served(h)
<1> PICK public \in SUBSET Subagents : Moderate(h, public)
  BY DEF OperatorCall
<1> DEFINE f == Fact("moderated", Null, mem.version + 1)
<1>1. GoodDoc(mem) /\ mem \in Doc /\ mem.version \in Nat /\ codes \in Nat
  BY DEF IInv, GoodDoc, Doc, CountsOK
<1>2. /\ mem' \in Doc /\ mem'.requests = mem.requests /\ mem'.version = mem.version + 1
      /\ Persist(h, f) /\ Idle(h) /\ codes' = codes /\ crashes' = crashes
  <2>1. mem' = [mem EXCEPT !.public = public, !.version = mem.version + 1]
    BY DEF Moderate
  <2>2. /\ mem' \in Doc /\ mem'.requests = mem.requests /\ mem'.version = mem.version + 1
    <3>1. mem.version + 1 \in Nat /\ public \in SUBSET Subagents
      BY <1>1
    <3> QED  BY ONLY <1>1, <2>1, <3>1 DEF Doc
  <2> QED  BY <2>2 DEF Moderate
<1>3. f \in Facts /\ f.kind = "moderated" /\ f.n = mem.version + 1
  <2>1. mem.version + 1 \in Nat
    BY <1>1
  <2> QED  BY <2>1 DEF Fact, Facts, Kinds
<1>4. Proven(mem', f)
  BY <1>1, <1>2, <1>3 DEF Proven
<1>5. GoodDoc(mem')
  BY <1>1, <1>2 DEF GoodDoc
<1>6. \A g \in Facts : Proven(mem, g) => Proven(mem', g)
  BY <1>1, <1>2 DEF Proven, Facts
<1> HIDE DEF f
<1> QED  BY <1>1, <1>2, <1>3, <1>4, <1>5, <1>6 DEF Served, Answers

\* Every handler serves its caller.
LEMMA CallServed ==
  ASSUME IInv, NEW h \in Handlers, BuyerCall(h) \/ SellerCall(h) \/ OperatorCall(h)
  PROVE  Served(h)
  BY BuyerServed, SellerServed, OperatorServed

-----------------------------------------------------------------------------
(* The invariant holds                                                     *)

\* What the platform starts with is well formed.
LEMMA FreshGood ==
  GoodDoc(EmptyDoc) /\ GoodRequest(FreshRequest)
<1>1. <<>> \in Histories
  <2>1. <<>> \in Seq(EventTypes) /\ Len(<<>>) = 0
    OBVIOUS
  <2> QED  BY <2>1, PlatformAssumption DEF Histories
<1>2. FreshRequest \in Request
  BY <1>1 DEF FreshRequest, Request
<1>3. GoodRequest(FreshRequest)
  BY <1>2 DEF FreshRequest, GoodRequest, Once, Matching
<1>4. EmptyDoc \in Doc
  BY <1>2 DEF EmptyDoc, Doc
<1> QED  BY <1>3, <1>4 DEF GoodDoc, EmptyDoc

\* So is a handler that saves nothing.
LEMMA IdleCallType ==
  IdleCall \in Call /\ GoodDoc(IdleCall.doc)
<1>1. Fact("token", Null, 0) \in Facts
  BY DEF Fact, Facts, Kinds
<1> QED  BY <1>1, FreshGood DEF IdleCall, Call, GoodDoc

\* And a snapshot of some of the requests.
LEMMA SerializedGood ==
  ASSUME GoodDoc(mem), NEW keys
  PROVE  GoodDoc(Serialized(keys))
<1> DEFINE q == [r \in Requests |-> IF r \in keys THEN mem.requests[r] ELSE FreshRequest]
<1>1. mem \in Doc /\ Serialized(keys) = [mem EXCEPT !.requests = q]
  BY DEF GoodDoc, Serialized
<1>2. q \in [Requests -> Request] /\ \A r \in Requests : GoodRequest(q[r])
  BY FreshGood DEF GoodDoc, GoodRequest
<1> HIDE DEF q
<1> QED  BY <1>1, <1>2 DEF GoodDoc, Doc

\* Beginning or making a save keeps rows and calls in order.
LEMMA PersistOK ==
  ASSUME IInv, NEW h \in Handlers, GoodDoc(mem'), NEW f \in Facts, Persist(h, f)
  PROVE  RowsOK' /\ CallsOK' /\ AnswersOK' /\ faults' \in Nat
<1> USE DEF IInv
<1>1. CASE SaveNow(h, f)
  BY <1>1 DEF SaveNow, RowsOK, CallsOK, AnswersOK, CountsOK
<1>2. CASE SaveThrows
  BY <1>2 DEF SaveThrows, RowsOK, CallsOK, AnswersOK, CountsOK
<1>3. CASE BeginSave(h, f)
  <2> DEFINE c == [IdleCall EXCEPT !.pc = "delete", !.fact = f, !.keys = SavedKeys,
                                   !.alone = OthersIdle(h)]
  <2>1. UNCHANGED <<rows, promised, kept, faults>>
        /\ call' = [d \in Handlers |-> IF d = h THEN c ELSE [call[d] EXCEPT !.alone = FALSE]]
    BY <1>3 DEF BeginSave
  <2>2. c \in Call /\ GoodDoc(c.doc)
    <3>1. SavedKeys \in SUBSET Requests /\ OthersIdle(h) \in BOOLEAN
      BY DEF SavedKeys, OthersIdle
    <3> QED  BY <3>1, IdleCallType DEF Call
  <2>3. \A k \in Call : [k EXCEPT !.alone = FALSE] \in Call
                        /\ [k EXCEPT !.alone = FALSE].doc = k.doc
    BY DEF Call
  <2> HIDE DEF c
  <2>4. CallsOK'
    BY <2>1, <2>2, <2>3 DEF CallsOK
  <2> QED  BY <2>1, <2>4 DEF RowsOK, AnswersOK, CountsOK
<1> QED  BY <1>1, <1>2, <1>3 DEF Persist

\* So does every step of a transaction.
LEMMA StoreOK ==
  ASSUME IInv, NEW h \in Handlers, StoreStep(h) \/ RollBack(h)
  PROVE  IInv'
<1> USE DEF IInv
<1>1. call \in [Handlers -> Call] /\ call[h] \in Call /\ GoodDoc(call[h].doc)
  BY DEF CallsOK
<1>2. CASE StartDelete(h)
  <2>1. [call[h] EXCEPT !.pc = "insert", !.seen = DOMAIN rows] \in Call
    BY <1>1 DEF RowsOK, Call
  <2>2. call' = [call EXCEPT ![h] = [call[h] EXCEPT !.pc = "insert", !.seen = DOMAIN rows]]
    BY <1>1, <1>2 DEF StartDelete
  <2>3. CallsOK'
    BY <1>1, <2>1, <2>2 DEF CallsOK, Call
  <2> QED  BY <1>2, <2>3 DEF StartDelete, RowsOK, AnswersOK, CountsOK
<1>3. CASE Insert(h)
  <2> DEFINE c == [call[h] EXCEPT !.pc = "commit", !.deleted = call[h].deleted \cup call[h].seen,
                                  !.doc = Serialized(call[h].keys)]
  <2>1. GoodDoc(Serialized(call[h].keys)) /\ Serialized(call[h].keys) \in Doc
    BY SerializedGood DEF GoodDoc
  <2>2. c \in Call /\ c.doc = Serialized(call[h].keys)
    BY <1>1, <2>1 DEF Call
  <2>3. call' = [call EXCEPT ![h] = c]
    BY <1>1, <1>3 DEF Insert
  <2> HIDE DEF c
  <2>4. CallsOK'
    BY <1>1, <2>1, <2>2, <2>3 DEF CallsOK
  <2> QED  BY <1>3, <2>4 DEF Insert, RowsOK, AnswersOK, CountsOK
<1>4. CASE Commit(h)
  <2> DEFINE gone == call[h].deleted
  <2>1. rows' = [d \in (DOMAIN rows \ gone) \cup {h} |-> IF d = h THEN call[h].doc ELSE rows[d]]
    BY <1>4 DEF Commit
  <2>2. RowsOK'
    BY <1>1, <2>1 DEF RowsOK
  <2>3. \A d \in Handlers : [call[d] EXCEPT !.seen = call[d].seen \ (gone \cup {h})] \in Call
                  /\ [call[d] EXCEPT !.seen = call[d].seen \ (gone \cup {h})].doc = call[d].doc
    BY DEF CallsOK, Call
  <2>4. call' = [d \in Handlers |->
          IF d = h THEN IdleCall ELSE [call[d] EXCEPT !.seen = call[d].seen \ (gone \cup {h})]]
    BY <1>4 DEF Commit
  <2> HIDE DEF gone
  <2>5. CallsOK'
    BY <2>3, <2>4, IdleCallType DEF CallsOK
  <2>6. AnswersOK'
    BY <1>1, <1>4 DEF Commit, AnswersOK, Call
  <2> QED  BY <1>4, <2>2, <2>5, <2>6 DEF Commit, CountsOK
<1>5. CASE RollBack(h)
  <2>1. CallsOK'
    BY <1>1, <1>5, IdleCallType DEF RollBack, CallsOK
  <2> QED  BY <1>5, <2>1 DEF RollBack, RowsOK, AnswersOK, CountsOK
<1> QED  BY <1>2, <1>3, <1>4, <1>5 DEF StoreStep

\* What a restart loads is well formed.
LEMMA LoadableGood ==
  ASSUME RowsOK, NEW doc \in Loadable
  PROVE  GoodDoc(doc)
  BY FreshGood DEF RowsOK, Loadable

\* Every step keeps all records well formed.
LEMMA InvariantStep ==
  ASSUME IInv, [Next]_vars
  PROVE  IInv'
<1>1. ASSUME NEW h \in Handlers, BuyerCall(h) \/ SellerCall(h) \/ OperatorCall(h)
      PROVE  IInv'
  <2>1. Served(h)
    BY <1>1, CallServed
  <2>2. GoodDoc(mem') /\ codes' \in Nat /\ crashes' \in Nat
    BY <2>1 DEF Served, IInv, CountsOK
  <2>3. PICK f \in Facts : Answers(h, f)
    BY <2>1 DEF Served
  <2>4. RowsOK' /\ CallsOK' /\ AnswersOK' /\ faults' \in Nat
    <3>1. CASE Persist(h, f)
      BY <2>2, <3>1, PersistOK
    <3>2. CASE promised' = promised \cup {f} /\ UNCHANGED <<mem, rows, call, kept, faults>>
      BY <3>2 DEF IInv, RowsOK, CallsOK, AnswersOK, CountsOK
    <3> QED  BY <2>3, <3>1, <3>2 DEF Answers
  <2> QED  BY <2>2, <2>4 DEF IInv, CountsOK
<1>2. CASE Crash
  <2>1. PICK doc \in Loadable : mem' = doc
    BY <1>2 DEF Crash, Hydrate
  <2>2. GoodDoc(mem')
    BY <2>1, LoadableGood DEF IInv
  <2>3. CallsOK'
    BY <1>2, IdleCallType DEF Crash, CallsOK
  <2> QED  BY <1>2, <2>2, <2>3 DEF Crash, IInv, RowsOK, AnswersOK, CountsOK
<1>3. CASE UNCHANGED vars
  BY <1>3 DEF vars, IInv, RowsOK, CallsOK, AnswersOK, CountsOK
<1> QED  BY <1>1, <1>2, <1>3, StoreOK DEF Next

\* The records in memory, in the table and on their way there are well formed at all times.
THEOREM Invariant == Spec => []IInv
<1>1. Init => IInv
  <2> SUFFICES ASSUME Init PROVE IInv
    OBVIOUS
  <2>1. CallsOK
    BY IdleCallType DEF Init, CallsOK
  <2> QED  BY <2>1, FreshGood DEF Init, IInv, RowsOK, AnswersOK, CountsOK
<1> QED  BY <1>1, InvariantStep, PTL DEF Spec

\* Types, and the bound of the histories, in memory and saved.
THEOREM TypeCorrect == Spec => []TypeOK
<1>1. IInv => TypeOK
  BY DEF IInv, TypeOK, GoodDoc, RowsOK, CallsOK, AnswersOK, CountsOK
<1> QED  BY <1>1, Invariant, PTL

\* Acks and reports are recorded once, whatever is retried, lost, saved late or restored.
THEOREM RecordedOnce == Spec => []OncePerKind
<1>1. IInv => OncePerKind
  BY LoadableGood DEF IInv, OncePerKind, GoodDoc, GoodRequest, Once
<1> QED  BY <1>1, Invariant, PTL

-----------------------------------------------------------------------------
(* The sqlite store                                                        *)

\* new has every binding and every display code that doc has.
Follows(doc, new) ==
  \A r \in Requests :
    LET x == doc.requests[r]
        y == new.requests[r]
    IN  /\ Known(x) => y.buyer = x.buyer /\ y.subagent = x.subagent
        /\ x.code # 0 => y.code = x.code

\* There is one snapshot, and the memory is ahead of it.  What was saved is true of both; as
\* long as no save has failed, they are the same and whatever was answered is true.
SqliteInv ==
  /\ \A h \in Handlers : Idle(h)
  /\ \A doc \in Loadable : doc = Snapshot
  /\ Follows(Snapshot, mem)
  /\ \A f \in kept : Proven(Snapshot, f) /\ Proven(mem, f)
  /\ faults = 0 => Snapshot = mem /\ \A f \in promised : Proven(mem, f)

\* A handler takes back no binding and no code.
LEMMA ServedFollows ==
  ASSUME GoodDoc(mem), NEW h, Served(h)
  PROVE  Follows(mem, mem')
<1>1. CASE mem'.requests = mem.requests
  BY <1>1 DEF Follows
<1>2. ASSUME NEW r \in Requests, NEW y, Changed(r, y)
      PROVE  Follows(mem, mem')
  <2>1. mem'.requests = [mem.requests EXCEPT ![r] = y] /\ mem.requests \in [Requests -> Request]
    BY <1>2, SetGood DEF GoodDoc, Doc
  <2> QED  BY <1>2, <2>1 DEF Follows, Changed, Evolves
<1> QED  BY <1>1, <1>2 DEF Served

\* With the sqlite store each step keeps its invariant, and the new snapshot follows the old.
LEMMA SqliteStep ==
  ASSUME Store = "sqlite", IInv, SqliteInv, [Next]_vars
  PROVE  SqliteInv' /\ Follows(Snapshot, Snapshot')
<1> DEFINE Goal == SqliteInv' /\ Follows(Snapshot, Snapshot')
<1> HIDE DEF Goal
<1>1. ASSUME rows' = rows
      PROVE  /\ Loadable' = Loadable /\ Snapshot' = Snapshot
             /\ Follows(Snapshot, Snapshot')
  <2>1. Loadable' = Loadable
    BY <1>1 DEF Loadable
  <2>2. Snapshot' = Snapshot
    BY <2>1 DEF Snapshot
  <2> QED  BY <2>1, <2>2 DEF Follows
<1>2. ASSUME NEW h \in Handlers, BuyerCall(h) \/ SellerCall(h) \/ OperatorCall(h)
      PROVE  Goal
  <2>1. Served(h) /\ Follows(mem, mem')
    BY <1>2, CallServed, ServedFollows DEF IInv
  <2>2. PICK f \in Facts : Answers(h, f)
    BY <2>1 DEF Served
  <2>3. Follows(Snapshot, mem')
    BY <2>1 DEF Follows, SqliteInv, Known
  <2>4. (\A g \in kept : Proven(mem', g)) /\ (faults = 0 => \A g \in promised : Proven(mem', g))
    BY <2>1 DEF Served, SqliteInv, IInv, AnswersOK
  <2>5. CASE SaveNow(h, f)
    <3>1. /\ rows' = [d \in {h} |-> mem'] /\ call' = call /\ faults' = faults
          /\ promised' = promised \cup {f} /\ kept' = kept \cup {f}
      BY <2>5 DEF SaveNow
    <3>2. Loadable' = {mem'}
      BY <3>1 DEF Loadable
    <3>3. Snapshot' = mem'
      BY <3>2 DEF Snapshot
    <3>4. Follows(mem', mem')
      BY DEF Follows
    <3>5. SqliteInv'
      BY <2>2, <2>4, <3>1, <3>2, <3>3, <3>4 DEF SqliteInv, Idle, Answers
    <3> QED  BY <2>3, <3>3, <3>5 DEF Goal
  <2>6. CASE SaveThrows
    <3>1. faults' # 0 /\ rows' = rows /\ call' = call /\ kept' = kept
      BY <2>6 DEF SaveThrows, IInv, CountsOK
    <3>2. SqliteInv'
      BY <1>1, <2>3, <2>4, <3>1 DEF SqliteInv, Idle
    <3> QED  BY <1>1, <3>1, <3>2 DEF Goal
  <2>7. CASE promised' = promised \cup {f} /\ UNCHANGED <<mem, rows, call, kept, faults>>
    <3>1. SqliteInv'
      BY <1>1, <2>2, <2>3, <2>4, <2>7 DEF SqliteInv, Idle, Answers
    <3> QED  BY <1>1, <2>7, <3>1 DEF Goal
  <2> QED  BY <2>2, <2>5, <2>6, <2>7 DEF Answers, Persist
<1>3. ASSUME NEW h \in Handlers, StoreStep(h) \/ RollBack(h) PROVE Goal
  BY <1>3 DEF SqliteInv, Idle, StoreStep, StartDelete, Insert, Commit, RollBack
<1>4. ASSUME Crash PROVE Goal
  <2>1. mem' = Snapshot /\ UNCHANGED <<rows, kept, promised, faults>>
    BY <1>4 DEF Crash, Hydrate, SqliteInv
  <2>2. \A h \in Handlers : Idle(h)'
    BY <1>4 DEF Crash, Idle, IdleCall
  <2>3. Follows(Snapshot, Snapshot)
    BY DEF Follows
  <2>4. SqliteInv'
    BY <1>1, <2>1, <2>2, <2>3 DEF SqliteInv
  <2> QED  BY <1>1, <2>1, <2>4 DEF Goal
<1>5. ASSUME UNCHANGED vars PROVE Goal
  <2>1. UNCHANGED <<mem, rows, call, promised, kept, faults>>
    BY <1>5 DEF vars
  <2>2. SqliteInv'
    BY <1>1, <2>1 DEF SqliteInv, Idle
  <2> QED  BY <1>1, <2>1, <2>2 DEF Goal
<1>6. Goal
  BY <1>2, <1>3, <1>4, <1>5 DEF Next
<1> QED  BY <1>6 DEF Goal

\* At first there is no snapshot, and the platform starts empty.
LEMMA SqliteInit ==
  ASSUME Init
  PROVE  SqliteInv /\ Snapshot = EmptyDoc
<1>1. Loadable = {EmptyDoc}
  BY DEF Init, Loadable
<1>2. Snapshot = EmptyDoc
  BY <1>1 DEF Snapshot
<1> QED  BY <1>1, <1>2 DEF Init, SqliteInv, Idle, IdleCall, Follows

\* The two invariants together, with the sqlite store.
LEMMA SqliteInvariant ==
  ASSUME Store = "sqlite"
  PROVE  Spec => [](IInv /\ SqliteInv)
<1>1. Init => SqliteInv
  BY SqliteInit
<1>2. IInv /\ SqliteInv /\ [Next]_vars => SqliteInv'
  BY SqliteStep
<1> QED  BY <1>1, <1>2, Invariant, PTL DEF Spec

\* As long as no save fails, every 2xx stays true, of the memory and of what a restart loads.
THEOREM AnswersKept ==
  ASSUME Store = "sqlite"
  PROVE  Spec => []PromisesKept
<1>1. IInv /\ SqliteInv => PromisesKept
  BY ProvenHolds DEF SqliteInv, PromisesKept
<1> QED  BY <1>1, SqliteInvariant, PTL

\* What was saved survives failing saves and restarts.
LEMMA SqliteKeeps ==
  ASSUME Store = "sqlite"
  PROVE  Spec => []UndisturbedKept
<1>1. IInv /\ SqliteInv => UndisturbedKept
  BY ProvenHolds DEF SqliteInv, UndisturbedKept
<1> QED  BY <1>1, SqliteInvariant, PTL

\* Tokens, delivery metadata and moderations are answered after a save of their own.
SavedFirst(f) == f.kind \in {"token", "meta", "moderated"}
PromisedSaved == \A f \in promised : SavedFirst(f) => f \in kept

\* A handler that answers without saving answers with a seller event.
LEMMA AnsweredSaved ==
  ASSUME Store = "sqlite", PromisedSaved, NEW h \in Handlers,
         BuyerCall(h) \/ SellerCall(h) \/ OperatorCall(h)
  PROVE  PromisedSaved'
<1>1. ASSUME NEW f, Persist(h, f) PROVE PromisedSaved'
  <2>1. CASE SaveNow(h, f)
    BY <2>1 DEF SaveNow, PromisedSaved, SavedFirst
  <2>2. CASE SaveThrows
    BY <2>2 DEF SaveThrows, PromisedSaved
  <2> QED  BY <1>1, <2>1, <2>2 DEF Persist
<1>2. ASSUME NEW r \in Requests, NEW a \in Subagents, NEW e \in {"ACKED", "COMPLETED", "FAILED"},
             RecordEvent(h, r, a, e) \/ AnswerRecorded(h, r, a, e)
      PROVE  PromisedSaved'
  <2>1. CASE RecordEvent(h, r, a, e)
    <3>1. PICK f : Persist(h, f)
      BY <2>1 DEF RecordEvent
    <3> QED  BY <1>1, <3>1
  <2>2. CASE AnswerRecorded(h, r, a, e)
    <3>1. PICK n : promised' = promised \cup {Fact(e, r, n)}
      BY <2>2 DEF AnswerRecorded
    <3>2. kept' = kept /\ ~SavedFirst(Fact(e, r, n))
      BY <2>2 DEF AnswerRecorded, SavedFirst, Fact
    <3> QED  BY <3>1, <3>2 DEF PromisedSaved, SavedFirst
  <2> QED  BY <1>2, <2>1, <2>2
<1>3. CASE BuyerCall(h)
  <2>1. PICK f : Persist(h, f)
    BY <1>3 DEF BuyerCall, IssueToken, IssueDeliveryMeta
  <2> QED  BY <1>1, <2>1
<1>4. CASE SellerCall(h)
  BY <1>2, <1>4 DEF SellerCall, AckRequest, ReportEvent
<1>5. CASE OperatorCall(h)
  <2>1. PICK f : Persist(h, f)
    BY <1>5 DEF OperatorCall, Moderate
  <2> QED  BY <1>1, <2>1
<1> QED  BY <1>3, <1>4, <1>5

\* With the sqlite store what is only answered after a save of its own survives failing saves
\* and restarts, whatever else was answered in between.  (With postgres it does not: a save
\* overtaken by another one may leave two snapshots, and a restart loads either.)
THEOREM SavesSurvive ==
  ASSUME Store = "sqlite"
  PROVE  Spec => []SavedSurvives
<1>1. Init => PromisedSaved
  BY DEF Init, PromisedSaved
<1>2. SqliteInv /\ PromisedSaved /\ [Next]_vars => PromisedSaved'
  <2> SUFFICES ASSUME SqliteInv, PromisedSaved, [Next]_vars PROVE PromisedSaved'
    OBVIOUS
  <2>1. ASSUME NEW h \in Handlers PROVE ~StoreStep(h) /\ ~RollBack(h)
    BY DEF SqliteInv, Idle, StoreStep, StartDelete, Insert, Commit, RollBack
  <2>2. CASE Crash
    BY <2>2 DEF Crash, PromisedSaved
  <2>3. CASE UNCHANGED vars
    BY <2>3 DEF vars, PromisedSaved
  <2> QED  BY <2>1, <2>2, <2>3, AnsweredSaved DEF Next
<1>3. SqliteInv /\ PromisedSaved => SavedSurvives
  BY ProvenHolds DEF SqliteInv, PromisedSaved, SavedFirst, SavedSurvives
<1> QED  BY <1>1, <1>2, <1>3, SqliteInvariant, PTL DEF Spec

-----------------------------------------------------------------------------
(* The postgres store                                                      *)

\* A snapshot of these requests can say it.
Covers(keys, f) == f.kind = "moderated" \/ f.req \in keys

\* What was kept is true of it.
InForce(doc) == \A f \in kept : Proven(doc, f)

\* A save under way has the requests of its own answer and of all that was kept, and once it
\* has read the records it has what they say.
SaveOK(h) ==
  /\ Proven(mem, call[h].fact) /\ Covers(call[h].keys, call[h].fact)
  /\ \A f \in kept : Covers(call[h].keys, f)
  /\ call[h].pc = "commit" => Proven(call[h].doc, call[h].fact) /\ InForce(call[h].doc)

\* A save that has been alone so far replaces every row there is.
AloneOK(h) ==
  /\ OthersIdle(h)
  /\ call[h].pc = "insert" => DOMAIN rows \subseteq call[h].seen
  /\ call[h].pc = "commit" => DOMAIN rows \subseteq call[h].deleted

PostgresInv ==
  /\ InForce(mem)
  /\ \A d \in DOMAIN rows : InForce(rows[d])
  /\ DOMAIN rows = {} => kept = {}
  /\ \A h \in Handlers : ~Idle(h) => SaveOK(h)
  /\ \A h \in Handlers : call[h].alone => AloneOK(h)

\* What is true of a request is said by a snapshot of the requests that exist.
LEMMA ProvenKnown ==
  ASSUME NEW doc, GoodDoc(doc), NEW f \in Facts, Proven(doc, f)
  PROVE  f.kind = "moderated" \/ (f.req \in Requests /\ Known(doc.requests[f.req]))
  BY DEF Proven, GoodDoc, GoodRequest

\* A snapshot says of the requests it covers what the memory says.
LEMMA SerializedProven ==
  ASSUME GoodDoc(mem), NEW keys, NEW f \in Facts, Proven(mem, f), Covers(keys, f)
  PROVE  Proven(Serialized(keys), f)
<1> DEFINE q == [r \in Requests |-> IF r \in keys THEN mem.requests[r] ELSE FreshRequest]
<1>1. mem \in Doc /\ Serialized(keys) = [mem EXCEPT !.requests = q]
  BY DEF GoodDoc, Serialized
<1>2. Serialized(keys).requests = q /\ Serialized(keys).version = mem.version
  BY <1>1 DEF Doc
<1>3. \A r \in Requests : r \in keys => q[r] = mem.requests[r]
  OBVIOUS
<1> HIDE DEF q
<1>4. CASE f.kind = "moderated"
  BY <1>2, <1>4 DEF Proven, SellerEvents
<1>5. CASE f.kind # "moderated"
  BY <1>2, <1>3, <1>5 DEF Proven, Covers
<1> QED  BY <1>4, <1>5

\* A handler's change keeps what is true of the memory; a save it begins covers it.
LEMMA PostgresServed ==
  ASSUME Store = "postgres", IInv, PostgresInv, NEW h \in Handlers, Served(h)
  PROVE  PostgresInv'
<1>1. PICK f \in Facts : Answers(h, f)
  BY DEF Served
<1>2. rows' = rows /\ kept' = kept
  BY <1>1, PlatformAssumption DEF Answers, Persist, BeginSave
<1>3. \A g \in Facts : Proven(mem, g) => Proven(mem', g)
  BY DEF Served
<1>4. kept \subseteq Facts /\ call \in [Handlers -> Call] /\ GoodDoc(mem')
      /\ \A d \in Handlers : call[d].fact \in Facts
  BY DEF IInv, AnswersOK, CallsOK, Served, Call
<1>5. InForce(mem)'
  BY <1>2, <1>3, <1>4 DEF PostgresInv, InForce
<1>6. /\ \A d \in DOMAIN rows' : InForce(rows[d])'
      /\ DOMAIN rows' = {} => kept' = {}
  BY <1>2 DEF PostgresInv, InForce
<1>7. ASSUME NEW d \in Handlers, ~Idle(d), call'[d].pc = call[d].pc,
             call'[d].fact = call[d].fact, call'[d].keys = call[d].keys, call'[d].doc = call[d].doc
      PROVE  SaveOK(d)'
  BY <1>2, <1>3, <1>4, <1>7 DEF PostgresInv, SaveOK, InForce
<1>8. CASE call' = call
  <2>1. \A d \in Handlers : ~Idle(d)' => SaveOK(d)'
    BY <1>7, <1>8 DEF Idle
  <2>2. \A d \in Handlers : call'[d].alone => AloneOK(d)'
    BY <1>2, <1>8 DEF PostgresInv, AloneOK, OthersIdle, Idle
  <2> QED  BY <1>5, <1>6, <2>1, <2>2 DEF PostgresInv
<1>9. CASE BeginSave(h, f)
  <2> DEFINE c == [IdleCall EXCEPT !.pc = "delete", !.fact = f, !.keys = SavedKeys,
                                   !.alone = OthersIdle(h)]
  <2>1. call' = [d \in Handlers |-> IF d = h THEN c ELSE [call[d] EXCEPT !.alone = FALSE]]
    BY <1>9 DEF BeginSave
  <2>2. c.pc = "delete" /\ c.fact = f /\ c.keys = SavedKeys /\ c.alone = OthersIdle(h)
    BY DEF IdleCall
  <2> HIDE DEF c
  <2>3. call'[h] = c
    BY <2>1
  <2>4. \A d \in Handlers \ {h} :
          /\ call'[d].pc = call[d].pc /\ call'[d].fact = call[d].fact
          /\ call'[d].keys = call[d].keys /\ call'[d].doc = call[d].doc
          /\ call'[d].alone = FALSE
    BY <1>4, <2>1 DEF Call
  <2>5. \A g \in Facts : Proven(mem', g) => Covers(SavedKeys, g)
    BY <1>4, ProvenKnown DEF Covers, SavedKeys
  <2>6. SaveOK(h)'
    BY <1>1, <1>2, <1>4, <1>5, <2>2, <2>3, <2>5 DEF SaveOK, InForce, Answers
  <2>7. \A d \in Handlers : ~Idle(d)' => SaveOK(d)'
    BY <1>7, <2>4, <2>6 DEF Idle
  <2>8. call'[h].alone => AloneOK(h)'
    BY <2>2, <2>3, <2>4 DEF AloneOK, OthersIdle, Idle
  <2>9. \A d \in Handlers : call'[d].alone => AloneOK(d)'
    BY <2>4, <2>8
  <2> QED  BY <1>5, <1>6, <2>7, <2>9 DEF PostgresInv
<1> QED  BY <1>1, <1>8, <1>9 DEF Answers, Persist

\* What a commit replaces was not kept, or is said by the new row as well.
LEMMA PostgresCommit ==
  ASSUME IInv, PostgresInv, NEW h \in Handlers, Commit(h)
  PROVE  PostgresInv'
<1> DEFINE gone == call[h].deleted
<1>1. call \in [Handlers -> Call]
  BY DEF IInv, CallsOK
<1>2. SaveOK(h) /\ call[h].pc = "commit" /\ mem' = mem
  BY DEF Commit, PostgresInv, Idle
<1>3. rows' = [d \in (DOMAIN rows \ gone) \cup {h} |-> IF d = h THEN call[h].doc ELSE rows[d]]
  BY DEF Commit
<1>4. kept' = IF call[h].alone THEN kept \cup {call[h].fact} ELSE kept
  BY DEF Commit
<1>5. /\ call'[h] = IdleCall
      /\ \A d \in Handlers \ {h} :
           /\ call'[d].pc = call[d].pc /\ call'[d].fact = call[d].fact
           /\ call'[d].keys = call[d].keys /\ call'[d].doc = call[d].doc
           /\ call'[d].alone = call[d].alone
  BY <1>1 DEF Commit, Call
<1> HIDE DEF gone
<1>6. InForce(mem)'
  BY <1>2, <1>4 DEF InForce, PostgresInv, SaveOK
<1>7. ASSUME NEW d \in DOMAIN rows' PROVE InForce(rows[d])'
  <2>1. CASE d = h
    BY <1>2, <1>3, <1>4, <2>1 DEF InForce, SaveOK
  <2>2. CASE d # h
    <3>1. d \in DOMAIN rows \ gone /\ rows'[d] = rows[d]
      BY <1>3, <2>2
    <3>2. call[h].alone = FALSE
      BY <1>1, <1>2, <3>1 DEF PostgresInv, AloneOK, Call, gone
    <3> QED  BY <1>4, <3>1, <3>2 DEF InForce, PostgresInv
  <2> QED  BY <2>1, <2>2
<1>8. DOMAIN rows' # {}
  BY <1>3
<1>9. ASSUME NEW d \in Handlers, ~Idle(d)' PROVE SaveOK(d)'
  <2>1. d # h /\ ~Idle(d)
    BY <1>5, <1>9 DEF Idle, IdleCall
  <2>2. kept' = kept
    BY <1>4, <2>1 DEF PostgresInv, AloneOK, OthersIdle
  <2> QED  BY <1>2, <1>5, <2>1, <2>2 DEF PostgresInv, SaveOK, InForce
<1>10. ASSUME NEW d \in Handlers, call'[d].alone PROVE AloneOK(d)'
  <2>1. d # h /\ call[d].alone
    BY <1>5, <1>10 DEF IdleCall
  <2>2. Idle(h)
    BY <2>1 DEF PostgresInv, AloneOK, OthersIdle
  <2> QED  BY <1>2, <2>2 DEF Idle
<1> QED  BY <1>6, <1>7, <1>8, <1>9, <1>10 DEF PostgresInv

\* With the postgres store each step keeps its invariant, whichever transactions overlap.
LEMMA PostgresStep ==
  ASSUME Store = "postgres", IInv, PostgresInv, [Next]_vars
  PROVE  PostgresInv'
<1>0. call \in [Handlers -> Call] /\ kept \subseteq Facts
      /\ \A h \in Handlers : call[h].fact \in Facts
  BY DEF IInv, CallsOK, AnswersOK, Call
<1>f. ASSUME UNCHANGED <<mem, rows, kept>>, NEW h \in Handlers, NEW c,
             call' = [call EXCEPT ![h] = c],
             c.pc # "idle" => ~Idle(h) /\ SaveOK(h)',
             c.alone => call[h].alone /\ AloneOK(h)'
      PROVE  PostgresInv'
  <2>1. call'[h] = c /\ \A d \in Handlers \ {h} : call'[d] = call[d]
    BY <1>0, <1>f
  <2>2. /\ InForce(mem)' /\ \A d \in DOMAIN rows' : InForce(rows[d])'
        /\ DOMAIN rows' = {} => kept' = {}
    BY <1>f DEF PostgresInv, InForce
  <2>3. ASSUME NEW d \in Handlers, ~Idle(d)' PROVE SaveOK(d)'
    <3>1. CASE d = h
      BY <1>f, <2>1, <2>3, <3>1 DEF Idle
    <3>2. CASE d # h
      BY <1>f, <2>1, <2>3, <3>2 DEF Idle, PostgresInv, SaveOK, InForce
    <3> QED  BY <3>1, <3>2
  <2>4. ASSUME NEW d \in Handlers, call'[d].alone PROVE AloneOK(d)'
    <3>1. CASE d = h
      BY <1>f, <2>1, <2>4, <3>1
    <3>2. CASE d # h
      <4>1. AloneOK(d) /\ Idle(h)
        BY <2>1, <2>4, <3>2 DEF PostgresInv, AloneOK, OthersIdle
      <4>2. Idle(h)'
        BY <1>f, <2>1, <4>1 DEF Idle
      <4> QED  BY <1>f, <2>1, <3>2, <4>1, <4>2 DEF AloneOK, OthersIdle, Idle
    <3> QED  BY <3>1, <3>2
  <2> QED  BY <2>2, <2>3, <2>4 DEF PostgresInv
<1>1. ASSUME NEW h \in Handlers, BuyerCall(h) \/ SellerCall(h) \/ OperatorCall(h)
      PROVE  PostgresInv'
  BY <1>1, CallServed, PostgresServed
<1>2. ASSUME NEW h \in Handlers, StartDelete(h) PROVE PostgresInv'
  <2> DEFINE c == [call[h] EXCEPT !.pc = "insert", !.seen = DOMAIN rows]
  <2>1. /\ c.pc = "insert" /\ c.seen = DOMAIN rows /\ c.fact = call[h].fact
        /\ c.keys = call[h].keys /\ c.alone = call[h].alone
    BY <1>0 DEF Call
  <2>2. call' = [call EXCEPT ![h] = c] /\ UNCHANGED <<mem, rows, kept>> /\ ~Idle(h)
    BY <1>0, <1>2 DEF StartDelete, Idle
  <2> HIDE DEF c
  <2>3. call'[h] = c /\ \A d \in Handlers \ {h} : call'[d] = call[d]
    BY <1>0, <2>2
  <2>4. SaveOK(h)'
    BY <2>1, <2>2, <2>3 DEF PostgresInv, SaveOK, InForce
  <2>5. c.alone => call[h].alone /\ AloneOK(h)'
    BY <2>1, <2>2, <2>3 DEF PostgresInv, AloneOK, OthersIdle, Idle
  <2> QED  BY <1>f, <2>2, <2>4, <2>5
<1>3. ASSUME NEW h \in Handlers, Insert(h) PROVE PostgresInv'
  <2> DEFINE doc == Serialized(call[h].keys)
             c == [call[h] EXCEPT !.pc = "commit", !.deleted = call[h].deleted \cup call[h].seen,
                                  !.doc = doc]
  <2>1. /\ c.pc = "commit" /\ c.deleted = call[h].deleted \cup call[h].seen
        /\ c.fact = call[h].fact /\ c.keys = call[h].keys /\ c.alone = call[h].alone
        /\ c.doc = doc
    BY <1>0 DEF Call
  <2>2. call' = [call EXCEPT ![h] = c] /\ UNCHANGED <<mem, rows, kept>> /\ ~Idle(h)
        /\ call[h].pc = "insert"
    BY <1>0, <1>3 DEF Insert, Idle
  <2>3. SaveOK(h) /\ InForce(mem)
    BY <2>2 DEF PostgresInv
  <2>4. Proven(doc, call[h].fact) /\ \A f \in kept : Proven(doc, f)
    BY <1>0, <2>3, SerializedProven DEF SaveOK, InForce, IInv
  <2> HIDE DEF c, doc
  <2>5. call'[h] = c /\ \A d \in Handlers \ {h} : call'[d] = call[d]
    BY <1>0, <2>2
  <2>6. SaveOK(h)'
    BY <2>1, <2>2, <2>3, <2>4, <2>5 DEF SaveOK, InForce
  <2>7. c.alone => call[h].alone /\ AloneOK(h)'
    BY <2>1, <2>2, <2>5 DEF PostgresInv, AloneOK, OthersIdle, Idle
  <2> QED  BY <1>f, <2>2, <2>6, <2>7
<1>4. ASSUME NEW h \in Handlers, RollBack(h) PROVE PostgresInv'
  <2>1. UNCHANGED <<mem, rows, kept>> /\ call' = [call EXCEPT ![h] = IdleCall]
    BY <1>4 DEF RollBack
  <2> QED  BY <1>f, <2>1 DEF IdleCall
<1>5. CASE Crash
  <2>1. PICK doc \in Loadable : mem' = doc
    BY <1>5 DEF Crash, Hydrate
  <2>2. rows' = rows /\ kept' = kept /\ \A h \in Handlers : call'[h] = IdleCall
    BY <1>5 DEF Crash
  <2>3. InForce(doc)
    BY <2>1 DEF Loadable, PostgresInv, InForce
  <2> QED  BY <2>1, <2>2, <2>3 DEF PostgresInv, InForce, Idle, IdleCall
<1>6. CASE UNCHANGED vars
  BY <1>6 DEF vars, PostgresInv, InForce, Idle, SaveOK, AloneOK, OthersIdle
<1> QED  BY <1>1, <1>2, <1>3, <1>4, <1>5, <1>6, PostgresCommit DEF Next, StoreStep

\* Transactions overlap, fail and are cut off by restarts: what was saved while none overlapped
\* stays true.
LEMMA PostgresKeeps ==
  ASSUME Store = "postgres"
  PROVE  Spec => []UndisturbedKept
<1>1. Init => PostgresInv
  BY DEF Init, PostgresInv, InForce, Idle, IdleCall
<1>2. IInv /\ PostgresInv /\ [Next]_vars => PostgresInv'
  BY PostgresStep
<1>3. PostgresInv => UndisturbedKept
  <2> SUFFICES ASSUME PostgresInv, NEW f \in kept, NEW doc \in Loadable \cup {mem}
               PROVE  Holds(doc, f)
    BY DEF UndisturbedKept
  <2>1. Proven(doc, f)
    BY DEF PostgresInv, InForce, Loadable
  <2> QED  BY <2>1, ProvenHolds
<1> QED  BY <1>1, <1>2, <1>3, Invariant, PTL DEF Spec

\* With either store: what was saved while no other save was under way is not undone.
THEOREM UndisturbedSurvives == Spec => []UndisturbedKept
  BY SqliteKeeps, PostgresKeeps, PlatformAssumption

-----------------------------------------------------------------------------
(* The ledger                                                              *)

Owners == [r \in Requests |-> OwnerOf(Snapshot.requests[r])]
Codes == [r \in Requests |-> Snapshot.requests[r].code]

\* Of a request id, the buyer, the subagent and the display code are its own for good.
THEOREM LedgerImplemented ==
  ASSUME Store = "sqlite"
  PROVE  Spec => ImplementsLedger
<1>1. Init => Ledger!Init
  BY SqliteInit DEF EmptyDoc, FreshRequest, Known, OwnerOf, Ledger!Init
<1>2. IInv /\ SqliteInv /\ [Next]_vars /\ (IInv /\ SqliteInv)'
        => [Ledger!Next]_<<Owners, Codes>>
  <2> SUFFICES ASSUME IInv, SqliteInv, [Next]_vars, IInv', SqliteInv'
               PROVE  Ledger!Next
    OBVIOUS
  <2> DEFINE new == Snapshot'
  <2>1. Follows(Snapshot, new)
    BY SqliteStep
  <2>2. new \in Doc /\ \A r \in Requests : GoodRequest(new.requests[r])
    <3>1. \E doc \in Loadable' : TRUE
      BY DEF Loadable
    <3>2. new \in Loadable'
      BY <3>1 DEF Snapshot
    <3> QED  BY <3>2, FreshGood DEF Loadable, IInv, RowsOK, GoodDoc
  <2>3. /\ Owners' \in [Requests -> {<<>>} \cup (Buyers \X Subagents)]
        /\ Codes' \in [Requests -> Nat]
    BY <2>2 DEF Owners, Codes, OwnerOf, GoodRequest, Request, Known
  <2>4. \A r \in Requests : Ledger!Settle(r)
    BY <2>1, <2>2 DEF OwnerOf, Follows, GoodRequest, Known, Ledger!Settle
  <2> QED  BY <2>3, <2>4 DEF Owners, Codes, Ledger!Next
<1> QED  BY <1>1, <1>2, SqliteInvariant, PTL
         DEF Spec, ImplementsLedger, Ledger!Spec, Owners, Codes
=============================================================================
