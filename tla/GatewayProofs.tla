---------------------------- MODULE GatewayProofs ----------------------------
(***************************************************************************)
(* Theorems about Gateway, for every set of accounts, keys, providers and  *)
(* requests.  A step of a request changes its own record only, so most of  *)
(* the argument is about one request at a time: what a step makes of a     *)
(* record in order (InOrder) is again in order.                            *)
(***************************************************************************)
EXTENDS Gateway, FiniteSetTheorems, TLAPS

RequestType ==
  [pc : Stages, key : Key \cup {None}, model : Model \cup {AnyModel},
   pick : Account \cup {None}, acc : Account \cup {None},
   tries : 0..MaxAccountAttempts, switches : 0..MaxAccountAttempts,
   cands : SUBSET Provider, left : 0..MaxRetries + 1, prov : Provider \cup {None},
   out : Outcomes]

\* What holds of a request at any stage.  The attempts left never exceed the
\* candidates left; only the request that a break in the middle of a stream
\* ends may name a new account beside its old candidates.
InOrder(q) ==
  /\ q \in RequestType
  /\ q.pc # "idle" => q.key \in Key
  /\ q.left <= Cardinality(q.cands)
  /\ q.pc = "send" => q.left >= 1
  /\ q.pc # "record" => q.cands \subseteq ProvidersOf(q.acc)
  /\ IF q.pc \in {"sent", "report"} THEN q.prov \in ProvidersOf(q.acc) ELSE q.prov = None

RequestsInOrder == req \in [Request -> RequestType] /\ \A r \in Request : InOrder(req[r])

(* A request that is not there is in order. *)
LEMMA NoRequestInOrder == InOrder(NoRequest)
<1>1. Cardinality({}) = 0
  BY FS_EmptySet
<1>2. NoRequest \in RequestType
  BY GatewayAssumption DEF NoRequest, RequestType, Stages, Outcomes
<1> QED
  BY <1>1, <1>2 DEF InOrder, NoRequest

(* Requests stay in order when one of them changes to a record in order. *)
LEMMA OneChanges ==
  ASSUME RequestsInOrder, NEW r \in Request, NEW q, InOrder(q),
         req' = [req EXCEPT ![r] = q]
  PROVE  RequestsInOrder'
<1>1. q \in RequestType
  BY DEF InOrder
<1>2. req' \in [Request -> RequestType]
  BY <1>1 DEF RequestsInOrder
<1>3. \A s \in Request : req'[s] = IF s = r THEN q ELSE req[s]
  BY DEF RequestsInOrder
<1>4. ASSUME NEW s \in Request
      PROVE  InOrder(req'[s])
  BY <1>3 DEF RequestsInOrder
<1> QED
  BY <1>2, <1>4 DEF RequestsInOrder, InOrder, ProvidersOf, RequestType

(* A request that finds no account falls back on what is left of its
   candidates, is booked, or is not there any more. *)
LEMMA NoAccountInOrder ==
  ASSUME RequestsInOrder, NEW r \in Request,
         req[r].pc \in {"assign", "refresh", "order", "short"},
         req' = NoAccount(r)
  PROVE  RequestsInOrder'
<1> DEFINE q == req[r]
<1> DEFINE n == IF ~Switching(r) THEN NoRequest
                ELSE IF q.out = "shortRetry" /\ q.left > 0
                THEN [q EXCEPT !.pc = "send", !.tries = 0, !.pick = None, !.out = "ok"]
                ELSE [q EXCEPT !.pc = "record"]
<1>1. req' = [req EXCEPT ![r] = n]
  BY DEF NoAccount, RequestsInOrder
<1>2. InOrder(q)
  BY DEF RequestsInOrder
<1>3. InOrder([q EXCEPT !.pc = "record"])
  BY <1>2 DEF InOrder, RequestType, Stages
<1>4. ASSUME q.out = "shortRetry", q.left > 0
      PROVE  InOrder([q EXCEPT !.pc = "send", !.tries = 0, !.pick = None, !.out = "ok"])
  <2> DEFINE m == [q EXCEPT !.pc = "send", !.tries = 0, !.pick = None, !.out = "ok"]
  <2>1. q \in RequestType /\ 0 \in 0..MaxAccountAttempts
    BY <1>2, GatewayAssumption DEF InOrder
  <2>2. m \in RequestType
    BY <2>1 DEF RequestType, Stages, Outcomes
  <2>3. /\ m.pc = "send" /\ m.key = q.key /\ m.left = q.left
        /\ m.cands = q.cands /\ m.acc = q.acc /\ m.prov = q.prov
    BY <2>1 DEF RequestType
  <2>4. q.left >= 1
    BY <1>4, <2>1 DEF RequestType
  <2> QED
    BY <1>2, <2>2, <2>3, <2>4 DEF InOrder
<1>5. InOrder(n)
  BY <1>3, <1>4, NoRequestInOrder
<1> HIDE DEF n
<1> QED
  BY <1>1, <1>5, OneChanges

(* What the allocator hands out is an existing account. *)
LEMMA ServedExists ==
  ASSUME NEW k, NEW m, NEW barred, NEW a \in Alloc!Served(k, m, barred)
  PROVE  a \in accounts
<1>1. Alloc!Pool(None, m, barred) \subseteq accounts
  BY DEF Alloc!Pool, Alloc!UsableAccounts
<1>2. \A g : Alloc!Pool(g, m, barred) \subseteq accounts
  BY DEF Alloc!Pool, Alloc!UsableAccounts
<1>3. CASE Alloc!Sticky(k, m, barred)
  BY <1>3 DEF Alloc!Served, Alloc!Sticky, Alloc!SameGroup
<1>4. CASE ~Alloc!Sticky(k, m, barred)
  BY <1>2, <1>4 DEF Alloc!Served
<1> QED
  BY <1>3, <1>4

(* A request that only moves on to another stage, without an attempt under way
   before or after, stays in order. *)
LEMMA StageInOrder ==
  ASSUME NEW q, InOrder(q), q.pc \notin {"idle", "sent", "report", "record"},
         NEW m \in RequestType,
         m.pc \in {"assign", "refresh", "hit", "order", "record"},
         m.key = q.key, m.cands = q.cands, m.left = q.left, m.acc = q.acc, m.prov = q.prov
  PROVE  InOrder(m)
BY DEF InOrder

(* A request comes in without candidates. *)
LEMMA ArriveInOrder ==
  ASSUME RequestsInOrder, NEW r \in Request, NEW k \in Key, NEW m \in Model, Arrive(r, k, m)
  PROVE  RequestsInOrder'
<1> DEFINE n == [NoRequest EXCEPT !.pc = "limit", !.key = k, !.model = m]
<1>1. n \in RequestType
  BY NoRequestInOrder DEF InOrder, RequestType, Stages
<1>2. InOrder(n)
  BY NoRequestInOrder, <1>1 DEF InOrder, NoRequest
<1> HIDE DEF n
<1> QED
  BY <1>2, OneChanges DEF Arrive, n

(* The key's rate limit lets it on, or sends it to be booked. *)
LEMMA PassKeyLimitInOrder ==
  ASSUME RequestsInOrder, NEW r \in Request, PassKeyLimit(r)
  PROVE  RequestsInOrder'
<1> DEFINE n1 == [req[r] EXCEPT !.pc = "assign"]
<1> DEFINE n2 == [req[r] EXCEPT !.pc = "record", !.out = "fatal"]
<1>1. InOrder(req[r]) /\ req[r].pc = "limit" /\ req[r] \in RequestType
  BY DEF PassKeyLimit, RequestsInOrder
<1>2. n1 \in RequestType /\ n2 \in RequestType
  BY <1>1 DEF RequestType, Stages, Outcomes
<1>3. InOrder(n1) /\ InOrder(n2)
  BY <1>1, <1>2, StageInOrder DEF RequestType
<1>4. req' = [req EXCEPT ![r] = n1] \/ req' = [req EXCEPT ![r] = n2]
  BY DEF PassKeyLimit, RequestsInOrder
<1> HIDE DEF n1, n2
<1> QED
  BY <1>3, <1>4, OneChanges

(* The allocator names an account that exists, or there is none. *)
LEMMA AssignInOrder ==
  ASSUME RequestsInOrder, accounts \subseteq Account, NEW r \in Request, Assign(r)
  PROVE  RequestsInOrder'
<1> DEFINE n(a, pc) == [req[r] EXCEPT !.pc = pc, !.pick = a]
<1>1. InOrder(req[r]) /\ req[r].pc = "assign" /\ req[r] \in RequestType
  BY DEF Assign, RequestsInOrder
<1>2. ASSUME NEW a \in accounts \cup {None}, NEW pc \in {"refresh", "hit"}
      PROVE  InOrder(n(a, pc))
  <2>1. n(a, pc) \in RequestType
    BY <1>1 DEF RequestType, Stages
  <2> QED
    BY <1>1, <2>1, StageInOrder DEF RequestType
<1>3. \/ req' = NoAccount(r)
      \/ \E a \in accounts \cup {None}, pc \in {"refresh", "hit"} :
           req' = [req EXCEPT ![r] = n(a, pc)]
  BY ServedExists DEF Assign, RequestsInOrder
<1>4. CASE req' = NoAccount(r)
  BY <1>1, <1>4, NoAccountInOrder
<1>5. ASSUME NEW a \in accounts \cup {None}, NEW pc \in {"refresh", "hit"},
             req' = [req EXCEPT ![r] = n(a, pc)]
      PROVE  RequestsInOrder'
  <2>1. InOrder(n(a, pc))
    BY <1>2
  <2> HIDE DEF n
  <2> QED
    BY <1>5, <2>1, OneChanges
<1> QED
  BY <1>3, <1>4, <1>5

(* The refresh is tried again only below maxAccountAttempts. *)
LEMMA RefreshInOrder ==
  ASSUME RequestsInOrder, NEW r \in Request, Refresh(r)
  PROVE  RequestsInOrder'
<1> DEFINE n1 == [req[r] EXCEPT !.pc = "hit"]
<1> DEFINE n2 == [req[r] EXCEPT !.pc = "assign", !.tries = req[r].tries + 1]
<1>1. InOrder(req[r]) /\ req[r].pc = "refresh" /\ req[r] \in RequestType
  BY DEF Refresh, RequestsInOrder
<1>2. InOrder(n1)
  <2>1. n1 \in RequestType
    BY <1>1 DEF RequestType, Stages
  <2> QED
    BY <1>1, <2>1, StageInOrder DEF RequestType
<1>3. ASSUME req[r].tries + 1 < MaxAccountAttempts
      PROVE  InOrder(n2)
  <2>1. req[r].tries + 1 \in 0..MaxAccountAttempts
    BY <1>1, <1>3, GatewayAssumption DEF RequestType
  <2>2. n2 \in RequestType
    BY <1>1, <2>1 DEF RequestType, Stages
  <2> QED
    BY <1>1, <2>2, StageInOrder DEF RequestType
<1>4. \/ req' = [req EXCEPT ![r] = n1]
      \/ req[r].tries + 1 < MaxAccountAttempts /\ req' = [req EXCEPT ![r] = n2]
      \/ req' = NoAccount(r)
  BY DEF Refresh, RequestsInOrder
<1>5. CASE req' = NoAccount(r)
  BY <1>1, <1>5, NoAccountInOrder
<1> HIDE DEF n1, n2
<1> QED
  BY <1>2, <1>3, <1>4, <1>5, OneChanges

(* Recording a hit leaves the request's attempts alone. *)
LEMMA RecordHitInOrder ==
  ASSUME RequestsInOrder, NEW r \in Request, RecordHit(r)
  PROVE  RequestsInOrder'
<1> DEFINE n == [req[r] EXCEPT !.pc = "order"]
<1>1. InOrder(req[r]) /\ req[r].pc = "hit" /\ req[r] \in RequestType
  BY DEF RecordHit, RequestsInOrder
<1>2. n \in RequestType
  BY <1>1 DEF RequestType, Stages
<1>3. InOrder(n)
  BY <1>1, <1>2, StageInOrder DEF RequestType
<1>4. req' = [req EXCEPT ![r] = n]
  BY DEF RecordHit, RequestsInOrder
<1> HIDE DEF n
<1> QED
  BY <1>3, <1>4, OneChanges

(* Session, candidates and attempts are replaced together, or not at all; the
   attempts are capped by the number of candidates. *)
LEMMA OrderInOrder ==
  ASSUME RequestsInOrder, NEW r \in Request, Order(r)
  PROVE  RequestsInOrder'
<1> DEFINE q == req[r]
<1> DEFINE cands == Candidates(r)
<1> DEFINE tries == Least(IF MaxRetries < 1 THEN 1 ELSE MaxRetries, Cardinality(cands))
<1> DEFINE n1 == [q EXCEPT !.pc = "record", !.acc = q.pick]
<1> DEFINE n2 == [q EXCEPT !.pc = "send", !.acc = q.pick, !.cands = cands, !.left = tries,
                           !.tries = 0, !.pick = None, !.out = "ok"]
<1>1. InOrder(q) /\ q.pc = "order" /\ q \in RequestType
  BY DEF Order, RequestsInOrder
<1>2. n1 \in RequestType /\ n1.pc = "record" /\ n1.key = q.key /\ n1.left = q.left
        /\ n1.cands = q.cands /\ n1.prov = q.prov
  BY <1>1 DEF RequestType, Stages
<1>3. InOrder(n1)
  BY <1>1, <1>2 DEF InOrder
<1>4. ASSUME cands # {}
      PROVE  InOrder(n2)
  <2>1. cands \subseteq ProvidersOf(q.pick) /\ cands \subseteq Provider
    BY DEF Candidates, ProvidersOf
  <2>2. IsFiniteSet(cands) /\ Cardinality(cands) \in Nat /\ Cardinality(cands) # 0
    BY <2>1, <1>4, FS_Subset, FS_CardinalityType, FS_EmptySet, GatewayAssumption
  <2>3. MaxRetries \in Nat /\ 0 \in 0..MaxAccountAttempts
    BY GatewayAssumption
  <2> HIDE DEF cands
  <2>4. tries \in 1..MaxRetries + 1 /\ tries <= Cardinality(cands)
    BY <2>2, <2>3 DEF Least
  <2> HIDE DEF tries
  <2>5. n2 \in RequestType
    <3>1. tries \in 0..MaxRetries + 1 /\ cands \in SUBSET Provider
      BY <2>1, <2>3, <2>4
    <3>2. q.pick \in Account \cup {None}
      BY <1>1 DEF RequestType
    <3> QED
      BY <1>1, <2>3, <3>1, <3>2 DEF RequestType, Stages, Outcomes
  <2>6. /\ n2.pc = "send" /\ n2.key = q.key /\ n2.left = tries
        /\ n2.cands = cands /\ n2.acc = q.pick /\ n2.prov = q.prov
    BY <1>1 DEF RequestType
  <2> QED
    BY <1>1, <2>1, <2>4, <2>5, <2>6 DEF InOrder
<1>5. \/ req' = NoAccount(r)
      \/ req' = [req EXCEPT ![r] = n1]
      \/ cands # {} /\ req' = [req EXCEPT ![r] = n2]
  BY DEF Order, RequestsInOrder
<1>6. CASE req' = NoAccount(r)
  BY <1>1, <1>6, NoAccountInOrder
<1> HIDE DEF n1, n2, cands
<1> QED
  BY <1>3, <1>4, <1>5, <1>6, OneChanges

(* An attempt uses up one candidate and one of the attempts left. *)
LEMMA SendInOrder ==
  ASSUME RequestsInOrder, NEW r \in Request, NEW p \in Provider, Send(r, p)
  PROVE  RequestsInOrder'
<1> DEFINE q == req[r]
<1> DEFINE n == [q EXCEPT !.pc = "sent", !.prov = p, !.left = @ - 1, !.cands = @ \ {p}]
<1>1. InOrder(q) /\ q.pc = "send" /\ q \in RequestType /\ p \in q.cands
  BY DEF Send, RequestsInOrder
<1>2. q.cands \subseteq Provider /\ q.left \in 1..MaxRetries + 1 /\ MaxRetries \in Nat
  BY <1>1, GatewayAssumption DEF InOrder, RequestType
<1>3. IsFiniteSet(q.cands) /\ Cardinality(q.cands) \in Nat
  BY <1>2, FS_Subset, FS_CardinalityType, GatewayAssumption
<1>4. Cardinality(q.cands \ {p}) = Cardinality(q.cands) - 1
  BY <1>1, <1>3, FS_RemoveElement
<1>5. q.left - 1 \in 0..MaxRetries + 1
  BY <1>2
<1>6. n \in RequestType
  BY <1>1, <1>2, <1>5 DEF RequestType, Stages
<1>7. /\ n.pc = "sent" /\ n.key = q.key /\ n.left = q.left - 1
      /\ n.cands = q.cands \ {p} /\ n.acc = q.acc /\ n.prov = p
  BY <1>1 DEF RequestType
<1>8. InOrder(n)
  BY <1>1, <1>2, <1>3, <1>4, <1>6, <1>7 DEF InOrder
<1>9. req' = [req EXCEPT ![r] = n]
  BY <1>1 DEF Send, RequestsInOrder, RequestType
<1> HIDE DEF n
<1> QED
  BY <1>8, <1>9, OneChanges

(* An answer leaves candidates and provider as they are. *)
LEMMA AnswerInOrder ==
  ASSUME RequestsInOrder, NEW r \in Request, NEW out \in Outcomes, Answer(r, out)
  PROVE  RequestsInOrder'
<1> DEFINE n == [req[r] EXCEPT !.pc = "report", !.out = out]
<1>1. InOrder(req[r]) /\ req[r].pc = "sent" /\ req[r] \in RequestType
  BY DEF Answer, RequestsInOrder
<1>2. n \in RequestType
  BY <1>1 DEF RequestType, Stages
<1>3. InOrder(n)
  BY <1>1, <1>2 DEF InOrder, RequestType
<1>4. req' = [req EXCEPT ![r] = n]
  BY DEF Answer, RequestsInOrder
<1> HIDE DEF n
<1> QED
  BY <1>3, <1>4, OneChanges

(* Another attempt follows only while attempts are left. *)
LEMMA ReportInOrder ==
  ASSUME RequestsInOrder, NEW r \in Request, Report(r)
  PROVE  RequestsInOrder'
<1> DEFINE q == [req[r] EXCEPT !.prov = None]
<1> DEFINE n1 == [q EXCEPT !.pc = "short"]
<1> DEFINE n2 == [q EXCEPT !.pc = "send", !.out = "ok"]
<1> DEFINE n3 == [q EXCEPT !.pc = "record"]
<1>1. InOrder(req[r]) /\ req[r].pc = "report" /\ req[r] \in RequestType
  BY DEF Report, RequestsInOrder
<1>2. n1 \in RequestType /\ n2 \in RequestType /\ n3 \in RequestType
  BY <1>1 DEF RequestType, Stages, Outcomes
<1>3. InOrder(n1) /\ InOrder(n3)
  BY <1>1, <1>2 DEF InOrder, RequestType
<1>4. ASSUME q.left > 0
      PROVE  InOrder(n2)
  BY <1>1, <1>2, <1>4 DEF InOrder, RequestType
<1>5. \/ Continue(r) \in {n1, n3, NoRequest}
      \/ q.left > 0 /\ Continue(r) = n2
  BY DEF Continue
<1> HIDE DEF n1, n2, n3
<1>6. InOrder(Continue(r))
  BY <1>3, <1>4, <1>5, NoRequestInOrder
<1> QED
  BY <1>6, OneChanges DEF Report

(* A shortfall starts over only below maxAccountAttempts switches. *)
LEMMA SwitchInOrder ==
  ASSUME RequestsInOrder, NEW r \in Request, Switch(r)
  PROVE  RequestsInOrder'
<1> DEFINE q == req[r]
<1> DEFINE n == [q EXCEPT !.pc = "assign", !.tries = 0, !.switches = @ + 1]
<1>1. InOrder(q) /\ q.pc = "short" /\ q \in RequestType
  BY DEF Switch, RequestsInOrder
<1>2. ASSUME ~(q.switches >= MaxAccountAttempts)
      PROVE  InOrder(n)
  <2>1. q.switches + 1 \in 0..MaxAccountAttempts /\ 0 \in 0..MaxAccountAttempts
    BY <1>1, <1>2, GatewayAssumption DEF RequestType
  <2>2. n \in RequestType
    BY <1>1, <2>1 DEF RequestType, Stages
  <2> QED
    BY <1>1, <2>2, StageInOrder DEF RequestType
<1>3. \/ req' = NoAccount(r)
      \/ ~(q.switches >= MaxAccountAttempts) /\ req' = [req EXCEPT ![r] = n]
  BY <1>1 DEF Switch, RequestsInOrder, RequestType
<1>4. CASE req' = NoAccount(r)
  BY <1>1, <1>4, NoAccountInOrder
<1> HIDE DEF n
<1> QED
  BY <1>2, <1>3, <1>4, OneChanges

(* A request that is booked is over. *)
LEMMA RecordInOrder ==
  ASSUME RequestsInOrder, NEW r \in Request, Record(r)
  PROVE  RequestsInOrder'
BY NoRequestInOrder, OneChanges DEF Record

(* Whatever the gateway does, requests stay in order. *)
LEMMA NextInOrder ==
  ASSUME RequestsInOrder, accounts \subseteq Account, [Next]_vars
  PROVE  RequestsInOrder'
<1>1. CASE UNCHANGED req
  BY <1>1 DEF RequestsInOrder, InOrder, ProvidersOf, RequestType
<1>2. ASSUME NEW r \in Request, NEW k \in Key, NEW m \in Model, Arrive(r, k, m)
      PROVE  RequestsInOrder'
  BY <1>2, ArriveInOrder
<1>3. ASSUME NEW r \in Request, Proceed(r)
      PROVE  RequestsInOrder'
  BY <1>3, PassKeyLimitInOrder, AssignInOrder, RefreshInOrder, RecordHitInOrder, OrderInOrder,
     SendInOrder, AnswerInOrder, ReportInOrder, SwitchInOrder, RecordInOrder DEF Proceed
<1>4. CASE \/ \E a \in Account : MoneyMoves(a) \/ HitExpires(a) \/ RemoveAccount(a)
           \/ \E p \in Provider : CooldownEnds(p)
           \/ \E k \in Key : RemoveKey(k) \/ \E a \in Account : MoveKey(k, a)
  BY <1>1, <1>4 DEF MoneyMoves, HitExpires, RemoveAccount, CooldownEnds, RemoveKey, MoveKey
<1>5. CASE UNCHANGED vars
  BY <1>1, <1>5 DEF vars
<1> QED
  BY <1>2, <1>3, <1>4, <1>5 DEF Next

----------------------------------------------------------------------------
(* The data beside the requests *)

DataOK ==
  /\ accounts \subseteq Account /\ keys \subseteq Key
  /\ usable \in [Account -> BOOLEAN]
  /\ binding \in [Key -> Account \cup {None}]
  /\ load \in [Account -> Nat]
  /\ cooling \subseteq {p \in Provider : Owner[p] \in accounts}
  /\ hits \in [Account -> 0..AccountLimit]
  /\ over \in [Account -> Nat]
  /\ spent \in [Key -> Nat]

(* A recount of the bindings has a natural number for every account. *)
LEMMA RecountType ==
  ASSUME NEW b
  PROVE  [a \in Account |-> Cardinality({k \in Key : b[k] = a})] \in [Account -> Nat]
<1>1. ASSUME NEW a
      PROVE  Cardinality({k \in Key : b[k] = a}) \in Nat
  BY FS_Subset, FS_CardinalityType, GatewayAssumption
<1> QED
  BY <1>1

(* The allocator changes bindings and the load index only, within their types. *)
LEMMA AllocatorKeepsTypes ==
  ASSUME DataOK, NEW k \in keys, NEW m, NEW barred, Alloc!AssignAccount(k, m, barred)
  PROVE  /\ keys' = keys
         /\ binding' \in [Key -> Account \cup {None}]
         /\ load' \in [Account -> Nat]
<1>1. k \in Key /\ binding \in [Key -> Account \cup {None}] /\ load \in [Account -> Nat]
  BY DEF DataOK
<1>2. CASE Alloc!KeepBinding(k, m, barred)
  BY <1>1, <1>2 DEF Alloc!KeepBinding, Alloc!vars
<1>3. CASE Alloc!Rebind(k, m, barred)
  <2> DEFINE freed == Alloc!Detach(load, binding[k])
  <2>1. freed \in [Account -> Nat]
    <3>1. CASE binding[k] # None /\ load[binding[k]] > 0
      <4>1. binding[k] \in Account /\ load[binding[k]] - 1 \in Nat
        BY <1>1, <3>1
      <4> QED
        BY <1>1, <3>1, <4>1 DEF Alloc!Detach
    <3>2. CASE ~(binding[k] # None /\ load[binding[k]] > 0)
      BY <1>1, <3>2 DEF Alloc!Detach
    <3> QED
      BY <3>1, <3>2
  <2>2. \/ binding' = [binding EXCEPT ![k] = None] /\ load' = freed
        \/ \E a \in Alloc!Served(k, m, barred) :
             binding' = [binding EXCEPT ![k] = a] /\ load' = Alloc!Attach(freed, a)
    BY <1>3 DEF Alloc!Rebind
  <2>3. keys' = keys
    BY <1>3 DEF Alloc!Rebind
  <2> HIDE DEF freed
  <2>4. ASSUME NEW a \in Alloc!Served(k, m, barred)
        PROVE  a \in Account /\ Alloc!Attach(freed, a) \in [Account -> Nat]
    <3>1. a \in Account
      BY ServedExists DEF DataOK
    <3> QED
      BY <2>1, <3>1 DEF Alloc!Attach
  <2> QED
    BY <1>1, <2>1, <2>2, <2>3, <2>4
<1> QED
  BY <1>2, <1>3 DEF Alloc!AssignAccount

(* So does a request that asks it for an account. *)
LEMMA AssignKeepsData ==
  ASSUME DataOK, NEW r \in Request, Assign(r)
  PROVE  DataOK' /\ UNCHANGED <<accounts, keys, inflight, spent>>
<1>1. UNCHANGED <<accounts, usable, cooling, inflight, hits, over, spent>>
  BY DEF Assign
<1>2. CASE UNCHANGED <<keys, binding, load>>
  BY <1>1, <1>2 DEF DataOK
<1>3. CASE KeyActive(req[r].key) /\ Alloc!AssignAccount(req[r].key, req[r].model, Barred)
  BY <1>1, <1>3, AllocatorKeepsTypes DEF DataOK, KeyActive
<1> QED
  BY <1>2, <1>3 DEF Assign

(* A booking adds a natural number of tokens. *)
LEMMA RecordKeepsData ==
  ASSUME DataOK, RequestsInOrder, NEW r \in Request, Record(r)
  PROVE  DataOK'
<1>1. req[r].key \in Key
  BY DEF Record, RequestsInOrder, InOrder
<1>2. ASSUME NEW n \in IF req[r].key \in keys /\ req[r].out \in Metered THEN 0..MaxTokens ELSE {0}
      PROVE  n \in Nat
  BY <1>2, GatewayAssumption
<1>3. spent' \in [Key -> Nat]
  BY <1>1, <1>2 DEF Record, DataOK
<1>4. usable' \in [Account -> BOOLEAN]
  BY DEF Record, DataOK
<1> QED
  BY <1>3, <1>4 DEF Record, DataOK

(* Whatever a request does, the data keep their types. *)
LEMMA ProceedKeepsData ==
  ASSUME DataOK, RequestsInOrder, NEW r \in Request, Proceed(r)
  PROVE  DataOK'
<1>1. CASE UNCHANGED dataVars
  BY <1>1 DEF dataVars, DataOK
<1>2. CASE RecordHit(r)
  <2>1. hits' \in [Account -> 0..AccountLimit] /\ over' \in [Account -> Nat]
    BY <1>2, GatewayAssumption DEF RecordHit, DataOK
  <2> QED
    BY <1>2, <2>1 DEF RecordHit, DataOK
<1>3. CASE Report(r)
  <2>1. cooling' \subseteq {p \in Provider : Owner[p] \in accounts}
    <3>1. req[r].prov \in Provider
      BY <1>3 DEF Report, RequestsInOrder, InOrder, ProvidersOf
    <3> QED
      BY <1>3, <3>1 DEF Report, DataOK, Exists
  <2> QED
    BY <1>3, <2>1 DEF Report, DataOK
<1>4. CASE PassKeyLimit(r) \/ Refresh(r) \/ Order(r) \/ Switch(r)
  BY <1>1, <1>4 DEF PassKeyLimit, Refresh, Order, Switch
<1>5. CASE (\E p \in Provider : Send(r, p)) \/ (\E out \in Outcomes : Answer(r, out))
  BY <1>5 DEF Send, Answer, DataOK
<1> QED
  BY <1>2, <1>3, <1>4, <1>5, AssignKeepsData, RecordKeepsData DEF Proceed

(* Whatever the gateway does, the data keep their types. *)
LEMMA NextKeepsData ==
  ASSUME DataOK, RequestsInOrder, [Next]_vars
  PROVE  DataOK'
<1>1. CASE UNCHANGED dataVars
  BY <1>1 DEF dataVars, DataOK
<1>2. CASE \E r \in Request, k \in Key, m \in Model : Arrive(r, k, m)
  BY <1>1, <1>2 DEF Arrive
<1>3. CASE \E r \in Request : Proceed(r)
  BY <1>3, ProceedKeepsData
<1>4. ASSUME NEW a \in Account, MoneyMoves(a)
      PROVE  DataOK'
  BY <1>4 DEF MoneyMoves, DataOK
<1>5. ASSUME NEW a \in Account, HitExpires(a)
      PROVE  DataOK'
  <2>1. hits' \in [Account -> 0..AccountLimit] /\ over' \in [Account -> Nat]
    BY <1>5, GatewayAssumption DEF HitExpires, DataOK
  <2> QED
    BY <1>5, <2>1 DEF HitExpires, DataOK
<1>6. ASSUME NEW a \in Account, RemoveAccount(a)
      PROVE  DataOK'
  <2>1. load' \in [Account -> Nat]
    BY <1>6, RecountType DEF RemoveAccount
  <2>2. binding' \in [Key -> Account \cup {None}] /\ usable' \in [Account -> BOOLEAN]
    BY <1>6 DEF RemoveAccount, DataOK
  <2>3. cooling' \subseteq {p \in Provider : Owner[p] \in accounts'}
    BY <1>6 DEF RemoveAccount, DataOK, ProvidersOf
  <2> QED
    BY <1>6, <2>1, <2>2, <2>3 DEF RemoveAccount, DataOK
<1>7. ASSUME NEW p \in Provider, CooldownEnds(p)
      PROVE  DataOK'
  BY <1>7 DEF CooldownEnds, DataOK
<1>8. ASSUME NEW k \in Key, RemoveKey(k)
      PROVE  DataOK'
  <2>1. load' \in [Account -> Nat]
    <3>1. load' = [b \in Account |-> Cardinality({j \in Key : binding'[j] = b})]
      BY <1>8 DEF RemoveKey
    <3> QED
      BY <3>1, RecountType
  <2> QED
    BY <1>8, <2>1 DEF RemoveKey, DataOK
<1>9. ASSUME NEW k \in Key, NEW a \in Account, MoveKey(k, a)
      PROVE  DataOK'
  <2>1. load' \in [Account -> Nat]
    <3>1. load' = [b \in Account |-> Cardinality({j \in Key : binding'[j] = b})]
      BY <1>9 DEF MoveKey
    <3> QED
      BY <3>1, RecountType
  <2> QED
    BY <1>9, <2>1 DEF MoveKey, DataOK
<1>10. CASE UNCHANGED vars
  BY <1>1, <1>10 DEF vars, dataVars
<1> QED
  BY <1>2, <1>3, <1>4, <1>5, <1>6, <1>7, <1>8, <1>9, <1>10 DEF Next

----------------------------------------------------------------------------
(* The in-flight counters *)

\* The requests that provider p is answering, by their records R.
Answering(R, p) == {r \in Request : R[r].pc = "sent" /\ R[r].prov = p}

InflightOK ==
  /\ inflight \in [Provider -> 0..Cardinality(Request)]
  /\ \A p \in Provider : Exists(p) => inflight[p] = Cardinality(Answering(req, p))

(* There are never more of them than requests. *)
LEMMA AnsweringType ==
  ASSUME NEW R, NEW p
  PROVE  /\ IsFiniteSet(Answering(R, p))
         /\ Cardinality(Answering(R, p)) \in 0..Cardinality(Request)
<1>1. Answering(R, p) \subseteq Request /\ IsFiniteSet(Request)
  BY GatewayAssumption DEF Answering
<1> QED
  BY <1>1, FS_Subset, FS_CardinalityType

(* The steps of a request between two attempts concern no provider. *)
LEMMA BetweenAttempts ==
  ASSUME RequestsInOrder, NEW r \in Request,
         \/ \E k \in Key, m \in Model : Arrive(r, k, m)
         \/ PassKeyLimit(r) \/ Assign(r) \/ Refresh(r) \/ RecordHit(r) \/ Order(r)
         \/ Report(r) \/ Switch(r) \/ Record(r)
  PROVE  /\ UNCHANGED <<accounts, inflight>>
         /\ \A p : Answering(req', p) = Answering(req, p)
<1>1. req \in [Request -> RequestType]
  BY DEF RequestsInOrder
<1>2. \A s \in Request : NoAccount(r)[s] = IF s = r THEN NoAccount(r)[r] ELSE req[s]
  BY <1>1 DEF NoAccount
<1>3. NoAccount(r)[r].pc # "sent" \/ req[r].pc = "sent"
  BY <1>1 DEF NoAccount, NoRequest, RequestType
<1>4. Continue(r).pc # "sent"
  BY <1>1 DEF Continue, NoRequest, RequestType
<1>5. UNCHANGED <<accounts, inflight>>
  BY DEF Arrive, PassKeyLimit, Assign, Refresh, RecordHit, Order, Report, Switch, Record, dataVars
<1>6. ASSUME NEW q, q.pc # "sent", req' = [req EXCEPT ![r] = q]
      PROVE  req'[r].pc # "sent" /\ \A s \in Request \ {r} : req'[s] = req[s]
  BY <1>1, <1>6
<1>7. ASSUME req' = NoAccount(r), req[r].pc # "sent"
      PROVE  req'[r].pc # "sent" /\ \A s \in Request \ {r} : req'[s] = req[s]
  BY <1>2, <1>3, <1>7
<1>8. ASSUME req[r].pc # "sent", req'[r].pc # "sent", \A s \in Request \ {r} : req'[s] = req[s]
      PROVE  \A p : Answering(req', p) = Answering(req, p)
  BY <1>8 DEF Answering
<1>9. CASE \E k \in Key, m \in Model : Arrive(r, k, m)
  <2>1. PICK k \in Key, m \in Model : Arrive(r, k, m)
    BY <1>9
  <2>2. [NoRequest EXCEPT !.pc = "limit", !.key = k, !.model = m].pc # "sent"
    BY DEF NoRequest
  <2> QED
    BY <1>5, <1>6, <1>8, <2>1, <2>2 DEF Arrive
<1>10. CASE Record(r)
  <2>1. NoRequest.pc # "sent"
    BY DEF NoRequest
  <2> QED
    BY <1>5, <1>6, <1>8, <1>10, <2>1 DEF Record
<1>11. CASE Report(r)
  BY <1>4, <1>5, <1>6, <1>8, <1>11 DEF Report
<1>12. CASE PassKeyLimit(r)
  BY <1>1, <1>5, <1>8, <1>12 DEF PassKeyLimit, RequestType
<1>13. CASE Assign(r)
  BY <1>1, <1>5, <1>7, <1>8, <1>13 DEF Assign, RequestType
<1>14. CASE Refresh(r)
  BY <1>1, <1>5, <1>7, <1>8, <1>14 DEF Refresh, RequestType
<1>15. CASE RecordHit(r)
  BY <1>1, <1>5, <1>8, <1>15 DEF RecordHit, RequestType
<1>16. CASE Order(r)
  BY <1>1, <1>5, <1>7, <1>8, <1>16 DEF Order, RequestType
<1>17. CASE Switch(r)
  BY <1>1, <1>5, <1>7, <1>8, <1>17 DEF Switch, RequestType
<1> QED
  BY <1>9, <1>10, <1>11, <1>12, <1>13, <1>14, <1>15, <1>16, <1>17

(* A request sent to a provider counts there, and only there. *)
LEMMA SendCounts ==
  ASSUME RequestsInOrder, InflightOK, NEW r \in Request, NEW p \in Provider, Send(r, p)
  PROVE  InflightOK'
<1>1. req[r].pc = "send" /\ req \in [Request -> RequestType] /\ UNCHANGED accounts
  BY DEF Send, RequestsInOrder
<1>2. /\ req'[r].pc = "sent" /\ req'[r].prov = p
      /\ \A s \in Request \ {r} : req'[s] = req[s]
  BY <1>1 DEF Send, RequestType
<1>3. /\ Answering(req', p) = Answering(req, p) \cup {r}
      /\ r \notin Answering(req, p)
      /\ \A x \in Provider \ {p} : Answering(req', x) = Answering(req, x)
  BY <1>1, <1>2 DEF Answering
<1>4. Cardinality(Answering(req', p)) = Cardinality(Answering(req, p)) + 1
  BY <1>3, AnsweringType, FS_AddElement
<1>5. Cardinality(Answering(req', p)) \in 0..Cardinality(Request)
  BY AnsweringType
<1>6. CASE Exists(p)
  <2>1. inflight' = [inflight EXCEPT ![p] = @ + 1]
    BY <1>6 DEF Send
  <2>2. inflight[p] + 1 = Cardinality(Answering(req', p))
    BY <1>4, <1>6 DEF InflightOK
  <2>3. inflight' \in [Provider -> 0..Cardinality(Request)]
    BY <1>5, <2>1, <2>2 DEF InflightOK
  <2> QED
    BY <1>1, <1>3, <2>1, <2>2, <2>3 DEF InflightOK, Exists
<1>7. CASE ~Exists(p)
  BY <1>1, <1>3, <1>7 DEF Send, InflightOK, Exists
<1> QED
  BY <1>6, <1>7

(* An answer, of whatever kind, counts down what the attempt had counted up. *)
LEMMA AnswerCounts ==
  ASSUME RequestsInOrder, InflightOK, NEW r \in Request, NEW out \in Outcomes, Answer(r, out)
  PROVE  InflightOK'
<1> DEFINE p == req[r].prov
<1>1. req[r].pc = "sent" /\ req \in [Request -> RequestType] /\ UNCHANGED accounts
  BY DEF Answer, RequestsInOrder
<1>2. p \in Provider
  BY <1>1 DEF RequestsInOrder, InOrder, ProvidersOf
<1>3. req'[r].pc = "report" /\ \A s \in Request \ {r} : req'[s] = req[s]
  BY <1>1 DEF Answer, RequestType
<1>4. /\ Answering(req', p) = Answering(req, p) \ {r}
      /\ r \in Answering(req, p)
      /\ \A x \in Provider \ {p} : Answering(req', x) = Answering(req, x)
  BY <1>1, <1>3 DEF Answering
<1> HIDE DEF p
<1>5. Cardinality(Answering(req', p)) = Cardinality(Answering(req, p)) - 1
  <2>1. IsFiniteSet(Answering(req, p))
    BY AnsweringType
  <2> QED
    BY <1>4, <2>1, FS_RemoveElement
<1>6. Cardinality(Answering(req', p)) \in 0..Cardinality(Request)
  BY AnsweringType
<1>7. inflight' = IF Exists(p) /\ inflight[p] > 0 THEN [inflight EXCEPT ![p] = @ - 1] ELSE inflight
  BY DEF Answer, p
<1>8. CASE Exists(p)
  <2>1. inflight[p] - 1 = Cardinality(Answering(req', p)) /\ inflight[p] > 0
    BY <1>2, <1>5, <1>6, <1>8, AnsweringType DEF InflightOK
  <2>2. inflight' = [inflight EXCEPT ![p] = @ - 1]
    BY <1>7, <1>8, <2>1
  <2>3. inflight' \in [Provider -> 0..Cardinality(Request)]
    BY <1>6, <2>1, <2>2 DEF InflightOK
  <2> QED
    BY <1>1, <1>2, <1>4, <2>1, <2>2, <2>3 DEF InflightOK, Exists
<1>9. CASE ~Exists(p)
  BY <1>1, <1>4, <1>7, <1>9 DEF InflightOK, Exists
<1> QED
  BY <1>8, <1>9

(* Whatever the gateway does, the counters stay exact. *)
LEMMA NextCounts ==
  ASSUME RequestsInOrder, InflightOK, [Next]_vars
  PROVE  InflightOK'
<1>1. CASE UNCHANGED <<accounts, inflight>> /\ \A p : Answering(req', p) = Answering(req, p)
  BY <1>1 DEF InflightOK, Exists
<1>2. CASE UNCHANGED <<accounts, inflight, req>>
  BY <1>2 DEF InflightOK, Exists, Answering
<1>3. CASE \E r \in Request, k \in Key, m \in Model : Arrive(r, k, m)
  BY <1>1, <1>3, BetweenAttempts
<1>4. CASE \E r \in Request : Proceed(r)
  BY <1>1, <1>4, BetweenAttempts, SendCounts, AnswerCounts DEF Proceed
<1>5. ASSUME NEW a \in Account, RemoveAccount(a)
      PROVE  InflightOK'
  <2>1. /\ accounts' = accounts \ {a} /\ req' = req
        /\ inflight' = [p \in Provider |-> IF Owner[p] = a THEN 0 ELSE inflight[p]]
    BY <1>5 DEF RemoveAccount
  <2>2. 0 \in 0..Cardinality(Request)
    BY FS_CardinalityType, GatewayAssumption
  <2> QED
    BY <2>1, <2>2 DEF InflightOK, Exists, Answering
<1>6. CASE \/ \E a \in Account : MoneyMoves(a) \/ HitExpires(a)
           \/ \E p \in Provider : CooldownEnds(p)
           \/ \E k \in Key : RemoveKey(k) \/ \E a \in Account : MoveKey(k, a)
  BY <1>2, <1>6 DEF MoneyMoves, HitExpires, CooldownEnds, RemoveKey, MoveKey
<1>7. CASE UNCHANGED vars
  BY <1>2, <1>7 DEF vars
<1> QED
  BY <1>3, <1>4, <1>5, <1>6, <1>7 DEF Next

----------------------------------------------------------------------------
(* Quotas *)

\* The requests of key k that are under way, by their records R.
UnderWay(R, k) == {r \in Request : R[r].pc # "idle" /\ R[r].key = k}

\* A request under way may still cost a key MaxTokens, so the bound has to hold
\* of what is spent and of what is still to come together.
QuotaOK ==
  Quota > 0 =>
    \A k \in Key : spent[k] + Cardinality(UnderWay(req, k)) * MaxTokens
                     < Quota + Cardinality(Request) * MaxTokens

(* More calls cost no less. *)
LEMMA TimesGrows ==
  ASSUME NEW m \in Nat, NEW n \in Nat, NEW t \in Nat, m <= n
  PROVE  m * t \in Nat /\ n * t \in Nat /\ m * t <= n * t
<1>1. n * t = m * t + (n - m) * t /\ (n - m) * t >= 0
  OBVIOUS
<1> QED
  BY <1>1

(* A subset of the requests costs no more than the whole. *)
LEMMA CostGrows ==
  ASSUME NEW S, NEW T \in SUBSET Request, S \subseteq T
  PROVE  /\ Cardinality(S) \in Nat /\ Cardinality(T) \in Nat
         /\ Cardinality(S) * MaxTokens \in Nat /\ Cardinality(T) * MaxTokens \in Nat
         /\ Cardinality(S) * MaxTokens <= Cardinality(T) * MaxTokens
<1>1. IsFiniteSet(T) /\ MaxTokens \in Nat
  BY FS_Subset, GatewayAssumption
<1>2. Cardinality(S) \in Nat /\ Cardinality(T) \in Nat /\ Cardinality(S) <= Cardinality(T)
  BY <1>1, FS_Subset, FS_CardinalityType
<1> QED
  BY <1>1, <1>2, TimesGrows

(* A request that does not end keeps its key, and nothing is booked. *)
LEMMA KeysStay ==
  ASSUME RequestsInOrder, NEW r \in Request,
         \/ PassKeyLimit(r) \/ Assign(r) \/ Refresh(r) \/ RecordHit(r) \/ Order(r)
         \/ (\E p \in Provider : Send(r, p)) \/ (\E out \in Outcomes : Answer(r, out))
         \/ Report(r) \/ Switch(r)
  PROVE  spent' = spent /\ \A k : UnderWay(req', k) \subseteq UnderWay(req, k)
<1> DEFINE Keeps(q) == q.pc = "idle" \/ q.key = req[r].key
<1>1. req \in [Request -> RequestType] /\ InOrder(req[r])
  BY DEF RequestsInOrder
<1>2. /\ \A s \in Request \ {r} : NoAccount(r)[s] = req[s]
      /\ Keeps(NoAccount(r)[r])
  BY <1>1 DEF NoAccount, NoRequest, RequestType
<1>3. Keeps(Continue(r))
  BY <1>1 DEF Continue, NoRequest, RequestType
<1>4. spent' = spent /\ req[r].pc # "idle"
  BY DEF PassKeyLimit, Assign, Refresh, RecordHit, Order, Send, Answer, Report, Switch, dataVars
<1>5. ASSUME Keeps(req'[r]), \A s \in Request \ {r} : req'[s] = req[s]
      PROVE  spent' = spent /\ \A k : UnderWay(req', k) \subseteq UnderWay(req, k)
  BY <1>4, <1>5 DEF UnderWay
<1>6. CASE PassKeyLimit(r)
  BY <1>1, <1>5, <1>6 DEF PassKeyLimit, RequestType
<1>7. CASE Assign(r)
  BY <1>1, <1>2, <1>5, <1>7 DEF Assign, RequestType
<1>8. CASE Refresh(r)
  BY <1>1, <1>2, <1>5, <1>8 DEF Refresh, RequestType
<1>9. CASE RecordHit(r)
  BY <1>1, <1>5, <1>9 DEF RecordHit, RequestType
<1>10. CASE Order(r)
  <2>1. CASE req' = NoAccount(r)
    BY <1>2, <1>5, <2>1
  <2>2. ASSUME NEW c, NEW t,
               req' = [req EXCEPT ![r] = [req[r] EXCEPT !.pc = "send", !.acc = req[r].pick,
                                                        !.cands = c, !.left = t, !.tries = 0,
                                                        !.pick = None, !.out = "ok"]]
        PROVE  spent' = spent /\ \A k : UnderWay(req', k) \subseteq UnderWay(req, k)
    <3>1. req'[r].key = req[r].key /\ \A s \in Request \ {r} : req'[s] = req[s]
      BY <1>1, <2>2 DEF RequestType
    <3> QED
      BY <1>5, <3>1
  <2>3. CASE req' = [req EXCEPT ![r].pc = "record", ![r].acc = req[r].pick]
    BY <1>1, <1>5, <2>3 DEF RequestType
  <2> QED
    BY <1>10, <2>1, <2>2, <2>3 DEF Order
<1>11. ASSUME NEW p \in Provider, Send(r, p)
       PROVE  spent' = spent /\ \A k : UnderWay(req', k) \subseteq UnderWay(req, k)
  <2>1. req' = [req EXCEPT ![r] = [req[r] EXCEPT !.pc = "sent", !.prov = p, !.left = @ - 1,
                                                 !.cands = @ \ {p}]]
    BY <1>11 DEF Send
  <2>2. req'[r].key = req[r].key /\ \A s \in Request \ {r} : req'[s] = req[s]
    BY <1>1, <2>1 DEF RequestType
  <2> QED
    BY <1>5, <2>2
<1>12. ASSUME NEW out \in Outcomes, Answer(r, out)
       PROVE  spent' = spent /\ \A k : UnderWay(req', k) \subseteq UnderWay(req, k)
  <2>1. req'[r].key = req[r].key /\ \A s \in Request \ {r} : req'[s] = req[s]
    BY <1>1, <1>12 DEF Answer, RequestType
  <2> QED
    BY <1>5, <2>1
<1>13. CASE Report(r)
  <2>1. req'[r] = Continue(r) /\ \A s \in Request \ {r} : req'[s] = req[s]
    BY <1>1, <1>13 DEF Report
  <2> QED
    BY <1>3, <1>5, <2>1
<1>14. CASE Switch(r)
  <2>1. CASE req' = NoAccount(r)
    BY <1>2, <1>5, <2>1
  <2>2. CASE req' = [req EXCEPT ![r] = [req[r] EXCEPT !.pc = "assign", !.tries = 0,
                                                      !.switches = @ + 1]]
    <3>1. req'[r].key = req[r].key /\ \A s \in Request \ {r} : req'[s] = req[s]
      BY <1>1, <2>2 DEF RequestType
    <3> QED
      BY <1>5, <3>1
  <2> QED
    BY <1>14, <2>1, <2>2 DEF Switch
<1> QED
  BY <1>6, <1>7, <1>8, <1>9, <1>10, <1>11, <1>12, <1>13, <1>14

(* The bound holds on when nothing is booked and no request comes in. *)
LEMMA NothingBooked ==
  ASSUME DataOK, QuotaOK, spent' = spent, \A k : UnderWay(req', k) \subseteq UnderWay(req, k)
  PROVE  QuotaOK'
<1> SUFFICES ASSUME Quota > 0, NEW k \in Key
             PROVE  spent[k] + Cardinality(UnderWay(req', k)) * MaxTokens
                      < Quota + Cardinality(Request) * MaxTokens
  BY DEF QuotaOK
<1>1. UnderWay(req, k) \in SUBSET Request
  BY DEF UnderWay
<1>2. Cardinality(UnderWay(req', k)) * MaxTokens <= Cardinality(UnderWay(req, k)) * MaxTokens
      /\ Cardinality(UnderWay(req', k)) * MaxTokens \in Nat
      /\ Cardinality(UnderWay(req, k)) * MaxTokens \in Nat
  BY <1>1, CostGrows
<1>3. Cardinality(Request) * MaxTokens \in Nat /\ Quota \in Nat /\ spent[k] \in Nat
  BY CostGrows, GatewayAssumption DEF DataOK
<1>4. spent[k] + Cardinality(UnderWay(req, k)) * MaxTokens
        < Quota + Cardinality(Request) * MaxTokens
  BY DEF QuotaOK
<1> QED
  BY <1>2, <1>3, <1>4

(* A key over its quota starts nothing. *)
LEMMA ArriveWithinQuota ==
  ASSUME DataOK, RequestsInOrder, QuotaOK, NEW r \in Request, NEW j \in Key, NEW m \in Model,
         Arrive(r, j, m)
  PROVE  QuotaOK'
<1>1. req \in [Request -> RequestType] /\ spent' = spent /\ spent[j] < Quota
  BY DEF Arrive, RequestsInOrder, KeyActive, dataVars
<1>2. \A k : k # j => UnderWay(req', k) \subseteq UnderWay(req, k)
  BY <1>1 DEF Arrive, UnderWay, NoRequest
<1> SUFFICES ASSUME Quota > 0, NEW k \in Key
             PROVE  spent[k] + Cardinality(UnderWay(req', k)) * MaxTokens
                      < Quota + Cardinality(Request) * MaxTokens
  BY <1>1 DEF QuotaOK
<1> DEFINE now == Cardinality(UnderWay(req', k)) * MaxTokens
<1> DEFINE before == Cardinality(UnderWay(req, k)) * MaxTokens
<1> DEFINE most == Cardinality(Request) * MaxTokens
<1>3. Quota \in Nat /\ spent[k] \in Nat
  BY GatewayAssumption DEF DataOK
<1>4. now \in Nat /\ most \in Nat /\ now <= most
  <2>1. UnderWay(req', k) \subseteq Request
    BY DEF UnderWay
  <2> QED
    BY <2>1, CostGrows
<1>5. CASE k = j
  <2>1. spent[k] < Quota
    BY <1>1, <1>5
  <2> HIDE DEF now, most
  <2>2. spent[k] + now < Quota + most
    BY <1>3, <1>4, <2>1
  <2> QED
    BY <2>2 DEF now, most
<1>6. CASE k # j
  <2>1. UnderWay(req', k) \subseteq UnderWay(req, k) /\ UnderWay(req, k) \in SUBSET Request
    BY <1>2, <1>6 DEF UnderWay
  <2>2. now <= before /\ before \in Nat
    BY <2>1, CostGrows
  <2>3. spent[k] + before < Quota + most
    BY DEF QuotaOK
  <2> HIDE DEF now, before, most
  <2>4. spent[k] + now < Quota + most
    BY <1>3, <1>4, <2>2, <2>3
  <2> QED
    BY <2>4 DEF now, most
<1> QED
  BY <1>5, <1>6

(* A booking costs at most what had been set aside for the request. *)
LEMMA RecordWithinQuota ==
  ASSUME DataOK, RequestsInOrder, QuotaOK, NEW r \in Request, Record(r)
  PROVE  QuotaOK'
<1> DEFINE j == req[r].key
<1>1. req \in [Request -> RequestType] /\ j \in Key /\ req[r].pc = "record"
  BY DEF Record, RequestsInOrder, InOrder
<1>2. PICK n \in 0..MaxTokens : spent' = [spent EXCEPT ![j] = @ + n]
  <2>1. 0 \in 0..MaxTokens
    BY GatewayAssumption
  <2> QED
    BY <2>1 DEF Record
<1>3. req' = [req EXCEPT ![r] = NoRequest] /\ NoRequest.pc = "idle"
  BY DEF Record, NoRequest
<1>4. /\ UnderWay(req', j) = UnderWay(req, j) \ {r}
      /\ r \in UnderWay(req, j)
      /\ \A k : UnderWay(req', k) \subseteq UnderWay(req, k)
  BY <1>1, <1>3 DEF UnderWay
<1> HIDE DEF j
<1> SUFFICES ASSUME Quota > 0, NEW k \in Key
             PROVE  spent'[k] + Cardinality(UnderWay(req', k)) * MaxTokens
                      < Quota + Cardinality(Request) * MaxTokens
  BY DEF QuotaOK
<1> DEFINE c == Cardinality(UnderWay(req, k))
<1> DEFINE d == Cardinality(UnderWay(req', k))
<1> DEFINE most == Cardinality(Request) * MaxTokens
<1>5. UnderWay(req, k) \in SUBSET Request
  BY DEF UnderWay
<1>6. c \in Nat /\ d \in Nat /\ c * MaxTokens \in Nat /\ d * MaxTokens \in Nat
      /\ d * MaxTokens <= c * MaxTokens
  BY <1>4, <1>5, CostGrows
<1>7. most \in Nat /\ Quota \in Nat /\ MaxTokens \in Nat /\ spent[k] \in Nat
  BY CostGrows, GatewayAssumption DEF DataOK
<1>8. spent[k] + c * MaxTokens < Quota + most
  BY DEF QuotaOK
<1>9. CASE k = j
  <2>1. IsFiniteSet(UnderWay(req, k))
    BY <1>5, FS_Subset, GatewayAssumption
  <2>2. d = c - 1
    BY <1>4, <1>9, <2>1, FS_RemoveElement
  <2>3. spent'[k] = spent[k] + n
    BY <1>2, <1>9 DEF DataOK
  <2> HIDE DEF c, d, most
  <2>4. d * MaxTokens + MaxTokens = c * MaxTokens
    BY <1>6, <1>7, <2>2
  <2> QED
    BY <1>2, <1>6, <1>7, <1>8, <2>3, <2>4 DEF d, most
<1>10. CASE k # j
  <2>1. spent'[k] = spent[k]
    BY <1>2, <1>10 DEF DataOK
  <2> HIDE DEF c, d, most
  <2> QED
    BY <1>6, <1>7, <1>8, <2>1 DEF d, most
<1> QED
  BY <1>9, <1>10

(* Whatever the gateway does, the bound holds on. *)
LEMMA NextWithinQuota ==
  ASSUME DataOK, RequestsInOrder, QuotaOK, [Next]_vars
  PROVE  QuotaOK'
<1>1. CASE UNCHANGED <<spent, req>>
  BY <1>1 DEF QuotaOK, UnderWay
<1>2. CASE \E r \in Request, k \in Key, m \in Model : Arrive(r, k, m)
  BY <1>2, ArriveWithinQuota
<1>3. CASE \E r \in Request : Proceed(r)
  BY <1>3, KeysStay, NothingBooked, RecordWithinQuota DEF Proceed
<1>4. CASE \/ \E a \in Account : MoneyMoves(a) \/ HitExpires(a) \/ RemoveAccount(a)
           \/ \E p \in Provider : CooldownEnds(p)
           \/ \E k \in Key : RemoveKey(k) \/ \E a \in Account : MoveKey(k, a)
  BY <1>1, <1>4 DEF MoneyMoves, HitExpires, RemoveAccount, CooldownEnds, RemoveKey, MoveKey
<1>5. CASE UNCHANGED vars
  BY <1>1, <1>5 DEF vars
<1> QED
  BY <1>2, <1>3, <1>4, <1>5 DEF Next

----------------------------------------------------------------------------
(* The gateway's steps as the allocator sees them *)

\* A key that was removed is bound to nothing: the gateway counts the bindings
\* of all keys, the allocator those of the keys there are.
GoneUnbound == \A k \in Key \ keys : binding[k] = None

\* How many of an account's upstreams work.
Working(A, C) ==
  [a \in Account |-> IF a \in A THEN Cardinality(ProvidersOf(a) \ C) ELSE 0]

(* Keys are only unbound when they go, and only keys that exist are bound. *)
LEMMA NextKeepsUnbound ==
  ASSUME DataOK, GoneUnbound, [Next]_vars
  PROVE  GoneUnbound'
<1>1. CASE UNCHANGED <<keys, binding>>
  BY <1>1 DEF GoneUnbound
<1>2. CASE \E r \in Request, k \in Key, m \in Model : Arrive(r, k, m)
  BY <1>1, <1>2 DEF Arrive, dataVars
<1>3. ASSUME NEW r \in Request, Assign(r)
      PROVE  GoneUnbound'
  <2>1. CASE UNCHANGED <<keys, binding, load>>
    BY <1>1, <2>1
  <2>2. CASE KeyActive(req[r].key) /\ Alloc!AssignAccount(req[r].key, req[r].model, Barred)
    <3>1. keys' = keys /\ \A k \in Key \ keys : binding'[k] = binding[k]
      BY <2>2 DEF DataOK, Alloc!AssignAccount, Alloc!KeepBinding, Alloc!Rebind, Alloc!vars
    <3> QED
      BY <3>1 DEF GoneUnbound
  <2> QED
    BY <1>3, <2>1, <2>2 DEF Assign
<1>4. ASSUME NEW r \in Request, Proceed(r), ~Assign(r)
      PROVE  GoneUnbound'
  BY <1>1, <1>4
     DEF Proceed, PassKeyLimit, Refresh, RecordHit, Order, Send, Answer, Report, Switch, Record,
         dataVars
<1>5. CASE \/ \E a \in Account : MoneyMoves(a) \/ HitExpires(a)
           \/ \E p \in Provider : CooldownEnds(p)
  BY <1>1, <1>5 DEF MoneyMoves, HitExpires, CooldownEnds
<1>6. ASSUME NEW a \in Account, RemoveAccount(a)
      PROVE  GoneUnbound'
  BY <1>6 DEF RemoveAccount, GoneUnbound
<1>7. ASSUME NEW k \in Key, RemoveKey(k) \/ \E a \in Account : MoveKey(k, a)
      PROVE  GoneUnbound'
  BY <1>7 DEF RemoveKey, MoveKey, GoneUnbound, DataOK
<1>8. CASE UNCHANGED vars
  BY <1>1, <1>8 DEF vars
<1> QED
  BY <1>2, <1>3, <1>4, <1>5, <1>6, <1>7, <1>8 DEF Next

(* The two ways of counting agree. *)
LEMMA Recount ==
  ASSUME NEW K \in SUBSET Key, NEW b, \A k \in Key \ K : b[k] = None
  PROVE  [a \in Account |-> Cardinality({k \in Key : b[k] = a})] = Alloc!Reindexed(K, b)
<1>1. ASSUME NEW a \in Account
      PROVE  {k \in Key : b[k] = a} = Alloc!BoundKeys(K, b, a)
  BY GatewayAssumption DEF Alloc!BoundKeys
<1>2. \A S : Alloc!Cardinality(S) = Cardinality(S)
  BY DEF Alloc!Cardinality, Cardinality
<1> QED
  BY <1>1, <1>2 DEF Alloc!Reindexed

(* A cooldown that starts or ends changes one account's count, by one. *)
LEMMA CooldownSteps ==
  ASSUME DataOK, accounts' = accounts, NEW p \in Provider, Owner[p] \in accounts,
         \/ p \in cooling /\ cooling' = cooling \ {p}
         \/ p \notin cooling /\ cooling' = cooling \cup {p},
         UNCHANGED <<usable, keys, binding, load>>
  PROVE  Alloc!ProviderChanges(Owner[p])
<1> DEFINE o == Owner[p]
<1> DEFINE before == ProvidersOf(o) \ cooling
<1> DEFINE after == ProvidersOf(o) \ cooling'
<1>1. o \in Account /\ o \in accounts /\ p \in ProvidersOf(o)
  BY DEF DataOK, ProvidersOf
<1>2. IsFiniteSet(ProvidersOf(o)) /\ IsFiniteSet(before) /\ IsFiniteSet(after)
  BY FS_Subset, GatewayAssumption DEF ProvidersOf
<1>3. \/ p \notin before /\ after = before \cup {p}
      \/ p \notin after /\ before = after \cup {p}
  BY <1>1
<1>4. /\ Cardinality(before) \in Nat /\ Cardinality(after) \in Nat
      /\ Cardinality(after) <= Cardinality(ProvidersOf(o))
      /\ Cardinality(ProvidersOf(o)) \in Nat
  BY <1>2, FS_Subset, FS_CardinalityType
<1>5. \/ Cardinality(after) = Cardinality(before) + 1
      \/ Cardinality(after) + 1 = Cardinality(before)
  BY <1>2, <1>3, FS_AddElement
<1>6. \A a \in Account \ {o} : ProvidersOf(a) \ cooling' = ProvidersOf(a) \ cooling
  BY <1>1 DEF ProvidersOf
<1>7. Working(accounts', cooling') = [Working(accounts, cooling) EXCEPT ![o] = Cardinality(after)]
  BY <1>1, <1>6 DEF Working
<1>8. Working(accounts, cooling)[o] = Cardinality(before)
  BY <1>1 DEF Working
<1>9. Cardinality(after) \in 0..Cardinality(ProvidersOf(o))
  BY <1>4
<1> DEFINE n == Cardinality(after)
<1>10. /\ n \in 0..Cardinality(ProvidersOf(o))
       /\ n + 1 = Working(accounts, cooling)[o] \/ n = Working(accounts, cooling)[o] + 1
       /\ Working(accounts', cooling') = [Working(accounts, cooling) EXCEPT ![o] = n]
  BY <1>5, <1>7, <1>8, <1>9
<1> HIDE DEF n
<1>11. [a \in Account |-> Cardinality(ProvidersOf(a))][o] = Cardinality(ProvidersOf(o))
  BY <1>1
<1> HIDE DEF o
<1> QED
  BY <1>1, <1>10, <1>11 DEF Alloc!ProviderChanges, Alloc!groupVars, Alloc!keyVars, Working, o

(* Assigning an account is what the allocator does, for the request's model
   and with the accounts that are over their limit barred. *)
LEMMA AssignIsAllocation ==
  ASSUME RequestsInOrder, NEW r \in Request, Assign(r)
  PROVE  [Alloc!Next]_(Alloc!vars)
<1>1. /\ req[r].key \in Key /\ req[r].model \in Model \cup {AnyModel}
      /\ Barred \in SUBSET Limited
  BY DEF Assign, RequestsInOrder, InOrder, RequestType, Barred
<1>2. CASE UNCHANGED <<keys, binding, load>>
  BY <1>2 DEF Assign, Alloc!vars
<1>3. CASE Alloc!AssignAccount(req[r].key, req[r].model, Barred)
  BY <1>1, <1>3 DEF Alloc!Next
<1> QED
  BY <1>2, <1>3 DEF Assign

(* A report lifts a cooldown, starts one, or leaves the allocator alone. *)
LEMMA ReportIsAllocation ==
  ASSUME DataOK, RequestsInOrder, NEW r \in Request, Report(r)
  PROVE  [Alloc!Next]_(Alloc!vars)
<1> PICK p \in Provider : p = req[r].prov
  BY DEF Report, RequestsInOrder, InOrder, ProvidersOf
<1>1. Owner[p] \in Account
  BY GatewayAssumption
<1>2. /\ UNCHANGED <<accounts, usable, keys, binding, load>>
      /\ \/ cooling' = cooling \/ cooling' = cooling \ {p}
         \/ Owner[p] \in accounts /\ cooling' = cooling \cup {p}
  BY DEF Report, Exists
<1>3. CASE cooling' = cooling
  BY <1>2, <1>3 DEF Alloc!vars
<1>4. CASE cooling' # cooling
  <2>1. /\ Owner[p] \in accounts
        /\ \/ p \in cooling /\ cooling' = cooling \ {p}
           \/ p \notin cooling /\ cooling' = cooling \cup {p}
    BY <1>2, <1>4 DEF DataOK
  <2>2. Alloc!ProviderChanges(Owner[p])
    BY <1>1, <1>2, <2>1, CooldownSteps
  <2> QED
    BY <1>1, <2>2 DEF Alloc!Next
<1> QED
  BY <1>3, <1>4

(* A booking exhausts an account that exists, or leaves the allocator alone. *)
LEMMA RecordIsAllocation ==
  ASSUME DataOK, NEW r \in Request, Record(r)
  PROVE  [Alloc!Next]_(Alloc!vars)
<1>1. UNCHANGED <<accounts, keys, binding, load, cooling>>
  BY DEF Record
<1>2. CASE usable' = usable
  BY <1>1, <1>2 DEF Alloc!vars
<1>3. ASSUME BilledAccount(r) # None, usable' = [usable EXCEPT ![BilledAccount(r)] = FALSE]
      PROVE  Alloc!Next
  <2>1. BilledAccount(r) \in accounts /\ BilledAccount(r) \in Account
    BY <1>3 DEF BilledAccount, DataOK
  <2>2. Alloc!AccountChanges(BilledAccount(r), FALSE, 0)
    BY <1>1, <1>3, <2>1 DEF Alloc!AccountChanges, Alloc!groupVars, Alloc!keyVars
  <2> QED
    BY <2>1, <2>2 DEF Alloc!Next, Alloc!BalancesOf
<1> QED
  BY <1>2, <1>3 DEF Record

(* RemoveAccounts takes one account; its upstreams' cooldowns go with it. *)
LEMMA RemoveAccountIsAllocation ==
  ASSUME DataOK, GoneUnbound, NEW a \in Account, RemoveAccount(a)
  PROVE  Alloc!Next
<1>1. /\ a \in accounts /\ accounts' = accounts \ {a} /\ keys' = keys
      /\ usable' = [usable EXCEPT ![a] = FALSE]
      /\ binding' = [k \in Key |-> IF binding[k] = a THEN None ELSE binding[k]]
      /\ cooling' = cooling \ ProvidersOf(a)
  BY DEF RemoveAccount
<1>2. \A k \in Key \ keys : binding'[k] = None
  BY <1>1 DEF GoneUnbound
<1>3. keys \in SUBSET Key
  BY DEF DataOK
<1>4. load' = Alloc!Reindexed(keys, binding')
  BY <1>2, <1>3, Recount DEF RemoveAccount
<1>5. \A b \in Account \ {a} : ProvidersOf(b) \ cooling' = ProvidersOf(b) \ cooling
  BY <1>1 DEF ProvidersOf
<1>6. Working(accounts', cooling')
        = [b \in Account |-> IF b \in {a} THEN 0 ELSE Working(accounts, cooling)[b]]
  BY <1>1, <1>5 DEF Working
<1>7. usable' = [b \in Account |-> usable[b] /\ b \notin {a}]
  BY <1>1 DEF DataOK
<1>8. binding' = Alloc!Unbound({a})
  BY <1>1 DEF Alloc!Unbound
<1>9. Account \ accounts' = (Account \ accounts) \cup {a}
  BY <1>1
<1>10. Alloc!RemoveAccounts({a})
  BY <1>1, <1>4, <1>6, <1>7, <1>8, <1>9 DEF Alloc!RemoveAccounts, Alloc!groupVars, Working
<1>11. {a} \in SUBSET Account
  OBVIOUS
<1> QED
  BY <1>10, <1>11 DEF Alloc!Next

(* Removing a key is RemoveKeys for it alone. *)
LEMMA RemoveKeyIsAllocation ==
  ASSUME DataOK, GoneUnbound, NEW k \in Key, RemoveKey(k)
  PROVE  Alloc!Next
<1>1. /\ keys' = keys \ {k} /\ binding' = [binding EXCEPT ![k] = None]
      /\ load' = [b \in Account |-> Cardinality({j \in Key : binding'[j] = b})]
      /\ UNCHANGED <<accounts, usable, cooling>>
  BY DEF RemoveKey
<1>2. \A j \in Key \ keys' : binding'[j] = None
  BY <1>1 DEF GoneUnbound, DataOK
<1>3. keys' \in SUBSET Key
  BY <1>1 DEF DataOK
<1>4. load' = Alloc!Reindexed(keys', binding')
  BY <1>1, <1>2, <1>3, Recount
<1>5. binding' = [j \in Key |-> IF j \in {k} THEN None ELSE binding[j]]
  BY <1>1 DEF DataOK
<1>6. Alloc!RemoveKeys({k})
  BY <1>1, <1>4, <1>5 DEF Alloc!RemoveKeys, Alloc!groupVars, Alloc!accountVars
<1>7. {k} \in SUBSET Key
  OBVIOUS
<1> QED
  BY <1>6, <1>7 DEF Alloc!Next

(* Moving a key is the administrator's PatchKey. *)
LEMMA MoveKeyIsAllocation ==
  ASSUME DataOK, GoneUnbound, NEW k \in Key, NEW a \in Account, MoveKey(k, a)
  PROVE  Alloc!Next
<1>1. /\ k \in keys /\ a \in accounts /\ binding' = [binding EXCEPT ![k] = a]
      /\ load' = [b \in Account |-> Cardinality({j \in Key : binding'[j] = b})]
      /\ UNCHANGED <<accounts, usable, keys, cooling>>
  BY DEF MoveKey
<1>2. \A j \in Key \ keys : binding'[j] = None
  BY <1>1 DEF GoneUnbound, DataOK
<1>3. keys \in SUBSET Key
  BY DEF DataOK
<1>4. load' = Alloc!Reindexed(keys, binding')
  BY <1>1, <1>2, <1>3, Recount
<1>5. Alloc!PatchKey(k, None, a)
  BY <1>1, <1>4 DEF Alloc!PatchKey, Alloc!groupVars, Alloc!accountVars
<1> QED
  BY <1>1, <1>5 DEF Alloc!Next, Alloc!KnownAccounts

(* Every step of the gateway is one of the allocator, or a stutter. *)
LEMMA NextIsAllocation ==
  ASSUME DataOK, RequestsInOrder, GoneUnbound, [Next]_vars
  PROVE  [Alloc!Next]_(Alloc!vars)
<1>1. CASE UNCHANGED <<accounts, usable, keys, binding, load, cooling>>
  BY <1>1 DEF Alloc!vars
<1>2. CASE \E r \in Request, k \in Key, m \in Model : Arrive(r, k, m)
  BY <1>1, <1>2 DEF Arrive, dataVars
<1>3. ASSUME NEW r \in Request, Proceed(r), ~Assign(r), ~Report(r), ~Record(r)
      PROVE  [Alloc!Next]_(Alloc!vars)
  BY <1>1, <1>3
     DEF Proceed, PassKeyLimit, Refresh, RecordHit, Order, Send, Answer, Switch, dataVars
<1>4. ASSUME NEW a \in Account, MoneyMoves(a)
      PROVE  Alloc!Next
  <2>1. usable'[a] \in BOOLEAN
    BY NextKeepsData DEF DataOK
  <2>2. Alloc!AccountChanges(a, usable'[a], 0)
    BY <1>4 DEF MoneyMoves, DataOK, Alloc!AccountChanges, Alloc!groupVars, Alloc!keyVars
  <2> QED
    BY <2>1, <2>2 DEF Alloc!Next, Alloc!BalancesOf
<1>5. CASE \E a \in Account : HitExpires(a)
  BY <1>1, <1>5 DEF HitExpires
<1>6. ASSUME NEW p \in Provider, CooldownEnds(p)
      PROVE  Alloc!Next
  <2>1. Owner[p] \in accounts /\ Owner[p] \in Account
    BY <1>6 DEF CooldownEnds, DataOK
  <2>2. Alloc!ProviderChanges(Owner[p])
    BY <1>6, <2>1, CooldownSteps DEF CooldownEnds
  <2> QED
    BY <2>1, <2>2 DEF Alloc!Next
<1>7. CASE UNCHANGED vars
  BY <1>1, <1>7 DEF vars
<1> QED
  BY <1>2, <1>3, <1>4, <1>5, <1>6, <1>7, AssignIsAllocation, ReportIsAllocation,
     RecordIsAllocation, RemoveAccountIsAllocation, RemoveKeyIsAllocation, MoveKeyIsAllocation
     DEF Next

----------------------------------------------------------------------------
(* The load index *)

\* The keys that b binds to account a, and the index a recount of them gives.
Bound(b, a) == {k \in Key : b[k] = a}
Counted(b) == [a \in Account |-> Cardinality(Bound(b, a))]

LoadOK == load = Counted(binding)

(* Binding a key anew adds it to one account's count, if it was not there, and
   takes it from the one it leaves. *)
LEMMA RebindCounts ==
  ASSUME NEW b, NEW c, NEW k \in Key, NEW a, \A j \in Key \ {k} : c[j] = b[j]
  PROVE  /\ Cardinality(Bound(b, a)) \in Nat
         /\ b[k] = a => Cardinality(Bound(b, a)) > 0
         /\ c[k] = a /\ b[k] # a => Cardinality(Bound(c, a)) = Cardinality(Bound(b, a)) + 1
         /\ c[k] # a /\ b[k] = a => Cardinality(Bound(c, a)) = Cardinality(Bound(b, a)) - 1
         /\ (c[k] = a /\ b[k] = a) \/ (c[k] # a /\ b[k] # a) => Cardinality(Bound(c, a)) = Cardinality(Bound(b, a))
<1>1. Bound(b, a) \subseteq Key /\ IsFiniteSet(Bound(b, a)) /\ Cardinality(Bound(b, a)) \in Nat
  BY FS_Subset, FS_CardinalityType, GatewayAssumption DEF Bound
<1>2. ASSUME b[k] = a
      PROVE  Cardinality(Bound(b, a)) > 0
  <2>1. k \in Bound(b, a)
    BY <1>2 DEF Bound
  <2>2. Cardinality(Bound(b, a)) # 0
    BY <1>1, <2>1, FS_EmptySet
  <2> QED
    BY <1>1, <2>2
<1>3. ASSUME c[k] = a, b[k] # a
      PROVE  Cardinality(Bound(c, a)) = Cardinality(Bound(b, a)) + 1
  <2>1. Bound(c, a) = Bound(b, a) \cup {k} /\ k \notin Bound(b, a)
    BY <1>3 DEF Bound
  <2> QED
    BY <1>1, <2>1, FS_AddElement
<1>4. ASSUME c[k] # a, b[k] = a
      PROVE  Cardinality(Bound(c, a)) = Cardinality(Bound(b, a)) - 1
  <2>1. Bound(c, a) = Bound(b, a) \ {k} /\ k \in Bound(b, a)
    BY <1>4 DEF Bound
  <2> QED
    BY <1>1, <2>1, FS_RemoveElement
<1>5. ASSUME (c[k] = a /\ b[k] = a) \/ (c[k] # a /\ b[k] # a)
      PROVE  Cardinality(Bound(c, a)) = Cardinality(Bound(b, a))
  <2>1. Bound(c, a) = Bound(b, a)
    BY <1>5 DEF Bound
  <2> QED
    BY <2>1
<1> QED
  BY <1>1, <1>2, <1>3, <1>4, <1>5

(* The request path maintains the index by hand, as a recount would. *)
LEMMA AssignCounts ==
  ASSUME DataOK, LoadOK, NEW k \in keys, NEW m, NEW barred, Alloc!AssignAccount(k, m, barred)
  PROVE  LoadOK'
<1>1. k \in Key /\ binding \in [Key -> Account \cup {None}] /\ load \in [Account -> Nat]
      /\ load = Counted(binding)
  BY DEF DataOK, LoadOK
<1>2. CASE Alloc!KeepBinding(k, m, barred)
  BY <1>1, <1>2 DEF Alloc!KeepBinding, Alloc!vars, LoadOK
<1>3. CASE Alloc!Rebind(k, m, barred)
  <2> DEFINE freed == Alloc!Detach(load, binding[k])
  <2>1. \A a \in Account : load[a] = Cardinality(Bound(binding, a))
    BY <1>1 DEF Counted
  <2>2. freed = [a \in Account |-> IF a = binding[k] THEN load[a] - 1 ELSE load[a]]
    <3>1. CASE binding[k] = None
      BY <1>1, <3>1, GatewayAssumption DEF Alloc!Detach
    <3>2. CASE binding[k] # None
      <4>1. binding[k] \in Account /\ load[binding[k]] = Cardinality(Bound(binding, binding[k]))
        BY <1>1, <2>1, <3>2
      <4>2. load[binding[k]] > 0
        BY <1>1, <4>1, RebindCounts
      <4> QED
        BY <1>1, <3>2, <4>2 DEF Alloc!Detach
    <3> QED
      BY <3>1, <3>2
  <2>3. \/ binding' = [binding EXCEPT ![k] = None] /\ load' = freed
        \/ \E a \in Alloc!Served(k, m, barred) :
             binding' = [binding EXCEPT ![k] = a] /\ load' = Alloc!Attach(freed, a)
    BY <1>3 DEF Alloc!Rebind
  <2> HIDE DEF freed
  <2>4. ASSUME NEW v, binding'[k] = v, \A j \in Key \ {k} : binding'[j] = binding[j],
               load' = [a \in Account |-> IF a = v THEN freed[a] + 1 ELSE freed[a]]
        PROVE  LoadOK'
    <3>1. ASSUME NEW a \in Account
          PROVE  load'[a] = Cardinality(Bound(binding', a))
      <4>1. PICK n \in Nat : n = Cardinality(Bound(binding, a)) /\ n = load[a]
        BY <1>1, <2>1
      <4>2. /\ v = a /\ binding[k] # a => Cardinality(Bound(binding', a)) = n + 1
            /\ v # a /\ binding[k] = a => Cardinality(Bound(binding', a)) = n - 1
            /\ (v = a /\ binding[k] = a) \/ (v # a /\ binding[k] # a) => Cardinality(Bound(binding', a)) = n
        <5>1. PICK b, c : b = binding /\ c = binding'
          OBVIOUS
        <5>2. k \in Key /\ c[k] = v /\ \A j \in Key \ {k} : c[j] = b[j]
          BY <1>1, <2>4, <5>1
        <5>3. /\ c[k] = a /\ b[k] # a => Cardinality(Bound(c, a)) = Cardinality(Bound(b, a)) + 1
              /\ c[k] # a /\ b[k] = a => Cardinality(Bound(c, a)) = Cardinality(Bound(b, a)) - 1
              /\ (c[k] = a /\ b[k] = a) \/ (c[k] # a /\ b[k] # a) => Cardinality(Bound(c, a)) = Cardinality(Bound(b, a))
          BY <5>2, RebindCounts
        <5> QED
          BY <4>1, <5>1, <5>2, <5>3
      <4>3. load'[a] = IF a = v THEN freed[a] + 1 ELSE freed[a]
        BY <2>4
      <4>4. freed[a] = IF a = binding[k] THEN n - 1 ELSE n
        BY <2>2, <4>1
      <4> QED
        BY <4>2, <4>3, <4>4
    <3>2. load' = [a \in Account |-> load'[a]]
      BY <2>4
    <3>3. load' = [a \in Account |-> Cardinality(Bound(binding', a))]
      BY <3>1, <3>2
    <3> QED
      BY <3>3 DEF LoadOK, Counted
  <2>5. CASE binding' = [binding EXCEPT ![k] = None] /\ load' = freed
    <3>1. /\ binding'[k] = None /\ \A j \in Key \ {k} : binding'[j] = binding[j]
          /\ load' = [a \in Account |-> IF a = None THEN freed[a] + 1 ELSE freed[a]]
      BY <1>1, <2>2, <2>5, GatewayAssumption
    <3> QED
      BY <2>4, <3>1
  <2>6. ASSUME NEW v \in Alloc!Served(k, m, barred),
               binding' = [binding EXCEPT ![k] = v], load' = Alloc!Attach(freed, v)
        PROVE  LoadOK'
    <3>1. v \in Account
      BY ServedExists DEF DataOK
    <3>2. /\ binding'[k] = v /\ \A j \in Key \ {k} : binding'[j] = binding[j]
          /\ load' = [a \in Account |-> IF a = v THEN freed[a] + 1 ELSE freed[a]]
      BY <1>1, <2>2, <2>6, <3>1 DEF Alloc!Attach
    <3> QED
      BY <2>4, <3>2
  <2> QED
    BY <2>3, <2>5, <2>6
<1> QED
  BY <1>2, <1>3 DEF Alloc!AssignAccount

(* Whatever the gateway does, the index is what a recount gives. *)
LEMMA NextCountsLoad ==
  ASSUME DataOK, LoadOK, [Next]_vars
  PROVE  LoadOK'
<1>1. CASE UNCHANGED <<binding, load>>
  BY <1>1 DEF LoadOK
<1>2. CASE \E r \in Request, k \in Key, m \in Model : Arrive(r, k, m)
  BY <1>1, <1>2 DEF Arrive, dataVars
<1>3. ASSUME NEW r \in Request, Assign(r)
      PROVE  LoadOK'
  <2>1. CASE UNCHANGED <<keys, binding, load>>
    BY <1>1, <2>1
  <2>2. CASE KeyActive(req[r].key) /\ Alloc!AssignAccount(req[r].key, req[r].model, Barred)
    BY <2>2, AssignCounts DEF KeyActive
  <2> QED
    BY <1>3, <2>1, <2>2 DEF Assign
<1>4. ASSUME NEW r \in Request, Proceed(r), ~Assign(r)
      PROVE  LoadOK'
  BY <1>1, <1>4
     DEF Proceed, PassKeyLimit, Refresh, RecordHit, Order, Send, Answer, Report, Switch, Record,
         dataVars
<1>5. CASE \/ \E a \in Account : MoneyMoves(a) \/ HitExpires(a)
           \/ \E p \in Provider : CooldownEnds(p)
  BY <1>1, <1>5 DEF MoneyMoves, HitExpires, CooldownEnds
<1>6. CASE load' = [a \in Account |-> Cardinality({k \in Key : binding'[k] = a})]
  BY <1>6 DEF LoadOK, Counted, Bound
<1>7. CASE \/ \E a \in Account : RemoveAccount(a)
           \/ \E k \in Key : RemoveKey(k) \/ \E a \in Account : MoveKey(k, a)
  BY <1>6, <1>7 DEF RemoveAccount, RemoveKey, MoveKey
<1>8. CASE UNCHANGED vars
  BY <1>1, <1>8 DEF vars
<1> QED
  BY <1>2, <1>3, <1>4, <1>5, <1>7, <1>8 DEF Next

(* What the allocator sees of a gateway in order is what its own invariant says
   of it. *)
LEMMA SeenInOrder ==
  ASSUME DataOK, GoneUnbound, LoadOK
  PROVE  Alloc!TypeOK /\ Alloc!LoadIndexExact
<1>1. /\ {TheGroup} \subseteq {TheGroup} /\ {} \subseteq {TheGroup} \ {TheGroup}
      /\ Account \ accounts \subseteq Account \ accounts
      /\ [a \in Account |-> 0] \in [Account -> {0}]
      /\ [k \in Key |-> None] \in [Key -> {TheGroup} \cup {None}]
  OBVIOUS
<1>2. \A S : Alloc!Cardinality(S) = Cardinality(S)
  BY DEF Alloc!Cardinality, Cardinality
<1>3. ASSUME NEW a \in Account
      PROVE  /\ Cardinality(ProvidersOf(a) \ cooling) \in Nat
             /\ Cardinality(ProvidersOf(a)) \in Nat
             /\ Cardinality(ProvidersOf(a) \ cooling) <= Cardinality(ProvidersOf(a))
  <2>1. IsFiniteSet(ProvidersOf(a)) /\ ProvidersOf(a) \ cooling \subseteq ProvidersOf(a)
    BY FS_Subset, GatewayAssumption DEF ProvidersOf
  <2> QED
    BY <2>1, FS_Subset, FS_CardinalityType
<1>4. \A a \in Account : Working(accounts, cooling)[a] \in Nat
                         /\ Working(accounts, cooling)[a] <= Cardinality(ProvidersOf(a))
  BY <1>3 DEF Working
<1>5. Working(accounts, cooling) \in [Account -> Nat]
  BY <1>4 DEF Working
<1>6. Alloc!TypeOK
  BY <1>1, <1>2, <1>4, <1>5 DEF Alloc!TypeOK, DataOK, Working
<1>7. Alloc!LoadIndexExact
  <2>1. load = [a \in Account |-> Cardinality({k \in Key : binding[k] = a})]
    BY DEF LoadOK, Counted, Bound
  <2> QED
    BY <2>1, Recount DEF GoneUnbound, DataOK, Alloc!LoadIndexExact
<1> QED
  BY <1>6, <1>7

----------------------------------------------------------------------------
(* What the steps of a request make of it *)

\* What a step of its own makes of a request's record q.  An account is picked
\* on the way to a refresh or a hit only.
Goes(q, n) ==
  \/ q.pc # "idle" /\ n.pc = "idle"
  \/ q.pc \notin {"idle", "record"} /\ n.pc = "record"
  \/ /\ n.switches = q.switches
     /\ \/ /\ n.tries = q.tries
           /\ \/ q.pc = "limit" /\ n.pc = "assign"
              \/ q.pc = "assign" /\ n.pc \in {"refresh", "hit"} /\ n.pick \notin Barred
              \/ q.pc = "refresh" /\ n.pc = "hit" /\ n.pick = q.pick
              \/ q.pc = "hit" /\ n.pc = "order"
        \/ q.pc = "refresh" /\ n.pc = "assign" /\ n.tries = q.tries + 1
        \/ q.pc = "order" /\ n.pc = "send"
        \/ /\ n.left = q.left
           /\ \/ q.pc \in {"assign", "refresh", "order", "short"} /\ n.pc = "send"
              \/ q.pc = "sent" /\ n.pc = "report"
              \/ q.pc = "report" /\ n.pc \in {"short", "send"}
        \/ q.pc = "send" /\ n.pc = "sent" /\ n.left = q.left - 1
  \/ /\ q.pc = "short" /\ n.pc = "assign"
     /\ n.switches = q.switches + 1 /\ n.tries = 0

(* What the allocator hands out is not over its limit. *)
LEMMA ServedNotBarred ==
  ASSUME NEW k, NEW m, NEW barred, NEW a \in Alloc!Served(k, m, barred)
  PROVE  a \notin barred
<1>1. \A g : Alloc!Pool(g, m, barred) \cap barred = {}
  BY DEF Alloc!Pool, Alloc!UsableAccounts
<1>2. CASE Alloc!Sticky(k, m, barred)
  BY <1>1, <1>2 DEF Alloc!Served, Alloc!Sticky
<1>3. CASE ~Alloc!Sticky(k, m, barred)
  BY <1>1, <1>3 DEF Alloc!Served
<1> QED
  BY <1>2, <1>3

(* A request that finds no account is over, is booked, or falls back. *)
LEMMA NoAccountGoes ==
  ASSUME RequestsInOrder, NEW r \in Request,
         req[r].pc \in {"assign", "refresh", "order", "short"}
  PROVE  \E n : NoAccount(r) = [req EXCEPT ![r] = n] /\ Goes(req[r], n)
<1> DEFINE q == req[r]
<1> DEFINE n1 == [q EXCEPT !.pc = "send", !.tries = 0, !.pick = None, !.out = "ok"]
<1> DEFINE n2 == [q EXCEPT !.pc = "record"]
<1>1. req \in [Request -> RequestType] /\ q \in RequestType
  BY DEF RequestsInOrder
<1>2. n1.pc = "send" /\ n1.left = q.left /\ n1.switches = q.switches
  BY <1>1 DEF RequestType
<1>3. n2.pc = "record" /\ NoRequest.pc = "idle"
  BY <1>1 DEF RequestType, NoRequest
<1>4. Goes(q, n1) /\ Goes(q, n2) /\ Goes(q, NoRequest)
  BY <1>2, <1>3 DEF Goes
<1>5. NoAccount(r) = [req EXCEPT ![r] = IF ~Switching(r) THEN NoRequest
                        ELSE IF q.out = "shortRetry" /\ q.left > 0 THEN n1 ELSE n2]
  BY <1>1 DEF NoAccount
<1> HIDE DEF n1, n2
<1> QED
  BY <1>4, <1>5

(* Every step of a request is one of these. *)
LEMMA ProceedGoes ==
  ASSUME DataOK, RequestsInOrder, NEW r \in Request, Proceed(r)
  PROVE  \E n : req' = [req EXCEPT ![r] = n] /\ Goes(req[r], n)
<1> DEFINE q == req[r]
<1>1. req \in [Request -> RequestType] /\ q \in RequestType /\ InOrder(q)
  BY DEF RequestsInOrder
<1>2. CASE PassKeyLimit(r)
  <2> DEFINE n1 == [q EXCEPT !.pc = "assign"]
  <2> DEFINE n2 == [q EXCEPT !.pc = "record", !.out = "fatal"]
  <2>1. q.pc = "limit" /\ (req' = [req EXCEPT ![r] = n1] \/ req' = [req EXCEPT ![r] = n2])
    BY <1>1, <1>2 DEF PassKeyLimit
  <2>2. n1.pc = "assign" /\ n1.switches = q.switches /\ n1.tries = q.tries /\ n2.pc = "record"
    BY <1>1 DEF RequestType
  <2> HIDE DEF n1, n2
  <2>3. Goes(q, n1) /\ Goes(q, n2)
    BY <2>1, <2>2 DEF Goes
  <2> QED
    BY <2>1, <2>3
<1>3. CASE Assign(r)
  <2> DEFINE n(a, pc) == [q EXCEPT !.pc = pc, !.pick = a]
  <2>1. q.pc = "assign"
    BY <1>3 DEF Assign
  <2>2. None \notin Barred
    BY GatewayAssumption DEF Barred
  <2>3. \/ req' = NoAccount(r)
        \/ \E a, pc : /\ a \notin Barred /\ pc \in {"refresh", "hit"}
                      /\ req' = [req EXCEPT ![r] = n(a, pc)]
    BY <1>1, <1>3, <2>2, ServedNotBarred DEF Assign
  <2>4. ASSUME NEW a, NEW pc, a \notin Barred, pc \in {"refresh", "hit"}
        PROVE  Goes(q, n(a, pc))
    <3>1. n(a, pc).pc = pc /\ n(a, pc).pick = a /\ n(a, pc).switches = q.switches
          /\ n(a, pc).tries = q.tries
      BY <1>1 DEF RequestType
    <3> QED
      BY <2>1, <2>4, <3>1 DEF Goes
  <2> HIDE DEF n
  <2> QED
    BY <2>1, <2>3, <2>4, NoAccountGoes
<1>4. CASE Refresh(r)
  <2> DEFINE n1 == [q EXCEPT !.pc = "hit"]
  <2> DEFINE n2 == [q EXCEPT !.pc = "assign", !.tries = q.tries + 1]
  <2>1. q.pc = "refresh" /\ (\/ req' = [req EXCEPT ![r] = n1] \/ req' = [req EXCEPT ![r] = n2]
                             \/ req' = NoAccount(r))
    BY <1>1, <1>4 DEF Refresh
  <2>2. /\ n1.pc = "hit" /\ n1.switches = q.switches /\ n1.tries = q.tries /\ n1.pick = q.pick
        /\ n2.pc = "assign" /\ n2.switches = q.switches /\ n2.tries = q.tries + 1
    BY <1>1 DEF RequestType
  <2> HIDE DEF n1, n2
  <2>3. Goes(q, n1) /\ Goes(q, n2)
    BY <2>1, <2>2 DEF Goes
  <2> QED
    BY <2>1, <2>3, NoAccountGoes
<1>5. CASE RecordHit(r)
  <2> DEFINE n == [q EXCEPT !.pc = "order"]
  <2>1. q.pc = "hit" /\ req' = [req EXCEPT ![r] = n]
    BY <1>1, <1>5 DEF RecordHit
  <2>2. n.pc = "order" /\ n.switches = q.switches /\ n.tries = q.tries
    BY <1>1 DEF RequestType
  <2> HIDE DEF n
  <2> QED
    BY <2>1, <2>2 DEF Goes
<1>6. CASE Order(r)
  <2> DEFINE n1 == [q EXCEPT !.pc = "record", !.acc = q.pick]
  <2>1. q.pc = "order" /\ n1.pc = "record"
    BY <1>1, <1>6 DEF Order, RequestType
  <2>2. ASSUME NEW c, NEW t
        PROVE  Goes(q, [q EXCEPT !.pc = "send", !.acc = q.pick, !.cands = c, !.left = t,
                                 !.tries = 0, !.pick = None, !.out = "ok"])
    <3> DEFINE n == [q EXCEPT !.pc = "send", !.acc = q.pick, !.cands = c, !.left = t,
                              !.tries = 0, !.pick = None, !.out = "ok"]
    <3>1. n.pc = "send" /\ n.switches = q.switches
      BY <1>1 DEF RequestType
    <3> HIDE DEF n
    <3>2. Goes(q, n)
      BY <2>1, <3>1 DEF Goes
    <3> QED
      BY <3>2 DEF n
  <2>3. Goes(q, n1)
    BY <2>1 DEF Goes
  <2>4. \/ req' = NoAccount(r) \/ req' = [req EXCEPT ![r] = n1]
        \/ \E c, t : req' = [req EXCEPT ![r] =
                       [q EXCEPT !.pc = "send", !.acc = q.pick, !.cands = c, !.left = t,
                                 !.tries = 0, !.pick = None, !.out = "ok"]]
    BY <1>1, <1>6 DEF Order
  <2>5. CASE req' = NoAccount(r)
    BY <2>1, <2>5, NoAccountGoes
  <2>6. CASE req' = [req EXCEPT ![r] = n1]
    BY <2>3, <2>6
  <2>7. ASSUME NEW c, NEW t,
               req' = [req EXCEPT ![r] =
                         [q EXCEPT !.pc = "send", !.acc = q.pick, !.cands = c, !.left = t,
                                   !.tries = 0, !.pick = None, !.out = "ok"]]
        PROVE  \E n : req' = [req EXCEPT ![r] = n] /\ Goes(q, n)
    BY <2>2, <2>7
  <2> HIDE DEF n1
  <2> QED
    BY <2>4, <2>5, <2>6, <2>7
<1>7. ASSUME NEW p \in Provider, Send(r, p)
      PROVE  \E n : req' = [req EXCEPT ![r] = n] /\ Goes(q, n)
  <2> DEFINE n == [q EXCEPT !.pc = "sent", !.prov = p, !.left = @ - 1, !.cands = @ \ {p}]
  <2>1. q.pc = "send" /\ req' = [req EXCEPT ![r] = n]
    BY <1>7 DEF Send
  <2>2. n.pc = "sent" /\ n.switches = q.switches /\ n.left = q.left - 1
    BY <1>1 DEF RequestType
  <2> HIDE DEF n
  <2> QED
    BY <2>1, <2>2 DEF Goes
<1>8. ASSUME NEW out \in Outcomes, Answer(r, out)
      PROVE  \E n : req' = [req EXCEPT ![r] = n] /\ Goes(q, n)
  <2> DEFINE n == [q EXCEPT !.pc = "report", !.out = out]
  <2>1. q.pc = "sent" /\ req' = [req EXCEPT ![r] = n]
    BY <1>1, <1>8 DEF Answer
  <2>2. n.pc = "report" /\ n.switches = q.switches /\ n.left = q.left
    BY <1>1 DEF RequestType
  <2> HIDE DEF n
  <2> QED
    BY <2>1, <2>2 DEF Goes
<1>9. CASE Report(r)
  <2> DEFINE n1 == [[q EXCEPT !.prov = None] EXCEPT !.pc = "short"]
  <2> DEFINE n2 == [[q EXCEPT !.prov = None] EXCEPT !.pc = "send", !.out = "ok"]
  <2> DEFINE n3 == [[q EXCEPT !.prov = None] EXCEPT !.pc = "record"]
  <2>1. q.pc = "report" /\ req' = [req EXCEPT ![r] = Continue(r)]
    BY <1>9 DEF Report
  <2>2. /\ n1.pc = "short" /\ n1.switches = q.switches /\ n1.left = q.left
        /\ n2.pc = "send" /\ n2.switches = q.switches /\ n2.left = q.left
        /\ n3.pc = "record" /\ NoRequest.pc = "idle"
    BY <1>1 DEF RequestType, NoRequest
  <2>3. Continue(r) \in {n1, n2, n3, NoRequest}
    BY DEF Continue
  <2> HIDE DEF n1, n2, n3
  <2>4. Goes(q, n1) /\ Goes(q, n2) /\ Goes(q, n3) /\ Goes(q, NoRequest)
    BY <2>1, <2>2 DEF Goes
  <2> QED
    BY <2>1, <2>3, <2>4
<1>10. CASE Switch(r)
  <2> DEFINE n == [q EXCEPT !.pc = "assign", !.tries = 0, !.switches = @ + 1]
  <2>1. q.pc = "short" /\ (req' = NoAccount(r) \/ req' = [req EXCEPT ![r] = n])
    BY <1>1, <1>10 DEF Switch
  <2>2. n.pc = "assign" /\ n.switches = q.switches + 1 /\ n.tries = 0
    BY <1>1 DEF RequestType
  <2> HIDE DEF n
  <2>3. Goes(q, n)
    BY <2>1, <2>2 DEF Goes
  <2> QED
    BY <2>1, <2>3, NoAccountGoes
<1>11. CASE Record(r)
  <2>1. q.pc = "record" /\ req' = [req EXCEPT ![r] = NoRequest] /\ NoRequest.pc = "idle"
    BY <1>11 DEF Record, NoRequest
  <2>2. Goes(q, NoRequest)
    BY <2>1 DEF Goes
  <2> QED
    BY <2>1, <2>2
<1> HIDE DEF q
<1> QED
  BY <1>2, <1>3, <1>4, <1>5, <1>6, <1>7, <1>8, <1>9, <1>10, <1>11 DEF Proceed, q

----------------------------------------------------------------------------
(* The limits of accounts *)

\* The requests that are yet to record a hit of account a, by their records R.
Nearing(R, a) == {r \in Request : R[r].pc \in {"refresh", "hit"} /\ R[r].pick = a}

\* Whoever is yet to come counts as well.  While the bucket is full nobody joins
\* them, and the request that filled it has left them.
OverOK ==
  \A a \in Account :
    IF a \in Barred THEN over[a] + Cardinality(Nearing(req, a)) < Cardinality(Request)
    ELSE over[a] = 0

(* There are finitely many of them. *)
LEMMA NearingType ==
  ASSUME NEW R, NEW a
  PROVE  /\ IsFiniteSet(Nearing(R, a)) /\ Cardinality(Nearing(R, a)) \in Nat
         /\ Cardinality(Nearing(R, a)) <= Cardinality(Request) /\ Cardinality(Request) \in Nat
<1>1. Nearing(R, a) \subseteq Request /\ IsFiniteSet(Request)
  BY GatewayAssumption DEF Nearing
<1> QED
  BY <1>1, FS_Subset, FS_CardinalityType

(* Nothing is lost while no hit is recorded and nobody joins at a full bucket. *)
LEMMA NobodyJoins ==
  ASSUME DataOK, OverOK, hits' = hits, over' = over,
         \A a \in Barred : Nearing(req', a) \subseteq Nearing(req, a)
  PROVE  OverOK'
<1>1. Barred' = Barred
  BY DEF Barred
<1> SUFFICES ASSUME NEW a \in Account
             PROVE  IF a \in Barred
                    THEN over[a] + Cardinality(Nearing(req', a)) < Cardinality(Request)
                    ELSE over[a] = 0
  BY <1>1 DEF OverOK
<1>2. CASE a \notin Barred
  BY <1>2 DEF OverOK
<1>3. CASE a \in Barred
  <2>1. Cardinality(Nearing(req', a)) <= Cardinality(Nearing(req, a))
    BY <1>3, NearingType, FS_Subset
  <2>2. over[a] + Cardinality(Nearing(req, a)) < Cardinality(Request) /\ over[a] \in Nat
    BY <1>3 DEF OverOK, DataOK
  <2>3. /\ Cardinality(Nearing(req', a)) \in Nat /\ Cardinality(Nearing(req, a)) \in Nat
        /\ Cardinality(Request) \in Nat
    BY NearingType
  <2>4. over[a] + Cardinality(Nearing(req', a)) < Cardinality(Request)
    BY <2>1, <2>2, <2>3
  <2> QED
    BY <1>3, <2>4
<1> QED
  BY <1>2, <1>3

(* A request joins those who are to record a hit of an account only when that
   account was picked, and what is picked has room. *)
LEMMA OnlyPicksJoin ==
  ASSUME DataOK, RequestsInOrder, NEW r \in Request, Proceed(r)
  PROVE  \A a \in Barred : Nearing(req', a) \subseteq Nearing(req, a)
<1>1. PICK n : req' = [req EXCEPT ![r] = n] /\ Goes(req[r], n)
  BY ProceedGoes
<1>2. req'[r] = n /\ \A s \in Request \ {r} : req'[s] = req[s]
  BY <1>1 DEF RequestsInOrder
<1>3. ASSUME NEW a \in Barred, n.pc \in {"refresh", "hit"}, n.pick = a
      PROVE  req[r].pc \in {"refresh", "hit"} /\ req[r].pick = a
  BY <1>1, <1>3 DEF Goes
<1> QED
  BY <1>2, <1>3 DEF Nearing

(* A hit that is recorded leaves one fewer to come. *)
LEMMA HitLeaves ==
  ASSUME DataOK, RequestsInOrder, NEW r \in Request, RecordHit(r)
  PROVE  /\ r \in Nearing(req, req[r].pick) /\ r \notin Nearing(req', req[r].pick)
         /\ \A a : Nearing(req', a) \subseteq Nearing(req, a)
<1>1. /\ req[r].pc = "hit" /\ req'[r].pc = "order"
      /\ \A s \in Request \ {r} : req'[s] = req[s]
  BY DEF RecordHit, RequestsInOrder, RequestType
<1> QED
  BY <1>1 DEF Nearing

(* Recording a hit keeps the bound: the one that fills the bucket is no longer
   to come, and one that finds it full moves from those to come to those over. *)
LEMMA RecordHitBounded ==
  ASSUME DataOK, RequestsInOrder, OverOK, NEW r \in Request, RecordHit(r)
  PROVE  OverOK'
<1> DEFINE b == req[r].pick
<1>1. /\ r \in Nearing(req, b) /\ r \notin Nearing(req', b)
      /\ \A a : Nearing(req', a) \subseteq Nearing(req, a)
  BY HitLeaves
<1> HIDE DEF b
<1>2. /\ hits \in [Account -> 0..AccountLimit] /\ over \in [Account -> Nat]
      /\ AccountLimit \in Nat /\ Limited \subseteq Account
  BY GatewayAssumption DEF DataOK
<1>3. CASE UNCHANGED <<hits, over>>
  BY <1>1, <1>3, NobodyJoins
<1>4. ASSUME b \in Limited, AccountLimit > 0, hits[b] < AccountLimit,
             hits' = [hits EXCEPT ![b] = @ + 1], over' = over
      PROVE  OverOK'
  <2>1. b \notin Barred /\ b \in Account
    BY <1>2, <1>4 DEF Barred
  <2>2. ASSUME NEW a \in Account, a # b
        PROVE  (a \in Barred' <=> a \in Barred) /\ over'[a] = over[a]
    BY <1>2, <1>4, <2>2 DEF Barred
  <2>3. ASSUME NEW a \in Account, a # b
        PROVE  IF a \in Barred' THEN over'[a] + Cardinality(Nearing(req', a)) < Cardinality(Request)
               ELSE over'[a] = 0
    <3>1. CASE a \notin Barred
      BY <2>2, <2>3, <3>1 DEF OverOK
    <3>2. CASE a \in Barred
      <4>1. Cardinality(Nearing(req', a)) <= Cardinality(Nearing(req, a))
        BY <1>1, NearingType, FS_Subset
      <4>2. over[a] + Cardinality(Nearing(req, a)) < Cardinality(Request) /\ over[a] \in Nat
        BY <1>2, <3>2 DEF OverOK
      <4>3. /\ Cardinality(Nearing(req', a)) \in Nat /\ Cardinality(Nearing(req, a)) \in Nat
            /\ Cardinality(Request) \in Nat
        BY NearingType
      <4>4. over[a] + Cardinality(Nearing(req', a)) < Cardinality(Request)
        BY <4>1, <4>2, <4>3
      <4> QED
        BY <2>2, <2>3, <3>2, <4>4
    <3> QED
      BY <3>1, <3>2
  <2>4. over'[b] = 0
    BY <1>4, <2>1 DEF OverOK
  <2>5. Cardinality(Nearing(req', b)) < Cardinality(Request)
    <3>1. Nearing(req', b) \subseteq Request /\ r \notin Nearing(req', b)
      BY <1>1 DEF Nearing
    <3>2. IsFiniteSet(Request) /\ Nearing(req', b) # Request
      BY <3>1, GatewayAssumption
    <3>3. Cardinality(Nearing(req', b)) # Cardinality(Request)
      BY <3>1, <3>2, FS_Subset
    <3> QED
      BY <3>3, NearingType
  <2>6. Cardinality(Nearing(req', b)) \in Nat
    BY NearingType
  <2> QED
    BY <2>3, <2>4, <2>5, <2>6 DEF OverOK
<1>5. ASSUME b \in Limited, AccountLimit > 0, ~(hits[b] < AccountLimit),
             over' = [over EXCEPT ![b] = @ + 1], hits' = hits
      PROVE  OverOK'
  <2>1. b \in Barred /\ b \in Account /\ Barred' = Barred
    BY <1>2, <1>5 DEF Barred
  <2>2. over'[b] = over[b] + 1 /\ \A a \in Account \ {b} : over'[a] = over[a]
    BY <1>2, <1>5, <2>1
  <2>3. ASSUME NEW a \in Account
        PROVE  IF a \in Barred THEN over'[a] + Cardinality(Nearing(req', a)) < Cardinality(Request)
               ELSE over'[a] = 0
    <3>1. CASE a \notin Barred
      BY <2>1, <2>2, <3>1 DEF OverOK
    <3>2. CASE a \in Barred
      <4>1. over[a] + Cardinality(Nearing(req, a)) < Cardinality(Request) /\ over[a] \in Nat
        BY <1>2, <3>2 DEF OverOK
      <4>2. /\ Cardinality(Nearing(req', a)) \in Nat /\ Cardinality(Nearing(req, a)) \in Nat
            /\ Cardinality(Request) \in Nat
            /\ Cardinality(Nearing(req', a)) <= Cardinality(Nearing(req, a))
        BY <1>1, NearingType, FS_Subset
      <4>3. a = b => Cardinality(Nearing(req', a)) < Cardinality(Nearing(req, a))
        <5> SUFFICES ASSUME a = b PROVE Cardinality(Nearing(req', b)) # Cardinality(Nearing(req, b))
          BY <4>2
        <5>1. Nearing(req', b) \subseteq Nearing(req, b) /\ Nearing(req', b) # Nearing(req, b)
          BY <1>1
        <5> QED
          BY <5>1, NearingType, FS_Subset
      <4>4. over'[a] + Cardinality(Nearing(req', a)) < Cardinality(Request)
        BY <2>2, <4>1, <4>2, <4>3
      <4> QED
        BY <3>2, <4>4
    <3> QED
      BY <3>1, <3>2
  <2> QED
    BY <2>1, <2>3 DEF OverOK
<1> QED
  BY <1>3, <1>4, <1>5 DEF RecordHit, b

(* A hit that grows old makes room. *)
LEMMA HitExpiresBounded ==
  ASSUME DataOK, OverOK, NEW b \in Account, HitExpires(b)
  PROVE  OverOK'
<1>1. /\ hits \in [Account -> 0..AccountLimit] /\ over \in [Account -> Nat]
      /\ AccountLimit \in Nat /\ Limited \subseteq Account
  BY GatewayAssumption DEF DataOK
<1>2. hits[b] > 0 /\ hits' = [hits EXCEPT ![b] = @ - 1] /\ over' = [over EXCEPT ![b] = 0]
      /\ req' = req
  BY DEF HitExpires
<1>3. b \notin Barred' /\ over'[b] = 0
  BY <1>1, <1>2 DEF Barred
<1>4. ASSUME NEW a \in Account \ {b}
      PROVE  (a \in Barred' <=> a \in Barred) /\ over'[a] = over[a]
  BY <1>1, <1>2 DEF Barred
<1>5. \A a : Nearing(req', a) = Nearing(req, a)
  BY <1>2
<1> QED
  BY <1>3, <1>4, <1>5 DEF OverOK

(* Whatever the gateway does, the bound holds on. *)
LEMMA NextWithinLimits ==
  ASSUME DataOK, RequestsInOrder, OverOK, [Next]_vars
  PROVE  OverOK'
<1>1. CASE UNCHANGED <<hits, over, req>>
  BY <1>1, NobodyJoins
<1>2. ASSUME NEW r \in Request, NEW k \in Key, NEW m \in Model, Arrive(r, k, m)
      PROVE  OverOK'
  <2>1. req'[r].pc = "limit" /\ \A s \in Request \ {r} : req'[s] = req[s]
    BY <1>2 DEF Arrive, RequestsInOrder, NoRequest
  <2>2. hits' = hits /\ over' = over
    BY <1>2 DEF Arrive, dataVars
  <2>3. \A a : Nearing(req', a) \subseteq Nearing(req, a)
    BY <2>1 DEF Nearing
  <2> QED
    BY <2>2, <2>3, NobodyJoins
<1>3. ASSUME NEW r \in Request, Proceed(r)
      PROVE  OverOK'
  <2>1. CASE RecordHit(r)
    BY <2>1, RecordHitBounded
  <2>2. CASE ~RecordHit(r)
    <3>1. hits' = hits /\ over' = over
      BY <1>3, <2>2 DEF Proceed, PassKeyLimit, Assign, Refresh, Order, Send, Answer, Report,
                        Switch, Record, dataVars
    <3> QED
      BY <1>3, <3>1, OnlyPicksJoin, NobodyJoins
  <2> QED
    BY <2>1, <2>2
<1>4. CASE \E a \in Account : HitExpires(a)
  BY <1>4, HitExpiresBounded
<1>5. CASE \/ \E a \in Account : MoneyMoves(a) \/ RemoveAccount(a)
           \/ \E p \in Provider : CooldownEnds(p)
           \/ \E k \in Key : RemoveKey(k) \/ \E a \in Account : MoveKey(k, a)
  BY <1>1, <1>5 DEF MoneyMoves, RemoveAccount, CooldownEnds, RemoveKey, MoveKey
<1>6. CASE UNCHANGED vars
  BY <1>1, <1>6 DEF vars
<1> QED
  BY <1>2, <1>3, <1>4, <1>5, <1>6 DEF Next

----------------------------------------------------------------------------
(* How long a request can go on *)

\* A bound on the steps the attempts on one account can take, and one on those
\* that the choice of an account and the attempts on it can take.
AttemptSteps == 4 * MaxRetries + 8
RoundSteps == AttemptSteps + 4 * MaxAccountAttempts + 5

\* What is left of the round a request is in: four stages for every refresh it
\* may still try, then four for every attempt left.
LeftOfRound(q) ==
  CASE q.pc = "limit"   -> AttemptSteps + 4 * MaxAccountAttempts + 4
    [] q.pc = "assign"  -> AttemptSteps + 4 * (MaxAccountAttempts - q.tries) + 3
    [] q.pc = "refresh" -> AttemptSteps + 4 * (MaxAccountAttempts - q.tries) + 2
    [] q.pc = "hit"     -> AttemptSteps + 4 * (MaxAccountAttempts - q.tries) + 1
    [] q.pc = "order"   -> AttemptSteps + 4 * (MaxAccountAttempts - q.tries)
    [] q.pc = "send"    -> 4 * q.left
    [] q.pc = "sent"    -> 4 * q.left + 3
    [] q.pc = "report"  -> 4 * q.left + 2
    [] q.pc = "short"   -> 4 * q.left + 1

\* The steps a request has left at most, with a round for every switch left.
StepsLeft(q) ==
  CASE q.pc = "idle" -> 0
    [] q.pc = "record" -> 1
    [] OTHER -> 2 + LeftOfRound(q) + (MaxAccountAttempts - q.switches) * RoundSteps

MostSteps == 2 + (MaxAccountAttempts + 1) * RoundSteps

\* A request under way is only moved by its own steps, and each of them leaves
\* it fewer to take.
RequestsProgress ==
  [][\A r \in Request :
       req[r].pc # "idle" =>
         IF Proceed(r) THEN StepsLeft(req'[r]) < StepsLeft(req[r]) ELSE req'[r] = req[r]]_vars

(* A round takes a natural number of steps, below RoundSteps; the attempts of
   a round come after the choice of its account. *)
LEMMA RoundType ==
  ASSUME NEW q \in RequestType, q.pc \notin {"idle", "record"}
  PROVE  LeftOfRound(q) \in Nat /\ LeftOfRound(q) < RoundSteps /\ RoundSteps \in Nat
<1>1. /\ MaxRetries \in Nat /\ MaxAccountAttempts \in Nat
      /\ q.tries \in 0..MaxAccountAttempts /\ q.left \in 0..MaxRetries + 1
      /\ q.pc \in Stages
  BY GatewayAssumption DEF RequestType
<1>2. /\ AttemptSteps \in Nat /\ RoundSteps \in Nat
      /\ RoundSteps = AttemptSteps + 4 * MaxAccountAttempts + 5
      /\ 4 * q.left + 3 < AttemptSteps
  BY <1>1 DEF RoundSteps, AttemptSteps
<1>3. PICK t \in 0..MaxAccountAttempts : t = MaxAccountAttempts - q.tries
  BY <1>1
<1>4. CASE q.pc \in {"limit", "assign", "refresh", "hit", "order"}
  BY <1>1, <1>2, <1>3, <1>4 DEF LeftOfRound
<1>5. CASE q.pc \in {"send", "sent", "report", "short"}
  BY <1>1, <1>2, <1>5 DEF LeftOfRound
<1> QED
  BY <1>1, <1>2, <1>4, <1>5 DEF Stages

(* One switch fewer is one round fewer. *)
LEMMA RoundsAdd ==
  ASSUME NEW m \in Nat, NEW t \in Nat
  PROVE  m * t \in Nat /\ (m + 1) * t = m * t + t
OBVIOUS

(* Every step of a request leaves it fewer to take. *)
LEMMA GoesOn ==
  ASSUME NEW q \in RequestType, NEW n \in RequestType, Goes(q, n)
  PROVE  StepsLeft(n) < StepsLeft(q)
<1> DEFINE before == (MaxAccountAttempts - q.switches) * RoundSteps
<1> DEFINE after == (MaxAccountAttempts - n.switches) * RoundSteps
<1>1. /\ MaxRetries \in Nat /\ MaxAccountAttempts \in Nat
      /\ q.tries \in 0..MaxAccountAttempts /\ q.left \in 0..MaxRetries + 1
      /\ n.tries \in 0..MaxAccountAttempts /\ n.left \in 0..MaxRetries + 1
      /\ q.switches \in 0..MaxAccountAttempts /\ n.switches \in 0..MaxAccountAttempts
  BY GatewayAssumption DEF RequestType
<1>2. RoundSteps \in Nat
  BY <1>1 DEF RoundSteps, AttemptSteps
<1>3. before \in Nat /\ after \in Nat
  BY <1>1, <1>2, RoundsAdd
<1>4. CASE q.pc # "idle" /\ n.pc = "idle"
  <2>1. q.pc # "record" => LeftOfRound(q) \in Nat
    BY <1>2, <1>4, RoundType
  <2> QED
    BY <1>3, <1>4, <2>1 DEF StepsLeft
<1>5. CASE q.pc \notin {"idle", "record"} /\ n.pc = "record"
  <2>1. LeftOfRound(q) \in Nat
    BY <1>2, <1>5, RoundType
  <2> QED
    BY <1>3, <1>5, <2>1 DEF StepsLeft
<1>6. CASE q.pc = "short" /\ n.pc = "assign" /\ n.switches = q.switches + 1 /\ n.tries = 0
  <2>1. LeftOfRound(q) \in Nat /\ LeftOfRound(n) \in Nat /\ LeftOfRound(n) < RoundSteps
    BY <1>2, <1>6, RoundType
  <2>2. before = after + RoundSteps
    <3>1. MaxAccountAttempts - n.switches \in Nat
          /\ MaxAccountAttempts - q.switches = (MaxAccountAttempts - n.switches) + 1
      BY <1>1, <1>6
    <3> QED
      BY <1>2, <3>1, RoundsAdd
  <2> HIDE DEF before, after
  <2>3. 2 + LeftOfRound(n) + after < 2 + LeftOfRound(q) + before
    BY <1>2, <1>3, <2>1, <2>2
  <2> QED
    BY <1>6, <2>3 DEF StepsLeft, before, after
<1>7. ASSUME n.switches = q.switches, n.pc \notin {"idle", "record"}, q.pc \notin {"idle", "record"},
             LeftOfRound(n) < LeftOfRound(q)
      PROVE  StepsLeft(n) < StepsLeft(q)
  <2>1. LeftOfRound(n) \in Nat /\ LeftOfRound(q) \in Nat /\ before = after
    BY <1>2, <1>7, RoundType
  <2> HIDE DEF before, after
  <2>2. 2 + LeftOfRound(n) + after < 2 + LeftOfRound(q) + before
    BY <1>3, <1>7, <2>1
  <2> QED
    BY <1>7, <2>2 DEF StepsLeft, before, after
<1>8. CASE /\ n.switches = q.switches /\ n.tries = q.tries
           /\ \/ q.pc = "limit" /\ n.pc = "assign"
              \/ q.pc = "assign" /\ n.pc \in {"refresh", "hit"}
              \/ q.pc = "refresh" /\ n.pc = "hit"
              \/ q.pc = "hit" /\ n.pc = "order"
  <2>1. LeftOfRound(n) < LeftOfRound(q)
    BY <1>1, <1>8 DEF LeftOfRound, AttemptSteps
  <2> QED
    BY <1>7, <1>8, <2>1
<1>9. CASE n.switches = q.switches /\ q.pc = "refresh" /\ n.pc = "assign" /\ n.tries = q.tries + 1
  <2>1. LeftOfRound(n) < LeftOfRound(q)
    BY <1>1, <1>9 DEF LeftOfRound, AttemptSteps
  <2> QED
    BY <1>7, <1>9, <2>1
<1>10. CASE /\ n.switches = q.switches
            /\ q.pc \in {"assign", "refresh", "order"} /\ n.pc = "send"
  <2>1. LeftOfRound(n) < LeftOfRound(q)
    BY <1>1, <1>10 DEF LeftOfRound, AttemptSteps
  <2> QED
    BY <1>7, <1>10, <2>1
<1>11. CASE /\ n.switches = q.switches /\ n.left = q.left
            /\ \/ q.pc = "short" /\ n.pc = "send"
               \/ q.pc = "sent" /\ n.pc = "report"
               \/ q.pc = "report" /\ n.pc \in {"short", "send"}
  <2>1. LeftOfRound(n) < LeftOfRound(q)
    BY <1>1, <1>11 DEF LeftOfRound
  <2> QED
    BY <1>7, <1>11, <2>1
<1>12. CASE n.switches = q.switches /\ q.pc = "send" /\ n.pc = "sent" /\ n.left = q.left - 1
  <2>1. LeftOfRound(n) < LeftOfRound(q)
    BY <1>1, <1>12 DEF LeftOfRound
  <2> QED
    BY <1>7, <1>12, <2>1
<1> QED
  BY <1>4, <1>5, <1>6, <1>8, <1>9, <1>10, <1>11, <1>12 DEF Goes

(* Only its own steps, and the one by which it comes in, move a request. *)
LEMMA OnlyItsOwnSteps ==
  ASSUME DataOK, RequestsInOrder, [Next]_vars, NEW r \in Request, req[r].pc # "idle", ~Proceed(r)
  PROVE  req'[r] = req[r]
<1>1. CASE UNCHANGED req
  BY <1>1
<1>2. ASSUME NEW s \in Request, NEW k \in Key, NEW m \in Model, Arrive(s, k, m)
      PROVE  req'[r] = req[r]
  BY <1>2 DEF Arrive, RequestsInOrder
<1>3. ASSUME NEW s \in Request, Proceed(s)
      PROVE  req'[r] = req[r]
  <2>1. s # r /\ \E n : req' = [req EXCEPT ![s] = n]
    BY <1>3, ProceedGoes
  <2> QED
    BY <2>1 DEF RequestsInOrder
<1>4. CASE \/ \E a \in Account : MoneyMoves(a) \/ HitExpires(a) \/ RemoveAccount(a)
           \/ \E p \in Provider : CooldownEnds(p)
           \/ \E k \in Key : RemoveKey(k) \/ \E a \in Account : MoveKey(k, a)
  BY <1>1, <1>4 DEF MoneyMoves, HitExpires, RemoveAccount, CooldownEnds, RemoveKey, MoveKey
<1>5. CASE UNCHANGED vars
  BY <1>1, <1>5 DEF vars
<1> QED
  BY <1>2, <1>3, <1>4, <1>5 DEF Next

(* What a request has left is bounded from the start. *)
LEMMA StepsBounded ==
  ASSUME NEW q \in RequestType
  PROVE  StepsLeft(q) \in 0..MostSteps
<1>1. MaxAccountAttempts \in Nat /\ q.switches \in 0..MaxAccountAttempts /\ MaxRetries \in Nat
  BY GatewayAssumption DEF RequestType
<1>2. RoundSteps \in Nat
  BY <1>1 DEF RoundSteps, AttemptSteps
<1>3. PICK m \in 0..MaxAccountAttempts : m = MaxAccountAttempts - q.switches
  BY <1>1
<1>4. /\ m * RoundSteps \in Nat /\ MaxAccountAttempts * RoundSteps \in Nat
      /\ m * RoundSteps <= MaxAccountAttempts * RoundSteps
  BY <1>1, <1>2, <1>3, TimesGrows
<1>5. (MaxAccountAttempts + 1) * RoundSteps = MaxAccountAttempts * RoundSteps + RoundSteps
  BY <1>1, <1>2, RoundsAdd
<1>6. MostSteps \in Nat /\ MostSteps >= 2 + m * RoundSteps + RoundSteps
  BY <1>2, <1>4, <1>5 DEF MostSteps
<1>7. CASE q.pc \in {"idle", "record"}
  BY <1>2, <1>4, <1>6, <1>7 DEF StepsLeft
<1>8. CASE q.pc \notin {"idle", "record"}
  <2>1. LeftOfRound(q) \in Nat /\ LeftOfRound(q) < RoundSteps
    BY <1>2, <1>8, RoundType
  <2>2. StepsLeft(q) = 2 + LeftOfRound(q) + m * RoundSteps
    BY <1>3, <1>8 DEF StepsLeft
  <2> QED
    BY <1>2, <1>4, <1>6, <2>1, <2>2
<1> QED
  BY <1>7, <1>8

(* Whoever moves, a request under way comes closer to its end or stays where
   it is. *)
LEMMA NextProgresses ==
  ASSUME DataOK, RequestsInOrder, [Next]_vars, NEW r \in Request, req[r].pc # "idle"
  PROVE  IF Proceed(r) THEN StepsLeft(req'[r]) < StepsLeft(req[r]) ELSE req'[r] = req[r]
<1>1. CASE ~Proceed(r)
  BY <1>1, OnlyItsOwnSteps
<1>2. CASE Proceed(r)
  <2>1. PICK n : req' = [req EXCEPT ![r] = n] /\ Goes(req[r], n)
    BY <1>2, ProceedGoes
  <2>2. req'[r] = n /\ req[r] \in RequestType
    BY <2>1 DEF RequestsInOrder
  <2>3. n \in RequestType
    BY <2>2, NextInOrder DEF RequestsInOrder, DataOK
  <2>4. StepsLeft(n) < StepsLeft(req[r])
    BY <2>1, <2>2, <2>3, GoesOn
  <2> QED
    BY <1>2, <2>2, <2>4
<1> QED
  BY <1>1, <1>2

----------------------------------------------------------------------------
(* The theorems *)

\* The inductive invariant.  Every part of it is one property's; the bound on
\* the requests' records is what the others rest on.
IInv == DataOK /\ RequestsInOrder /\ InflightOK /\ QuotaOK /\ OverOK /\ GoneUnbound /\ LoadOK

(* A gateway that has just started is in order. *)
LEMMA InitIInv == Init => IInv
<1> SUFFICES ASSUME Init PROVE IInv
  OBVIOUS
<1>1. DataOK
  <2>1. load \in [Account -> Nat]
    BY RecountType DEF Init
  <2>2. 0 \in 0..AccountLimit
    BY GatewayAssumption
  <2> QED
    BY <2>1, <2>2 DEF Init, DataOK
<1>2. RequestsInOrder
  <2>1. NoRequest \in RequestType
    BY NoRequestInOrder DEF InOrder
  <2> QED
    BY <2>1, NoRequestInOrder DEF Init, RequestsInOrder
<1>3. /\ \A p : Answering(req, p) = {}
      /\ \A k : UnderWay(req, k) = {}
  BY DEF Init, Answering, UnderWay, NoRequest
<1>4. Cardinality({}) = 0 /\ Cardinality(Request) \in Nat /\ MaxTokens \in Nat /\ Quota \in Nat
  BY FS_EmptySet, FS_CardinalityType, GatewayAssumption
<1>5. InflightOK
  <2>1. 0 \in 0..Cardinality(Request)
    BY <1>4
  <2> QED
    BY <1>3, <1>4, <2>1 DEF Init, InflightOK
<1>6. QuotaOK
  <2> SUFFICES ASSUME Quota > 0, NEW k \in Key
               PROVE  spent[k] + Cardinality(UnderWay(req, k)) * MaxTokens
                        < Quota + Cardinality(Request) * MaxTokens
    BY DEF QuotaOK
  <2>1. Cardinality(Request) * MaxTokens \in Nat /\ 0 * MaxTokens = 0
    BY <1>4, TimesGrows
  <2>2. spent[k] = 0 /\ Cardinality(UnderWay(req, k)) * MaxTokens = 0
    BY <1>3, <1>4, <2>1 DEF Init
  <2> QED
    BY <1>4, <2>1, <2>2
<1>7. OverOK
  <2>1. ASSUME NEW a \in Account PROVE a \notin Barred
    <3>1. hits[a] = 0 /\ AccountLimit \in Nat
      BY GatewayAssumption DEF Init
    <3> QED
      BY <3>1 DEF Barred
  <2>2. \A a \in Account : over[a] = 0
    BY DEF Init
  <2> QED
    BY <2>1, <2>2 DEF OverOK
<1>8. GoneUnbound
  BY DEF Init, GoneUnbound
<1>9. LoadOK
  BY DEF Init, LoadOK, Counted, Bound
<1> QED
  BY <1>1, <1>2, <1>5, <1>6, <1>7, <1>8, <1>9 DEF IInv

(* Whatever the gateway does, it stays in order. *)
LEMMA NextIInv == IInv /\ [Next]_vars => IInv'
BY NextKeepsData, NextInOrder, NextCounts, NextWithinQuota, NextWithinLimits, NextKeepsUnbound,
   NextCountsLoad DEF IInv, DataOK

(* It always is. *)
LEMMA GatewayInvariant == Spec => []IInv
BY InitIInv, NextIInv, PTL DEF Spec

(* Every variable keeps its type, the request records with their bounds on
   attempts, switches and candidates among them. *)
THEOREM GatewayTypes == Spec => []TypeOK
<1>1. IInv => TypeOK
  BY DEF IInv, DataOK, RequestsInOrder, InflightOK, TypeOK, RequestType
<1> QED
  BY <1>1, GatewayInvariant, PTL

(* The in-flight counters are exact for any number of requests, whatever way
   their attempts end and whichever accounts go meanwhile. *)
THEOREM InflightAlwaysExact == Spec => []InflightExact
<1>1. IInv => InflightExact
  BY DEF IInv, InflightOK, InflightExact, Answering
<1> QED
  BY <1>1, GatewayInvariant, PTL

(* A request only ever tries upstreams of its own session, and never runs out
   of its candidates, however often it is moved to another account. *)
THEOREM AttemptsAlwaysWithinSession == Spec => []AttemptsWithinSession
<1>1. IInv => AttemptsWithinSession
  <2> SUFFICES ASSUME IInv, NEW r \in Request
               PROVE  /\ req[r].pc \in {"send", "sent", "report"} =>
                           req[r].cands \cup ({req[r].prov} \ {None}) \subseteq ProvidersOf(req[r].acc)
                      /\ req[r].pc = "send" => req[r].left \in 1..Cardinality(req[r].cands)
    BY DEF AttemptsWithinSession
  <2>1. InOrder(req[r]) /\ req[r].left \in Nat
    BY GatewayAssumption DEF IInv, RequestsInOrder, InOrder, RequestType
  <2>2. Cardinality(req[r].cands) \in Nat
    <3>1. req[r].cands \subseteq Provider
      BY <2>1 DEF InOrder, RequestType
    <3> QED
      BY <3>1, FS_Subset, FS_CardinalityType, GatewayAssumption
  <2>3. req[r].pc = "send" => req[r].left \in 1..Cardinality(req[r].cands)
    BY <2>1, <2>2 DEF InOrder
  <2> QED
    BY <2>1, <2>3 DEF InOrder
<1> QED
  BY <1>1, GatewayInvariant, PTL

(* A key overruns its quota by no more than the calls it can have under way
   cost, for any quota and any number of calls. *)
THEOREM QuotaOvershootAlwaysBounded == Spec => []QuotaOvershootBounded
<1>1. IInv => QuotaOvershootBounded
  <2> SUFFICES ASSUME IInv, NEW k \in Key, Quota > 0
               PROVE  spent[k] < Quota + Cardinality(Request) * MaxTokens
    BY DEF QuotaOvershootBounded
  <2>1. UnderWay(req, k) \in SUBSET Request
    BY DEF UnderWay
  <2>2. Cardinality(UnderWay(req, k)) * MaxTokens \in Nat /\ Cardinality(Request) * MaxTokens \in Nat
    BY <2>1, CostGrows
  <2>3. spent[k] + Cardinality(UnderWay(req, k)) * MaxTokens
          < Quota + Cardinality(Request) * MaxTokens
    BY DEF IInv, QuotaOK
  <2> QED
    BY <2>2, <2>3, GatewayAssumption DEF IInv, DataOK
<1> QED
  BY <1>1, GatewayInvariant, PTL

(* An account is never pushed further over its rate limit than by the other
   requests that can be under way, whatever the limit, the number of requests,
   and the account limits, refreshes and switches on their way. *)
THEOREM AccountLimitOvershootAlwaysBounded == Spec => []AccountLimitOvershootBounded
<1>1. IInv => AccountLimitOvershootBounded
  <2> SUFFICES ASSUME IInv, NEW a \in Account, over[a] > 0
               PROVE  over[a] < Cardinality(Request)
    BY DEF AccountLimitOvershootBounded
  <2>1. over[a] \in Nat /\ OverOK
    BY DEF IInv, DataOK
  <2>2. over[a] + Cardinality(Nearing(req, a)) < Cardinality(Request)
    BY <2>1 DEF OverOK
  <2> QED
    BY <2>1, <2>2, NearingType
<1> QED
  BY <1>1, GatewayInvariant, PTL

(* What a request may still do is bounded by the settings alone, and each of
   its steps uses some of it up: neither the attempts that a shortfall starts
   over (index = -1) nor the accounts chosen anew go on for ever, whatever
   other requests, upstreams and administrators do meanwhile. *)
THEOREM RequestsAlwaysProgress ==
  Spec => [](\A r \in Request : StepsLeft(req[r]) \in 0..MostSteps) /\ RequestsProgress
<1>1. IInv => \A r \in Request : StepsLeft(req[r]) \in 0..MostSteps
  BY StepsBounded DEF IInv, RequestsInOrder
<1>2. IInv /\ [Next]_vars =>
        [\A r \in Request :
           req[r].pc # "idle" =>
             IF Proceed(r) THEN StepsLeft(req'[r]) < StepsLeft(req[r]) ELSE req'[r] = req[r]]_vars
  BY NextProgresses DEF IInv
<1> QED
  BY <1>1, <1>2, GatewayInvariant, PTL DEF Spec, RequestsProgress

(* Requests, cooldowns, bookings and removals do to keys, bindings and the load
   index what the allocator's own operations do, and nothing besides. *)
THEOREM GatewayRefinesAllocator == Spec => AllocatorSteps
<1>1. IInv /\ [Next]_vars => [Alloc!Next]_(Alloc!vars)
  BY NextIsAllocation DEF IInv
<1> QED
  BY <1>1, GatewayInvariant, PTL DEF Spec, AllocatorSteps

(* The gateway keeps the allocator's own inductive invariant, the exact load
   index in it, from any data file it may start with: all that Allocation
   proves of a step from there is true of a gateway under load. *)
THEOREM GatewayKeepsAllocatorInOrder == Spec => [](Alloc!TypeOK /\ Alloc!LoadIndexExact)
<1>1. IInv => Alloc!TypeOK /\ Alloc!LoadIndexExact
  BY SeenInOrder DEF IInv
<1> QED
  BY <1>1, GatewayInvariant, PTL
=============================================================================
