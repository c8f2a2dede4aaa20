---------------------------- MODULE BalancerProofs ----------------------------
(***************************************************************************)
(* Theorems about Balancer, for any upstream APIs, calls and thresholds.   *)
(***************************************************************************)
EXTENDS Balancer, Integers, FiniteSetTheorems, TLAPS

----------------------------------------------------------------------------
(* Lists *)

\* A list without repetitions.
Distinct(list) == \A i, j \in DOMAIN list : i # j => list[i] # list[j]

Lists == {list \in Seq(Provider) : Distinct(list)}

(* An enumeration of a finite set is a list of all its elements, each once. *)
LEMMA Enumeration ==
  ASSUME NEW S, IsFiniteSet(S), NEW list \in SetToSeqs(S)
  PROVE  /\ Cardinality(S) \in Nat
         /\ list \in [1..Cardinality(S) -> S]
         /\ list \in Seq(S) /\ Len(list) = Cardinality(S)
         /\ Distinct(list)
         /\ ToSet(list) = S
<1> DEFINE D == 1..Cardinality(S)
<1>1. Cardinality(S) \in Nat
  BY FS_CardinalityType
<1>2. list \in [D -> S] /\ \A i, j \in D : i # j => list[i] # list[j]
  BY DEF SetToSeqs
<1>3. list \in Seq(S) /\ Len(list) = Cardinality(S) /\ DOMAIN list = D
  BY <1>1, <1>2
<1>4. Cardinality(D) = Cardinality(S)
  BY <1>1, FS_Interval
<1>5. list \in Injection(D, S)
  BY <1>2 DEF Injection, IsInjective
<1> HIDE DEF D
<1>6. list \in Surjection(D, S)
  BY <1>4, <1>5, FS_Injection
<1>7. \A p \in S : \E i \in D : list[i] = p
  BY <1>6 DEF Surjection
<1>8. ToSet(list) = S
  BY <1>2, <1>3, <1>7 DEF ToSet
<1> QED
  BY <1>1, <1>2, <1>3, <1>8 DEF Distinct, D

(* The rest of a list has neither its head nor any repetition. *)
LEMMA RestOfList ==
  ASSUME NEW S, NEW list \in Seq(S), Distinct(list), list # <<>>
  PROVE  /\ Head(list) \in S
         /\ Tail(list) \in Seq(S) /\ Distinct(Tail(list))
         /\ ToSet(Tail(list)) = ToSet(list) \ {Head(list)}
<1>1. /\ Len(list) \in Nat \ {0} /\ DOMAIN list = 1..Len(list)
      /\ Head(list) = list[1] /\ \A i \in 1..Len(list) : list[i] \in S
      /\ Tail(list) \in Seq(S) /\ DOMAIN Tail(list) = 1..(Len(list) - 1)
      /\ \A i \in 1..(Len(list) - 1) : Tail(list)[i] = list[i + 1]
  OBVIOUS
<1>2. Distinct(Tail(list))
  BY <1>1 DEF Distinct
<1>3. ASSUME NEW p PROVE p \in ToSet(Tail(list)) <=> p \in ToSet(list) /\ p # Head(list)
  <2>1. p \in ToSet(Tail(list)) => p \in ToSet(list) /\ p # Head(list)
    BY <1>1 DEF Distinct, ToSet
  <2>2. ASSUME NEW i \in 1..Len(list), p = list[i], p # Head(list)
        PROVE  p \in ToSet(Tail(list))
    <3>1. (i - 1) \in 1..(Len(list) - 1) /\ Tail(list)[i - 1] = p
      BY <1>1, <2>2
    <3> QED
      BY <1>1, <3>1 DEF ToSet
  <2> QED
    BY <1>1, <2>1, <2>2 DEF ToSet
<1> QED
  BY <1>1, <1>2, <1>3

----------------------------------------------------------------------------
(* Cooldowns *)

\* What may be in a pool.
Suitable == {p \in Provider : config[p].enabled /\ Supports(p)}

Filtered == [at : {"filtered"}, pool : (SUBSET Suitable) \ {{}}]
Ordered == [at : {"ordered"}, list : Lists \ {<<>>}]
             \cup [at : {"ordered"}, by : Strategies, list : Lists \ {<<>>}]
Attempt == [at : {"sent", "returned"}, provider : Provider, left : Lists]

\* A call that tries an upstream API has no second try of it ahead.
CallOK(x) ==
  \/ x = Idle
  \/ x \in Filtered
  \/ x \in Ordered
  \/ x \in Attempt /\ x.provider \notin ToSet(x.left)

\* Every reachable state is typed like this.
CallsOK ==
  /\ config \in Configs
  /\ inflight \in [Provider -> Int]
  /\ failures \in [Provider -> Nat] /\ cooling \in [Provider -> Nat] /\ tries \in [Provider -> Nat]
  /\ DOMAIN call = Call /\ \A c \in Call : CallOK(call[c])

\* A call that may still try p.
Holds(x, p) ==
  \/ x.at = "filtered" /\ p \in x.pool
  \/ x.at = "ordered" /\ p \in ToSet(x.list)
  \/ x.at \in {"sent", "returned"} /\ p \in ToSet(x.left)

Holders(p) == {c \in Call : Holds(call[c], p)}

\* While p cools down, its tries and the calls that may still try it are others
\* than the call whose failure began the cooldown.
Counted(p) ==
  /\ cooling[p] = 0 => tries[p] = 0
  /\ cooling[p] > 0 => tries[p] + Cardinality(Holders(p)) <= Cardinality(Call) - 1

\* The inductive invariant.
CooldownInv == CallsOK /\ \A p \in Provider : Counted(p)

(* Every list of a sort holds each member of its pool once. *)
LEMMA SortedPool ==
  ASSUME CallsOK, NEW pool \in SUBSET Provider, NEW strategy,
         NEW list \in Order(pool, strategy), NEW preferred \in PreferDeclaredModel(list)
  PROVE  /\ IsFiniteSet(pool)
         /\ list \in SetToSeqs(pool) /\ preferred \in SetToSeqs(pool)
         /\ preferred \in Lists /\ ToSet(preferred) = pool
         /\ preferred = <<>> => pool = {}
<1>1. Provider = 1..Len(config) /\ Len(config) \in Nat
  BY BalancerAssumption DEF CallsOK, Provider
<1>2. IsFiniteSet(pool)
  <2>1. IsFiniteSet(1..Len(config)) /\ pool \in SUBSET (1..Len(config))
    BY <1>1, FS_Interval
  <2> QED
    BY <2>1, FS_Subset
<1>3. list \in SetToSeqs(pool)
  BY DEF Order
<1>4. ToSet(list) = pool
  BY <1>2, <1>3, Enumeration
<1>5. preferred \in SetToSeqs(pool)
  BY <1>4 DEF PreferDeclaredModel
<1>6. preferred \in Seq(pool) /\ Distinct(preferred) /\ ToSet(preferred) = pool
  BY <1>2, <1>5, Enumeration
<1> QED
  BY <1>2, <1>3, <1>5, <1>6 DEF Lists, ToSet

(* What a call is about to do tells what it knows. *)
LEMMA CallKinds ==
  ASSUME NEW x, CallOK(x)
  PROVE  /\ x.at = "filtered" => x \in Filtered
         /\ x.at = "ordered" => x \in Ordered
         /\ x.at \in {"sent", "returned"} => x \in Attempt /\ x.provider \notin ToSet(x.left)
         /\ x.at = "idle" => x = Idle
<1>1. x \in Filtered => x.at = "filtered"
  BY DEF Filtered
<1>2. x \in Ordered => x.at = "ordered"
  BY DEF Ordered
<1>3. x \in Attempt => x.at \in {"sent", "returned"}
  BY DEF Attempt
<1>4. x = Idle => x.at = "idle"
  BY DEF Idle
<1> QED
  BY <1>1, <1>2, <1>3, <1>4 DEF CallOK

(* There are finitely many calls, and a holder less or more is one. *)
LEMMA HoldersCount ==
  ASSUME NEW T \in SUBSET Call
  PROVE  /\ IsFiniteSet(T) /\ Cardinality(T) \in Nat /\ Cardinality(Call) \in Nat
         /\ Cardinality(T) <= Cardinality(Call)
         /\ \A c : Cardinality(T \ {c}) <= Cardinality(T)
         /\ \A c \in T : Cardinality(T \ {c}) = Cardinality(T) - 1
         /\ \A c \in Call \ T : Cardinality(T) <= Cardinality(Call) - 1
<1>1. IsFiniteSet(Call)
  BY BalancerAssumption
<1>2. IsFiniteSet(T) /\ Cardinality(T) <= Cardinality(Call)
  BY <1>1, FS_Subset
<1>3. /\ \A c \in T : Cardinality(T \ {c}) = Cardinality(T) - 1
      /\ \A c : Cardinality(T \ {c}) <= Cardinality(T)
  <2>1. Cardinality(T) \in Nat
    BY <1>2, FS_CardinalityType
  <2>2. \A c : Cardinality(T \ {c}) = IF c \in T THEN Cardinality(T) - 1 ELSE Cardinality(T)
    BY <1>2, FS_RemoveElement
  <2> QED
    BY <2>1, <2>2
<1>4. ASSUME NEW c \in Call \ T
      PROVE  Cardinality(T) <= Cardinality(Call) - 1
  <2>1. Cardinality(Call \ {c}) = Cardinality(Call) - 1 /\ IsFiniteSet(Call \ {c})
    BY <1>1, FS_RemoveElement
  <2>2. T \in SUBSET (Call \ {c})
    BY <1>4
  <2>3. Cardinality(T) <= Cardinality(Call \ {c})
    BY <2>1, <2>2, FS_Subset
  <2> QED
    BY <2>1, <2>3
<1> QED
  BY <1>1, <1>2, <1>3, <1>4, FS_CardinalityType

(* A call that goes on and may try no more than before. *)
LEMMA OneGoesOn ==
  ASSUME CallsOK, NEW c \in Call, NEW x, call' = [call EXCEPT ![c] = x], config' = config,
         NEW p \in Provider
  PROVE  /\ Holders(p)' \in SUBSET Call
         /\ Holds(x, p) => Holders(p)' = Holders(p) \cup {c}
         /\ ~Holds(x, p) => Holders(p)' = Holders(p) \ {c}
<1>1. \A q \in Call : call'[q] = IF q = c THEN x ELSE call[q]
  BY DEF CallsOK
<1>2. \A q \in Call : q \in Holders(p)' <=> Holds(call'[q], p)
  BY DEF Holders, Holds
<1>3. \A q \in Call : q \in Holders(p) <=> Holds(call[q], p)
  BY DEF Holders
<1>4. Holders(p)' \in SUBSET Call /\ Holders(p) \in SUBSET Call
  BY DEF Holders
<1> HIDE DEF Holds, Holders
<1> QED
  BY <1>1, <1>2, <1>3, <1>4

(* The other calls are as they were. *)
LEMMA OthersStay ==
  ASSUME CallsOK, NEW c \in Call, NEW x, call' = [call EXCEPT ![c] = x], config' = config,
         CallOK(x)
  PROVE  /\ config' \in Configs /\ Provider' = Provider
         /\ DOMAIN call' = Call /\ \A q \in Call : CallOK(call[q])'
<1>1. Provider' = Provider
  BY DEF Provider
<1>2. ASSUME NEW y, CallOK(y)
      PROVE  CallOK(y)'
  BY <1>1, <1>2 DEF CallOK, Filtered, Ordered, Attempt, Lists, Suitable, Supports
<1>3. DOMAIN call' = Call /\ \A q \in Call : call'[q] = IF q = c THEN x ELSE call[q]
  BY DEF CallsOK
<1>4. ASSUME NEW q \in Call
      PROVE  CallOK(call[q])'
  <2>1. CallOK(call'[q])
    BY <1>3 DEF CallsOK
  <2>2. ASSUME NEW y, y = call'[q], CallOK(y)
        PROVE  CallOK(call[q])'
    BY <2>2, <1>1 DEF CallOK, Filtered, Ordered, Attempt, Lists, Suitable, Supports
  <2> QED
    BY <2>1, <2>2
<1> QED
  BY <1>1, <1>3, <1>4 DEF CallsOK

(* A call that may try no more than before leaves the counts in order. *)
LEMMA StillCounted ==
  ASSUME CooldownInv, NEW c \in Call, NEW x, call' = [call EXCEPT ![c] = x], config' = config,
         NEW p \in Provider, Holds(x, p) => cooling[p] = 0 \/ Holds(call[c], p),
         cooling'[p] = cooling[p], tries'[p] = tries[p]
  PROVE  Counted(p)'
<1>1. CASE cooling[p] > 0
  <2>1. Holders(p) \in SUBSET Call /\ (Holds(x, p) => c \in Holders(p)) /\ CallsOK
    BY <1>1 DEF Holders, CooldownInv, CallsOK
  <2>2. Cardinality(Holders(p)') <= Cardinality(Holders(p)) /\ Holders(p)' \in SUBSET Call
    <3>1. Holders(p)' = Holders(p) \/ Holders(p)' = Holders(p) \ {c}
      <4>1. CASE Holds(x, p)
        <5>1. Holders(p)' = Holders(p) \cup {c}
          BY <2>1, <4>1, OneGoesOn
        <5>2. CASE c \in Holders(p)
          BY <5>1, <5>2
        <5> QED
          BY <1>1, <2>1, <4>1, <5>2
      <4>2. CASE ~Holds(x, p)
        BY <2>1, <4>2, OneGoesOn
      <4> QED
        BY <4>1, <4>2
    <3>2. Cardinality(Holders(p)) <= Cardinality(Holders(p))
      BY <2>1, HoldersCount
    <3> QED
      BY <2>1, <3>1, <3>2, HoldersCount
  <2>3. /\ tries[p] \in Nat /\ Cardinality(Holders(p)) \in Nat /\ Cardinality(Holders(p)') \in Nat
        /\ Cardinality(Call) \in Nat
    BY <2>1, <2>2, HoldersCount DEF CallsOK
  <2> QED
    BY <1>1, <2>2, <2>3 DEF CooldownInv, Counted
<1>2. CASE cooling[p] = 0
  BY <1>2 DEF CooldownInv, CallsOK, Counted
<1> QED
  BY <1>1, <1>2 DEF CooldownInv, CallsOK

(* The actions, one by one: a pool has nothing in it that cools down. *)
LEMMA FilterCounts ==
  ASSUME CooldownInv, NEW c \in Call, Filter(c)
  PROVE  CooldownInv'
<1> DEFINE x == [at |-> "filtered", pool |-> Candidates]
<1>1. /\ call' = [call EXCEPT ![c] = x] /\ Candidates # {} /\ config' = config
      /\ UNCHANGED <<inflight, failures, cooling, tries>>
  BY DEF Filter, health
<1>2. Candidates \in SUBSET Suitable
  BY DEF Candidates, Suitable
<1>3. CallOK(x)
  <2>1. x \in Filtered
    BY <1>1, <1>2 DEF Filtered
  <2> QED
    BY <2>1 DEF CallOK
<1>4. \A p \in Provider : Holds(x, p) => cooling[p] = 0
  BY DEF Holds, Candidates
<1> HIDE DEF x
<1>5. CallsOK'
  BY <1>1, <1>3, OthersStay DEF CooldownInv, CallsOK
<1>6. ASSUME NEW p \in Provider
      PROVE  Counted(p)'
  BY <1>1, <1>4, StillCounted
<1> QED
  BY <1>1, <1>5, <1>6 DEF CooldownInv, Provider

(* A list holds what was in the pool. *)
LEMMA SortCounts ==
  ASSUME CooldownInv, NEW c \in Call, Sort(c)
  PROVE  CooldownInv'
<1> DEFINE pool == call[c].pool
<1>1. PICK strategy, list, preferred :
        /\ list \in Order(pool, strategy) /\ preferred \in PreferDeclaredModel(list)
        /\ strategy \in Strategies
        /\ call' = [call EXCEPT ![c] = [at |-> "ordered", by |-> strategy, list |-> preferred]]
  BY DEF Sort
<1>2. call[c].at = "filtered" /\ UNCHANGED <<config, inflight, failures, cooling, tries>>
  BY DEF Sort, health
<1>3. CallsOK /\ call[c] \in Filtered
  BY <1>2, CallKinds DEF CooldownInv, CallsOK
<1>4. pool \in SUBSET Provider /\ pool # {}
  BY <1>3 DEF Filtered, Suitable
<1>5. preferred \in Lists /\ preferred # <<>> /\ ToSet(preferred) = pool
  BY <1>1, <1>3, <1>4, SortedPool
<1> DEFINE x == [at |-> "ordered", by |-> strategy, list |-> preferred]
<1>6. CallOK(x)
  <2>1. x \in Ordered
    BY <1>1, <1>5 DEF Ordered
  <2> QED
    BY <2>1 DEF CallOK
<1>7. \A p \in Provider : Holds(x, p) => Holds(call[c], p)
  BY <1>2, <1>5 DEF Holds
<1> HIDE DEF x
<1>8. CallsOK'
  BY <1>1, <1>2, <1>3, <1>6, OthersStay DEF CallsOK, x
<1>9. ASSUME NEW p \in Provider
      PROVE  Counted(p)'
  BY <1>1, <1>2, <1>7, StillCounted DEF x
<1> QED
  BY <1>2, <1>8, <1>9 DEF CooldownInv, Provider

(* A call that tries an upstream API gives up its claim to it. *)
LEMMA SendCounts ==
  ASSUME CooldownInv, NEW c \in Call, Send(c)
  PROVE  CooldownInv'
<1>0. PICK list, p, x :
        /\ list = call[c].list /\ p = Head(list)
        /\ x = [at |-> "sent", provider |-> p, left |-> Tail(list)]
  OBVIOUS
<1>1. /\ call[c].at = "ordered" /\ call' = [call EXCEPT ![c] = x]
      /\ inflight' = [inflight EXCEPT ![p] = @ + 1]
      /\ tries' = IF cooling[p] > 0 THEN [tries EXCEPT ![p] = @ + 1] ELSE tries
      /\ UNCHANGED <<config, failures, cooling>>
  BY <1>0 DEF Send
<1>2. CallsOK /\ call[c] \in Ordered
  BY <1>1, CallKinds DEF CooldownInv, CallsOK
<1>3. list \in Seq(Provider) /\ Distinct(list) /\ list # <<>>
  BY <1>0, <1>2 DEF Ordered, Lists
<1>4. /\ p \in Provider /\ Tail(list) \in Lists
      /\ ToSet(Tail(list)) = ToSet(list) \ {p}
  BY <1>0, <1>3, RestOfList DEF Lists
<1>5. p \in ToSet(list)
  BY <1>0, <1>3 DEF ToSet
<1>6. CallOK(x)
  <2>1. x \in Attempt /\ x.provider \notin ToSet(x.left)
    BY <1>0, <1>4 DEF Attempt
  <2> QED
    BY <2>1 DEF CallOK
<1>7. /\ \A q \in Provider \ {p} : Holds(x, q) => Holds(call[c], q)
      /\ ~Holds(x, p) /\ Holds(call[c], p)
  BY <1>0, <1>1, <1>4, <1>5 DEF Holds
<1>8. CallsOK'
  <2>1. inflight' \in [Provider -> Int] /\ tries' \in [Provider -> Nat]
    BY <1>1, <1>2, <1>4 DEF CallsOK
  <2> QED
    BY <1>1, <1>2, <1>6, <2>1, OthersStay DEF CallsOK
<1>9. ASSUME NEW q \in Provider, q # p
      PROVE  Counted(q)'
  <2>1. tries'[q] = tries[q]
    BY <1>1, <1>2, <1>9 DEF CallsOK
  <2> QED
    BY <1>1, <1>7, <1>9, <2>1, StillCounted
<1>10. Counted(p)'
  <2>1. CASE cooling[p] > 0
    <3>0. Holders(p) \in SUBSET Call /\ c \in Holders(p)
      BY <1>7 DEF Holders
    <3>1. Holders(p)' = Holders(p) \ {c}
      BY <1>1, <1>2, <1>4, <1>7, OneGoesOn
    <3>2. /\ Cardinality(Holders(p)') = Cardinality(Holders(p)) - 1
          /\ Cardinality(Holders(p)) \in Nat /\ Cardinality(Call) \in Nat
      BY <3>0, <3>1, HoldersCount
    <3>3. tries[p] \in Nat /\ tries'[p] = tries[p] + 1 /\ cooling'[p] = cooling[p]
      BY <1>1, <1>2, <1>4, <2>1 DEF CallsOK
    <3>4. tries[p] + Cardinality(Holders(p)) <= Cardinality(Call) - 1
      BY <1>4, <2>1 DEF CooldownInv, Counted
    <3> QED
      BY <2>1, <3>2, <3>3, <3>4 DEF Counted
  <2>2. CASE ~(cooling[p] > 0)
    BY <1>1, <1>4, <1>7, <2>2, StillCounted
  <2> QED
    BY <2>1, <2>2
<1> QED
  BY <1>1, <1>8, <1>9, <1>10 DEF CooldownInv, Provider

(* Counting out changes no claim. *)
LEMMA ReturnCounts ==
  ASSUME CooldownInv, NEW c \in Call, Return(c)
  PROVE  CooldownInv'
<1>1. /\ call[c].at = "returned" \/ call[c].at = "sent"
      /\ call' = [call EXCEPT ![c] = [call[c] EXCEPT !.at = "returned"]]
      /\ inflight' = [inflight EXCEPT ![call[c].provider] = @ - 1]
      /\ UNCHANGED <<config, failures, cooling, tries>>
  BY DEF Return
<1>2. CallsOK /\ call[c] \in Attempt /\ call[c].provider \notin ToSet(call[c].left)
  BY <1>1, CallKinds DEF CooldownInv, CallsOK
<1>3. PICK x : x = [call[c] EXCEPT !.at = "returned"]
  OBVIOUS
<1>4. /\ x \in Attempt /\ x.left = call[c].left /\ x.provider = call[c].provider
      /\ x.at = "returned"
  BY <1>2, <1>3 DEF Attempt
<1>5. CallOK(x)
  BY <1>2, <1>4 DEF CallOK
<1>6. \A p \in Provider : Holds(x, p) => Holds(call[c], p)
  BY <1>1, <1>4 DEF Holds
<1>7. inflight' \in [Provider -> Int]
  BY <1>1, <1>2 DEF CallsOK, Attempt
<1>8. CallsOK'
  BY <1>1, <1>2, <1>3, <1>5, <1>7, OthersStay DEF CallsOK
<1>9. ASSUME NEW p \in Provider
      PROVE  Counted(p)'
  BY <1>1, <1>3, <1>6, StillCounted
<1> QED
  BY <1>1, <1>8, <1>9 DEF CooldownInv, Provider

(* A success ends the cooldown and its count. *)
LEMMA SuccessCounts ==
  ASSUME CooldownInv, NEW c \in Call, ReportSuccess(c)
  PROVE  CooldownInv'
<1>0. PICK p : p = call[c].provider
  OBVIOUS
<1>1. /\ call[c].at = "returned"
      /\ failures' = [failures EXCEPT ![p] = 0]
      /\ cooling' = [cooling EXCEPT ![p] = 0]
      /\ tries' = [tries EXCEPT ![p] = 0]
      /\ call' = [call EXCEPT ![c] = Idle]
      /\ UNCHANGED <<config, inflight>>
  BY <1>0 DEF ReportSuccess
<1>2. CallsOK /\ p \in Provider
  BY <1>0, <1>1, CallKinds DEF CooldownInv, CallsOK, Attempt
<1>3. CallOK(Idle) /\ \A q \in Provider : ~Holds(Idle, q)
  BY DEF CallOK, Holds, Idle
<1>4. /\ failures' \in [Provider -> Nat] /\ cooling' \in [Provider -> Nat]
      /\ tries' \in [Provider -> Nat] /\ cooling'[p] = 0 /\ tries'[p] = 0
      /\ \A q \in Provider \ {p} : cooling'[q] = cooling[q] /\ tries'[q] = tries[q]
  BY <1>1, <1>2 DEF CallsOK
<1>5. CallsOK'
  BY <1>1, <1>2, <1>3, <1>4, OthersStay DEF CallsOK
<1>6. ASSUME NEW q \in Provider, q # p
      PROVE  Counted(q)'
  BY <1>1, <1>3, <1>4, <1>6, StillCounted
<1>7. Counted(p)'
  BY <1>4 DEF Counted
<1> QED
  BY <1>1, <1>5, <1>6, <1>7 DEF CooldownInv, Provider

(* A failure may begin a cooldown; the call that reports it has no further try
   of that upstream API. *)
LEMMA FailureCounts ==
  ASSUME CooldownInv, NEW c \in Call, ReportFailure(c)
  PROVE  CooldownInv'
<1>0. PICK p : p = call[c].provider
  OBVIOUS
<1>1. /\ call[c].at = "returned" /\ Failed(p)
      /\ UNCHANGED <<config, inflight, tries>>
  BY <1>0 DEF ReportFailure
<1>2. /\ CallsOK /\ p \in Provider /\ call[c] \in Attempt
      /\ call[c].left \in Lists /\ p \notin ToSet(call[c].left)
  BY <1>0, <1>1, CallKinds DEF CooldownInv, CallsOK, Attempt
<1>3. PICK x : /\ call' = [call EXCEPT ![c] = x]
               /\ \/ x = Idle
                  \/ call[c].left # <<>> /\ x = [at |-> "ordered", list |-> call[c].left]
  BY DEF ReportFailure
<1>4. CallOK(x)
  <2>1. CASE x = Idle
    BY <2>1 DEF CallOK
  <2>2. CASE call[c].left # <<>> /\ x = [at |-> "ordered", list |-> call[c].left]
    <3>1. x \in Ordered
      BY <1>2, <2>2 DEF Ordered
    <3> QED
      BY <3>1 DEF CallOK
  <2> QED
    BY <1>3, <2>1, <2>2
<1>5. (\A q \in Provider : Holds(x, q) => Holds(call[c], q)) /\ ~Holds(x, p)
  BY <1>1, <1>2, <1>3 DEF Holds, Idle
<1>6. /\ failures' \in [Provider -> Nat] /\ cooling' \in [Provider -> Nat]
      /\ \A q \in Provider \ {p} : cooling'[q] = cooling[q]
      /\ cooling[p] > 0 => cooling'[p] > 0
  <2>1. /\ FailureThreshold \in Nat \ {0} /\ MaxFactor \in Nat \ {0}
        /\ MaxFailures \in Nat /\ failures[p] \in Nat
    BY <1>2, BalancerAssumption DEF CallsOK, MaxFailures
  <2>2. failures[p] + 1 >= FailureThreshold => Cooldown(failures[p] + 1) \in Nat \ {0}
    BY <2>1 DEF Cooldown
  <2> HIDE DEF MaxFailures
  <2> QED
    BY <1>1, <1>2, <2>1, <2>2 DEF Failed, CallsOK
<1>7. CallsOK'
  BY <1>1, <1>2, <1>3, <1>4, <1>6, OthersStay DEF CallsOK
<1>8. ASSUME NEW q \in Provider, q # p
      PROVE  Counted(q)'
  BY <1>1, <1>3, <1>5, <1>6, <1>8, StillCounted
<1>9. Counted(p)'
  <2>1. Holders(p)' = Holders(p) \ {c} /\ Holders(p) \in SUBSET Call
    BY <1>1, <1>2, <1>3, <1>5, OneGoesOn DEF Holders
  <2>2. /\ Cardinality(Holders(p)') <= Cardinality(Holders(p))
        /\ Cardinality(Holders(p)') <= Cardinality(Call) - 1
        /\ Cardinality(Holders(p)) \in Nat /\ Cardinality(Holders(p)') \in Nat
        /\ Cardinality(Call) \in Nat
    <3>1. Holders(p)' \in SUBSET Call /\ c \in Call \ Holders(p)'
      BY <2>1
    <3> QED
      BY <2>1, <3>1, HoldersCount
  <2>3. tries[p] \in Nat /\ cooling[p] \in Nat /\ tries'[p] = tries[p]
    BY <1>1, <1>2 DEF CallsOK
  <2>4. CASE cooling[p] = 0
    BY <1>2, <2>2, <2>3, <2>4 DEF CooldownInv, Counted
  <2>5. CASE cooling[p] > 0
    BY <1>2, <1>6, <2>2, <2>3, <2>5 DEF CooldownInv, Counted
  <2> QED
    BY <2>3, <2>4, <2>5
<1> QED
  BY <1>1, <1>7, <1>8, <1>9 DEF CooldownInv, Provider

(* A cooldown that ends takes its count along. *)
LEMMA TickCounts ==
  ASSUME CooldownInv, Tick
  PROVE  CooldownInv'
<1>1. /\ cooling' = [p \in Provider |-> IF cooling[p] > 0 THEN cooling[p] - 1 ELSE 0]
      /\ tries' = [p \in Provider |-> IF cooling[p] <= 1 THEN 0 ELSE tries[p]]
      /\ UNCHANGED <<config, inflight, failures, call>>
  BY DEF Tick
<1>2. Provider' = Provider /\ CallsOK
  BY <1>1 DEF Provider, CooldownInv
<1>3. cooling' \in [Provider -> Nat] /\ tries' \in [Provider -> Nat]
  BY <1>1, <1>2 DEF CallsOK
<1>4. \A c \in Call : CallOK(call[c])'
  BY <1>1, <1>2 DEF CallsOK, CallOK, Filtered, Ordered, Attempt, Lists, Suitable, Supports
<1>5. CallsOK'
  BY <1>1, <1>2, <1>3, <1>4 DEF CallsOK
<1>6. ASSUME NEW p \in Provider
      PROVE  Counted(p)'
  <2>1. Holders(p)' = Holders(p)
    BY <1>1 DEF Holders, Holds
  <2>2. cooling[p] \in Nat /\ tries[p] \in Nat
    BY <1>2 DEF CallsOK
  <2> HIDE DEF Holders
  <2> QED
    BY <1>1, <2>1, <2>2 DEF CooldownInv, Counted
<1> QED
  BY <1>2, <1>5, <1>6 DEF CooldownInv

(* Every step keeps the cooldowns' count. *)
LEMMA CooldownsCounted == Spec => []CooldownInv
<1>1. Init => CooldownInv
  <2> SUFFICES ASSUME Init PROVE CooldownInv
    OBVIOUS
  <2>1. CallsOK
    BY DEF Init, CallsOK, CallOK
  <2>2. \A p \in Provider : Counted(p)
    BY DEF Init, Counted
  <2> QED
    BY <2>1, <2>2 DEF CooldownInv
<1>2. CooldownInv /\ [Next]_vars => CooldownInv'
  <2> SUFFICES ASSUME CooldownInv, [Next]_vars PROVE CooldownInv'
    OBVIOUS
  <2>1. ASSUME UNCHANGED <<config, health, call, tries>> PROVE CooldownInv'
    <3>1. UNCHANGED <<config, inflight, failures, cooling, call, tries>>
      BY <2>1 DEF health
    <3>2. CallsOK' /\ Provider' = Provider
      BY <3>1 DEF CooldownInv, CallsOK, CallOK, Filtered, Ordered, Attempt, Lists, Suitable,
                  Supports, Provider
    <3>3. \A p \in Provider : Counted(p)'
      BY <3>1 DEF CooldownInv, Counted, Holders, Holds
    <3> QED
      BY <3>2, <3>3 DEF CooldownInv
  <2>2. CASE UNCHANGED vars
    <3>1. UNCHANGED <<config, health, call, tries>>
      BY <2>2 DEF vars, health
    <3> QED
      BY <2>1, <3>1
  <2>3. CASE SortElsewhere
    <3>1. UNCHANGED <<config, health, call, tries>>
      BY <2>3 DEF SortElsewhere, health
    <3> QED
      BY <2>1, <3>1
  <2> QED
    BY <2>2, <2>3, FilterCounts, SortCounts, SendCounts, ReturnCounts, SuccessCounts,
       FailureCounts, TickCounts DEF Next
<1> QED
  BY <1>1, <1>2, PTL DEF Spec

(* An upstream API that cools down is only tried by calls that had chosen it
   before, each of them once, and not by the one whose failure began the
   cooldown: for any calls, upstream APIs and thresholds. *)
THEOREM CoolingIsAlwaysLeftAlone == Spec => []CoolingIsLeftAlone
<1>1. CooldownInv => CoolingIsLeftAlone
  <2> SUFFICES ASSUME CooldownInv, NEW p \in Provider
               PROVE  tries[p] <= Cardinality(Call) - 1
    BY DEF CoolingIsLeftAlone
  <2>1. /\ Holders(p) \in SUBSET Call
    BY DEF Holders
  <2>2. Cardinality(Holders(p)) \in Nat /\ Cardinality(Call) \in Nat
    BY <2>1, HoldersCount
  <2>0. Cardinality(Call) # 0
    BY BalancerAssumption, FS_EmptySet
  <2>3. cooling[p] \in Nat /\ tries[p] \in Nat /\ Counted(p)
    BY DEF CooldownInv, CallsOK
  <2> QED
    BY <2>0, <2>2, <2>3 DEF Counted
<1> QED
  BY <1>1, CooldownsCounted, PTL

----------------------------------------------------------------------------
(* The order of lists *)

(* Each strategy orders the whole group. *)
LEMMA GroupsAreEnumerated ==
  ASSUME NEW group, NEW strategy, NEW at, NEW list \in SortGroup(group, strategy, at)
  PROVE  list \in SetToSeqs(group)
<1>1. CASE strategy = "round-robin"
  BY <1>1 DEF SortGroup, Rotations
<1>2. CASE strategy = "least-inflight"
  BY <1>2 DEF SortGroup, StableSort
<1>3. CASE strategy = "least-latency"
  BY <1>3 DEF SortGroup, StableSort
<1>4. CASE strategy = "priority"
  BY <1>4 DEF SortGroup, StableSort
<1>5. CASE strategy \notin {"round-robin", "least-inflight", "least-latency", "priority"}
  BY <1>5 DEF SortGroup, Shuffles
<1> QED
  BY <1>1, <1>2, <1>3, <1>4, <1>5

\* What the strategy alone says of p before q.
Ranked(p, q, strategy) ==
  LET P == config[p]
      Q == config[q]
      Ranks(a, b) == a < b \/ (a = b /\ p < q)
  IN CASE strategy = "least-inflight" ->
                  \/ inflight[p] < inflight[q]
                  \/ inflight[p] = inflight[q] /\ Ranks(Q.weight, P.weight)
       [] strategy = "least-latency" -> Ranks(P.score, Q.score)
       [] strategy = "priority" -> Ranks(Q.weight, P.weight)
       [] OTHER -> TRUE

(* What the numbers of upstream APIs are. *)
LEMMA NumbersTyped ==
  ASSUME CallsOK, NEW p \in Provider
  PROVE  /\ config[p].priority \in Nat /\ config[p].weight \in Nat /\ config[p].score \in Nat
         /\ inflight[p] \in Int /\ p \in Nat
         /\ config[p].models \in {"declared", "any", "other"}
<1>1. config \in Seq(Upstream) /\ Provider = 1..Len(config)
  BY BalancerAssumption DEF CallsOK, Provider
<1>2. config[p] \in Upstream
  BY <1>1
<1> QED
  BY <1>1, <1>2 DEF CallsOK, Upstream

(* A strategy ranks the members of a group. *)
LEMMA GroupsAreRanked ==
  ASSUME CallsOK, NEW group \in SUBSET Provider, NEW strategy, NEW at,
         NEW list \in SortGroup(group, strategy, at),
         NEW i \in DOMAIN list, NEW j \in DOMAIN list, i < j
  PROVE  Ranked(list[i], list[j], strategy)
<1>1. PICK p, q : p = list[i] /\ q = list[j]
  OBVIOUS
<1>2. p \in Provider /\ q \in Provider
  <2>1. list \in SetToSeqs(group)
    BY GroupsAreEnumerated
  <2>2. list \in [DOMAIN list -> group]
    BY <2>1 DEF SetToSeqs
  <2> QED
    BY <1>1, <2>2
<1>3. /\ config[p].weight \in Nat /\ config[p].score \in Nat /\ inflight[p] \in Int /\ p \in Nat
      /\ config[q].weight \in Nat /\ config[q].score \in Nat /\ inflight[q] \in Int /\ q \in Nat
  BY <1>2, NumbersTyped
<1>4. CASE strategy = "least-inflight"
  <2>1. \/ FewerInflight(p, q)
        \/ ~FewerInflight(q, p) /\ p < q
    BY <1>1, <1>4 DEF SortGroup, StableSort
  <2> QED
    BY <1>1, <1>3, <1>4, <2>1 DEF FewerInflight, Ranked
<1>5. CASE strategy = "least-latency"
  <2>1. \/ config[p].score < config[q].score
        \/ ~(config[q].score < config[p].score) /\ p < q
    BY <1>1, <1>5 DEF SortGroup, StableSort
  <2> QED
    BY <1>1, <1>3, <1>5, <2>1 DEF Ranked
<1>6. CASE strategy = "priority"
  <2>1. \/ config[p].weight > config[q].weight
        \/ ~(config[q].weight > config[p].weight) /\ p < q
    BY <1>1, <1>6 DEF SortGroup, StableSort
  <2> QED
    BY <1>1, <1>3, <1>6, <2>1 DEF Ranked
<1>7. CASE strategy \notin {"least-inflight", "least-latency", "priority"}
  BY <1>7 DEF Ranked
<1> QED
  BY <1>4, <1>5, <1>6, <1>7

(* The places of a group end where those of lower priority begin. *)
LEMMA GroupsFollow ==
  ASSUME CallsOK, NEW pool \in SUBSET Provider, NEW a \in Nat
  PROVE  /\ IsFiniteSet(Group(pool, a)) /\ Cardinality(Group(pool, a)) \in Nat
         /\ IsFiniteSet(Above(pool, a)) /\ Cardinality(Above(pool, a)) \in Nat
         /\ IsFiniteSet(pool) /\ Cardinality(pool) \in Nat
         /\ Cardinality(Above(pool, a)) + Cardinality(Group(pool, a)) <= Cardinality(pool)
         /\ \A b \in Nat : b < a =>
              Cardinality(Above(pool, a)) + Cardinality(Group(pool, a))
                <= Cardinality(Above(pool, b))
<1>1. IsFiniteSet(1..Len(config)) /\ pool \in SUBSET (1..Len(config))
  <2>1. config \in Seq(Upstream) /\ Provider = 1..Len(config) /\ Len(config) \in Nat
    BY BalancerAssumption DEF CallsOK, Provider
  <2> QED
    BY <2>1, FS_Interval
<1>2. IsFiniteSet(pool)
  BY <1>1, FS_Subset
<1>3. ASSUME NEW T \in SUBSET pool
      PROVE  IsFiniteSet(T) /\ Cardinality(T) \in Nat /\ Cardinality(T) <= Cardinality(pool)
  BY <1>2, FS_Subset, FS_CardinalityType
<1> DEFINE G == Group(pool, a)
           A == Above(pool, a)
<1>4. G \in SUBSET pool /\ A \in SUBSET pool
  BY DEF Group, Above
<1>5. A \cap G = {}
  <2>1. \A p \in G : config[p].priority = a
    BY DEF Group
  <2>2. \A p \in A : config[p].priority > a
    BY DEF Above
  <2> QED
    BY <2>1, <2>2
<1>6. \A b \in Nat : b < a => A \cup G \subseteq Above(pool, b)
  <2> SUFFICES ASSUME NEW b \in Nat, b < a, NEW p \in A \cup G
               PROVE  p \in Above(pool, b)
    OBVIOUS
  <2>1. p \in pool /\ config[p].priority \in Nat
    BY <1>4, NumbersTyped
  <2> QED
    BY <2>1 DEF Above, Group
<1> HIDE DEF A, G
<1>7. IsFiniteSet(A) /\ IsFiniteSet(G) /\ Cardinality(A) \in Nat /\ Cardinality(G) \in Nat
  BY <1>3, <1>4
<1>8. IsFiniteSet(A \cup G) /\ Cardinality(A \cup G) = Cardinality(A) + Cardinality(G)
  BY <1>5, <1>7, FS_Union, FS_EmptySet
<1>9. Cardinality(A \cup G) <= Cardinality(pool)
  BY <1>3, <1>4
<1>10. ASSUME NEW b \in Nat, b < a
       PROVE  Cardinality(A \cup G) <= Cardinality(Above(pool, b))
  <2>1. Above(pool, b) \in SUBSET pool
    BY DEF Above
  <2>2. PICK B : B = Above(pool, b)
    OBVIOUS
  <2>3. IsFiniteSet(B) /\ A \cup G \in SUBSET B
    BY <1>3, <1>6, <1>10, <2>1, <2>2
  <2> QED
    BY <2>2, <2>3, FS_Subset
<1> QED
  BY <1>2, <1>7, <1>8, <1>9, <1>10, FS_CardinalityType DEF A, G

(* In an ordered pool each group has its block of places, in its own order. *)
LEMMA GroupsHaveBlocks ==
  ASSUME CallsOK, NEW pool \in SUBSET Provider, NEW strategy, NEW list \in Order(pool, strategy),
         NEW k \in DOMAIN list
  PROVE  LET priority == config[list[k]].priority
             first == Cardinality(Above(pool, priority))
             size == Cardinality(Group(pool, priority))
         IN  /\ priority \in Nat /\ list[k] \in Group(pool, priority)
             /\ k \in (first + 1)..(first + size)
             /\ \E at : SubSeq(list, first + 1, first + size)
                          \in SortGroup(Group(pool, priority), strategy, at)
<1>0. IsFiniteSet(pool)
  BY GroupsFollow
<1>1. /\ list \in Seq(pool) /\ Len(list) = Cardinality(pool) /\ Distinct(list)
      /\ DOMAIN list = 1..Cardinality(pool) /\ Cardinality(pool) \in Nat
  BY <1>0, Enumeration DEF Order
<1>2. PICK p : p = list[k]
  OBVIOUS
<1>3. p \in pool /\ config[p].priority \in Nat
  BY <1>1, <1>2, NumbersTyped
<1>4. PICK a : a = config[p].priority
  OBVIOUS
<1>5. PICK group, first, size :
        /\ group = Group(pool, a) /\ first = Cardinality(Above(pool, a))
        /\ size = Cardinality(group)
  OBVIOUS
<1>6. /\ a \in Nat /\ p \in group /\ a \in Priorities(pool)
      /\ IsFiniteSet(group) /\ first \in Nat /\ size \in Nat /\ first + size <= Cardinality(pool)
  BY <1>3, <1>4, <1>5, GroupsFollow DEF Group, Priorities
<1>7. PICK at : SubSeq(list, first + 1, first + size) \in SortGroup(group, strategy, at)
  BY <1>4, <1>5, <1>6 DEF Order
<1>8. PICK sub : sub = SubSeq(list, first + 1, first + size)
  OBVIOUS
<1>9. ToSet(sub) = group /\ DOMAIN sub = 1..size
  <2>1. sub \in SetToSeqs(group)
    BY <1>7, <1>8, GroupsAreEnumerated
  <2> QED
    BY <1>5, <1>6, <2>1, Enumeration
<1>10. PICK u \in 1..size : sub[u] = p
  BY <1>6, <1>9 DEF ToSet
<1>11. sub[u] = list[first + u] /\ first + u \in 1..Cardinality(pool)
  BY <1>1, <1>6, <1>8
<1>12. k = first + u
  BY <1>1, <1>2, <1>10, <1>11 DEF Distinct
<1>13. k \in (first + 1)..(first + size)
  BY <1>6, <1>10, <1>12
<1>14. config[list[k]].priority = a /\ list[k] = p
  BY <1>2, <1>4
<1>15. \E x : SubSeq(list, first + 1, first + size) \in SortGroup(group, strategy, x)
  BY <1>7
<1> QED
  BY <1>5, <1>6, <1>13, <1>14, <1>15, Zenon

(* In an ordered pool the higher priority comes first, and among equals the
   strategy decides. *)
LEMMA OrderedPool ==
  ASSUME CallsOK, NEW pool \in SUBSET Provider, NEW strategy, NEW list \in Order(pool, strategy),
         NEW k \in DOMAIN list, NEW l \in DOMAIN list, k < l
  PROVE  \/ config[list[k]].priority > config[list[l]].priority
         \/ /\ config[list[k]].priority = config[list[l]].priority
            /\ Ranked(list[k], list[l], strategy)
<1>0. DOMAIN list \subseteq Nat
  <2>1. IsFiniteSet(pool)
    BY GroupsFollow
  <2>2. list \in Seq(pool)
    BY <2>1, Enumeration DEF Order
  <2> QED
    BY <2>2
<1>1. PICK a, b : a = config[list[k]].priority /\ b = config[list[l]].priority
  OBVIOUS
<1> DEFINE First(x) == Cardinality(Above(pool, x))
           Size(x) == Cardinality(Group(pool, x))
<1>2. a \in Nat /\ k \in (First(a) + 1)..(First(a) + Size(a))
  BY <1>1, GroupsHaveBlocks
<1>3. b \in Nat /\ l \in (First(b) + 1)..(First(b) + Size(b))
  BY <1>1, GroupsHaveBlocks
<1>4. /\ First(a) \in Nat /\ Size(a) \in Nat /\ First(b) \in Nat /\ Size(b) \in Nat
      /\ a < b => First(b) + Size(b) <= First(a)
  BY <1>2, <1>3, GroupsFollow
<1>5. CASE a < b
  <2> HIDE DEF First, Size
  <2> QED
    BY <1>0, <1>2, <1>3, <1>4, <1>5
<1>6. CASE a > b
  BY <1>1, <1>6
<1>7. CASE a = b
  <2>1. PICK at : SubSeq(list, First(a) + 1, First(a) + Size(a))
                    \in SortGroup(Group(pool, a), strategy, at)
    BY <1>1, GroupsHaveBlocks
  <2>2. PICK sub : sub = SubSeq(list, First(a) + 1, First(a) + Size(a))
    OBVIOUS
  <2>3. Group(pool, a) \in SUBSET Provider
    BY DEF Group
  <2>4. list \in Seq(pool) /\ First(a) + Size(a) <= Len(list)
    <3>1. list \in SetToSeqs(pool) /\ IsFiniteSet(pool)
      BY GroupsFollow DEF Order
    <3>2. First(a) + Size(a) <= Cardinality(pool)
      BY <1>2, GroupsFollow
    <3> QED
      BY <3>1, <3>2, Enumeration
  <2> HIDE DEF First, Size
  <2>5. /\ k - First(a) \in 1..Size(a) /\ l - First(a) \in 1..Size(a)
        /\ k - First(a) < l - First(a)
    BY <1>0, <1>2, <1>3, <1>4, <1>7
  <2>6. DOMAIN sub = 1..Size(a) /\ \A x \in 1..Size(a) : sub[x] = list[First(a) + x]
    BY <1>4, <2>2, <2>4
  <2>7. sub[k - First(a)] = list[k] /\ sub[l - First(a)] = list[l]
    BY <1>0, <1>4, <2>5, <2>6
  <2>8. Ranked(sub[k - First(a)], sub[l - First(a)], strategy)
    BY <2>1, <2>2, <2>3, <2>5, <2>6, GroupsAreRanked
  <2> QED
    BY <1>1, <1>7, <2>7, <2>8
<1> QED
  BY <1>2, <1>3, <1>5, <1>6, <1>7

(* What preferDeclaredModel makes of an ordered pool is in the right order. *)
LEMMA PreferredPool ==
  ASSUME CallsOK, NEW pool \in SUBSET Suitable, NEW strategy, NEW list \in Order(pool, strategy),
         NEW preferred \in PreferDeclaredModel(list),
         NEW i \in DOMAIN preferred, NEW j \in DOMAIN preferred, i < j
  PROVE  MayPrecede(preferred[i], preferred[j], strategy)
<1>1. PICK p, q : p = preferred[i] /\ q = preferred[j]
  OBVIOUS
<1>2. pool \in SUBSET Provider
  BY DEF Suitable
<1>3. p \in pool /\ q \in pool
  <2>1. preferred \in SetToSeqs(pool)
    BY <1>2, SortedPool
  <2>2. preferred \in [DOMAIN preferred -> pool]
    BY <2>1 DEF SetToSeqs
  <2> QED
    BY <1>1, <2>2
<1>4. config[p].models \in {"declared", "any"} /\ config[q].models \in {"declared", "any"}
  BY <1>2, <1>3, NumbersTyped DEF Suitable, Supports
<1>5. \/ Declares(p) /\ ~Declares(q)
      \/ (Declares(p) <=> Declares(q)) /\ Earlier(list, p, q)
  BY <1>1 DEF PreferDeclaredModel
<1>6. CASE Declares(p) /\ ~Declares(q)
  BY <1>1, <1>6 DEF Declares, MayPrecede
<1>7. CASE (Declares(p) <=> Declares(q)) /\ Earlier(list, p, q)
  <2>1. config[p].models = config[q].models
    BY <1>4, <1>7 DEF Declares
  <2>2. PICK k \in DOMAIN list, l \in DOMAIN list : k < l /\ list[k] = p /\ list[l] = q
    BY <1>7 DEF Earlier
  <2>3. \/ config[p].priority > config[q].priority
        \/ config[p].priority = config[q].priority /\ Ranked(p, q, strategy)
    BY <1>2, <2>2, OrderedPool
  <2> QED
    BY <1>1, <2>1, <2>3 DEF MayPrecede, Ranked
<1> QED
  BY <1>5, <1>6, <1>7

(* Only the sort takes a call from its pool to its list. *)
LEMMA OnlySortOrders ==
  ASSUME CooldownInv, Next, NEW c \in Call, ~Sort(c)
  PROVE  ~(call[c].at = "filtered" /\ call'[c].at = "ordered")
<1>1. DOMAIN call = Call
  BY DEF CooldownInv, CallsOK
<1>2. ASSUME NEW d \in Call,
             \/ Sort(d) /\ c # d
             \/ Filter(d) \/ Send(d) \/ Return(d) \/ ReportSuccess(d) \/ ReportFailure(d)
             \/ SortElsewhere \/ Tick,
             call[c].at = "filtered"
      PROVE  call'[c] = call[c]
  BY <1>1, <1>2 DEF Sort, Filter, Send, Return, ReportSuccess, ReportFailure, SortElsewhere,
                    Tick, Idle
<1> QED
  BY <1>2 DEF Next

(* The list of a call holds its whole pool, each member once, in the order that
   declared models, priorities and the strategy give: for any upstream APIs,
   whatever was reported since the filter. *)
THEOREM ListsAreAlwaysRight == Spec => ListsAreRight
<1> DEFINE Right(c) ==
      call[c].at = "filtered" /\ call'[c].at = "ordered" =>
        LET list == call'[c].list IN
        /\ Len(list) = Cardinality(call[c].pool)
        /\ ToSet(list) = call[c].pool
        /\ \A i, j \in 1..Len(list) : i < j => MayPrecede(list[i], list[j], call'[c].by)
<1>1. ASSUME CooldownInv, NEW c \in Call, Sort(c)
      PROVE  Right(c)
  <2>1. PICK pool : pool = call[c].pool
    OBVIOUS
  <2>2. PICK strategy, list, preferred :
          /\ list \in Order(pool, strategy) /\ preferred \in PreferDeclaredModel(list)
          /\ call' = [call EXCEPT ![c] = [at |-> "ordered", by |-> strategy, list |-> preferred]]
    BY <1>1, <2>1 DEF Sort
  <2>3. CallsOK /\ call[c] \in Filtered
    BY <1>1, CallKinds DEF CooldownInv, CallsOK, Sort
  <2>4. pool \in SUBSET Suitable /\ pool \in SUBSET Provider
    BY <2>1, <2>3 DEF Filtered, Suitable
  <2>5. IsFiniteSet(pool) /\ preferred \in SetToSeqs(pool)
    BY <2>2, <2>3, <2>4, SortedPool
  <2>6. /\ Len(preferred) = Cardinality(pool) /\ ToSet(preferred) = pool
        /\ DOMAIN preferred = 1..Len(preferred)
    BY <2>5, Enumeration
  <2>7. \A i, j \in 1..Len(preferred) : i < j => MayPrecede(preferred[i], preferred[j], strategy)
    BY <2>2, <2>3, <2>4, <2>6, PreferredPool
  <2>8. call'[c].list = preferred /\ call'[c].by = strategy
    BY <2>2, <2>3 DEF CallsOK
  <2> QED
    BY <2>1, <2>6, <2>7, <2>8
<1>2. CooldownInv /\ [Next]_vars => [\A c \in Call : Right(c)]_vars
  <2> SUFFICES ASSUME CooldownInv, Next, NEW c \in Call
               PROVE  Right(c)
    OBVIOUS
  <2>1. CASE Sort(c)
    BY <1>1, <2>1
  <2>2. CASE ~Sort(c)
    <3>1. ~(call[c].at = "filtered" /\ call'[c].at = "ordered")
      BY <2>2, OnlySortOrders
    <3> QED
      BY <3>1
  <2> QED
    BY <2>1, <2>2
<1> QED
  BY <1>2, CooldownsCounted, PTL DEF Spec, ListsAreRight

----------------------------------------------------------------------------
(* Turns *)

(* Counting on modulo n. *)
LEMMA NextModulo ==
  ASSUME NEW n \in Nat \ {0}, NEW x \in Nat
  PROVE  (x + 1) % n = ((x % n) + 1) % n
<1> DEFINE q == x \div n
           r == x % n
<1>1. q \in Nat /\ r \in 0..(n - 1) /\ x = n * q + r
  OBVIOUS
<1> HIDE DEF q, r
<1>2. CASE r + 1 < n
  <2>1. x + 1 = n * q + (r + 1)
    BY <1>1
  <2>2. (x + 1) % n = r + 1
    BY <1>1, <1>2, <2>1
  <2>3. (r + 1) % n = r + 1
    BY <1>1, <1>2
  <2> QED
    BY <2>2, <2>3 DEF r
<1>3. CASE r + 1 = n
  <2>1. x + 1 = n * (q + 1)
    BY <1>1, <1>3
  <2>2. (x + 1) % n = 0
    BY <1>1, <2>1
  <2>3. (r + 1) % n = 0
    BY <1>1, <1>3
  <2> QED
    BY <2>2, <2>3 DEF r
<1> QED
  BY <1>1, <1>2, <1>3

(* The remainders that are needed. *)
LEMMA WithinModulo ==
  ASSUME NEW n \in Nat \ {0}, NEW x \in Nat
  PROVE  x % n \in 0..(n - 1) /\ (x < n => x % n = x) /\ (x = n => x % n = 0)
OBVIOUS

\* The cursor has gone on from the turn that is remembered by one.
TurnOK ==
  /\ cursor \in 0..(CursorSize - 1)
  /\ turn # 0 => turn \in 1..Len(config) /\ cursor % Len(config) = turn % Len(config)

(* One more turn, over the end of the cursor's range too. *)
LEMMA CursorGoesOn ==
  ASSUME NEW n \in Nat \ {0}, CursorSize % n = 0, cursor \in 0..(CursorSize - 1),
         NEW t, (cursor + 1) % n = t % n, NEW y, y = (cursor + 1) % CursorSize
  PROVE  y \in 0..(CursorSize - 1) /\ y % n = t % n
<1>1. CursorSize \in Nat \ {0}
  BY BalancerAssumption
<1>2. PICK z : z = cursor + 1
  OBVIOUS
<1>3. z \in Nat /\ z <= CursorSize
  BY <1>1, <1>2
<1>4. y \in 0..(CursorSize - 1)
  BY <1>1, <1>2, <1>3, WithinModulo
<1>5. CASE z < CursorSize
  BY <1>1, <1>2, <1>3, <1>4, <1>5, WithinModulo
<1>6. CASE z = CursorSize
  <2>1. y = 0
    BY <1>1, <1>2, <1>3, <1>6, WithinModulo
  <2>2. 0 % n = 0
    BY WithinModulo
  <2> QED
    BY <1>2, <1>4, <1>6, <2>1, <2>2
<1> QED
  BY <1>1, <1>3, <1>5, <1>6

(* A sort for another account uses up a turn of this one. *)
LEMMA ElsewhereTurns ==
  ASSUME CallsOK, TurnOK, SortElsewhere
  PROVE  TurnOK'
<1>1. PICK n : n = Len(config)
  OBVIOUS
<1>2. n \in Nat /\ config' = config
  BY <1>1, BalancerAssumption DEF CallsOK, SortElsewhere
<1>3. cursor' = (cursor + 1) % CursorSize /\ cursor \in 0..(CursorSize - 1)
  BY DEF SortElsewhere, TurnOK
<1>4. CASE turn = 0
  <2>1. cursor + 1 \in Nat /\ CursorSize \in Nat \ {0}
    BY <1>3, BalancerAssumption
  <2>2. cursor' \in 0..(CursorSize - 1)
    BY <1>3, <2>1, WithinModulo
  <2> QED
    BY <1>4, <2>2 DEF SortElsewhere, NextTurn, TurnOK
<1>5. CASE turn # 0
  <2>1. turn \in 1..n /\ n # 0 /\ cursor % n = turn % n
    BY <1>1, <1>2, <1>5 DEF TurnOK
  <2>2. CursorSize % n = 0
    BY <1>1, <1>2, <2>1, BalancerAssumption DEF CallsOK
  <2>3. turn' = (turn % n) + 1
    BY <1>1, <1>5 DEF SortElsewhere, NextTurn
  <2>4. turn % n \in 0..(n - 1)
    <3>1. turn \in Nat /\ n \in Nat \ {0}
      BY <1>2, <2>1
    <3> QED
      BY <3>1, WithinModulo
  <2>5. turn' \in 1..n
    <3>1. PICK y : y = turn % n
      OBVIOUS
    <3> QED
      BY <1>2, <2>3, <2>4, <3>1
  <2>6. (cursor + 1) % n = turn' % n
    <3>1. cursor \in Nat /\ n \in Nat \ {0}
      BY <1>2, <1>3, <2>1
    <3> QED
      BY <2>1, <2>3, <3>1, NextModulo
  <2>7. cursor' \in 0..(CursorSize - 1) /\ cursor' % n = turn' % n
    BY <1>2, <1>3, <2>1, <2>2, <2>6, CursorGoesOn
  <2> QED
    BY <1>1, <1>2, <2>5, <2>7 DEF TurnOK
<1> QED
  BY <1>4, <1>5

(* A pool has finitely many priorities. *)
LEMMA PrioritiesCounted ==
  ASSUME CallsOK, NEW pool \in SUBSET Provider
  PROVE  IsFiniteSet(Priorities(pool)) /\ Cardinality(Priorities(pool)) \in Nat
<1> DEFINE f == [p \in pool |-> config[p].priority]
<1>1. IsFiniteSet(pool)
  BY GroupsFollow
<1>2. PICK g, T : g = f /\ T = Priorities(pool)
  OBVIOUS
<1>3. PICK S : S = pool
  OBVIOUS
<1>4. g \in Surjection(S, T)
  <2>1. g \in [S -> T] /\ \A t \in T : \E x \in S : g[x] = t
    BY <1>2, <1>3 DEF Priorities
  <2> QED
    BY <2>1 DEF Surjection
<1>5. IsFiniteSet(T)
  BY <1>1, <1>3, <1>4, FS_Surjection
<1> QED
  BY <1>2, <1>5, FS_CardinalityType

(* Who comes first when round robin goes over all upstream APIs at once. *)
LEMMA FirstInTurn ==
  ASSUME CallsOK, cursor \in 0..(CursorSize - 1), OverAll(Provider), Provider # {},
         NEW list \in Order(Provider, "round-robin")
  PROVE  list[1] = (cursor % Len(config)) + 1
<1>1. PICK n : n = Len(config)
  OBVIOUS
<1>2. Provider = 1..n /\ n \in Nat /\ n # 0
  BY <1>1, BalancerAssumption DEF CallsOK, Provider
<1>3. IsFiniteSet(1..n) /\ Cardinality(1..n) = n
  BY <1>2, FS_Interval
<1>4. list \in Seq(1..n) /\ Len(list) = n /\ DOMAIN list = 1..n
  <2>1. list \in SetToSeqs(1..n)
    BY <1>2 DEF Order
  <2> QED
    BY <1>3, <2>1, Enumeration
<1>5. PICK a : Priorities(Provider) = {a}
  <2>1. PICK T : T = Priorities(Provider)
    OBVIOUS
  <2>2. Cardinality(T) = 1 /\ IsFiniteSet(T)
    BY <2>1, PrioritiesCounted DEF OverAll
  <2> QED
    BY <2>1, <2>2, FS_Singleton
<1>6. \A p \in Provider : config[p].priority = a
  BY <1>5 DEF Priorities
<1>7. Group(Provider, a) = 1..n
  BY <1>2, <1>6 DEF Group
<1>8. Above(Provider, a) = {}
  <2>1. a \in Nat
    BY <1>6, NumbersTyped
  <2> QED
    BY <1>6, <2>1 DEF Above
<1>9. Priorities({}) = {}
  BY DEF Priorities
<1>10. SubSeq(list, 0 + 1, 0 + n)
          \in SortGroup(1..n, "round-robin", (cursor + 0) % CursorSize)
  BY <1>3, <1>5, <1>7, <1>8, <1>9, FS_EmptySet DEF Order
<1>11. (cursor + 0) % CursorSize = cursor
  BY BalancerAssumption, WithinModulo
<1>12. SubSeq(list, 0 + 1, 0 + n) = list
  BY <1>2, <1>4
<1>13. list \in Rotations(1..n, cursor)
  BY <1>10, <1>11, <1>12 DEF SortGroup
<1>14. Place(list[1], 1..n) = (cursor + 1 - 1) % n
  <2>1. \A i \in DOMAIN list : Place(list[i], 1..n) = (cursor + i - 1) % Cardinality(1..n)
    BY <1>13 DEF Rotations
  <2>2. 1 \in DOMAIN list
    BY <1>2, <1>4
  <2> QED
    BY <1>3, <2>1, <2>2
<1>15. PICK p \in 1..n : p = list[1]
  BY <1>2, <1>4
<1>16. {q \in 1..n : q < p} = 1..(p - 1)
  BY <1>2
<1>17. Place(p, 1..n) = p - 1
  <2>1. Cardinality(1..(p - 1)) = p - 1
    BY <1>2, FS_Interval
  <2> QED
    BY <1>16, <2>1 DEF Place
<1> QED
  <2>1. cursor + 1 - 1 = cursor
    BY BalancerAssumption
  <2> QED
    BY <1>1, <1>2, <1>14, <1>15, <1>17, <2>1

(* What a sort by round robin makes of cursor and turn. *)
LEMMA SortTurns ==
  ASSUME CallsOK, TurnOK, NEW c \in Call, Sort(c)
  PROVE  /\ TurnOK'
         /\ /\ call'[c].by = "round-robin"
            /\ Cardinality(call[c].pool) > 1 /\ OverAll(call[c].pool) /\ turn # 0
            => turn' = NextTurn
<1>1. PICK pool : pool = call[c].pool
  OBVIOUS
<1>2. PICK strategy, list, preferred :
        /\ strategy \in Strategies
        /\ list \in Order(pool, strategy) /\ cursor' = CursorAfter(pool, strategy)
        /\ call' = [call EXCEPT ![c] = [at |-> "ordered", by |-> strategy, list |-> preferred]]
        /\ turn' = IF strategy # "round-robin" \/ Cardinality(pool) <= 1 THEN turn
                   ELSE IF OverAll(pool) THEN list[1] ELSE 0
  BY <1>1 DEF Sort
<1>3. config' = config /\ pool \in SUBSET Provider /\ call'[c].by = strategy
  <2>1. call[c] \in Filtered
    BY CallKinds DEF CallsOK, Sort
  <2> QED
    BY <1>1, <1>2, <2>1 DEF Sort, Filtered, Suitable, CallsOK
<1>4. CASE strategy # "round-robin" \/ Cardinality(pool) <= 1
  <2>1. cursor' = cursor /\ turn' = turn
    BY <1>2, <1>4 DEF CursorAfter
  <2> QED
    BY <1>1, <1>3, <1>4, <2>1, GroupsFollow DEF TurnOK
<1>5. CASE strategy = "round-robin" /\ ~(Cardinality(pool) <= 1)
  <2>1. /\ Cardinality(Priorities(pool)) \in Nat
        /\ cursor' = (cursor + Cardinality(Priorities(pool))) % CursorSize
    BY <1>2, <1>3, <1>5, PrioritiesCounted DEF CursorAfter
  <2>2. cursor \in Nat /\ CursorSize \in Nat \ {0}
    BY BalancerAssumption DEF TurnOK
  <2>3. cursor' \in 0..(CursorSize - 1)
    BY <2>1, <2>2, WithinModulo
  <2>4. CASE ~OverAll(pool)
    BY <1>1, <1>2, <1>3, <1>5, <2>3, <2>4 DEF TurnOK
  <2>5. CASE OverAll(pool)
    <3>1. PICK n : n = Len(config)
      OBVIOUS
    <3>2. pool = Provider /\ Cardinality(Priorities(pool)) = 1
      BY <2>5 DEF OverAll
    <3>3. n \in Nat /\ Provider = 1..n
      BY <3>1, BalancerAssumption DEF CallsOK, Provider
    <3>4. n # 0 /\ Provider # {}
      <4>1. n = 0 => Provider = {}
        BY <3>3
      <4>2. Provider # {}
        BY <1>5, <3>2, FS_EmptySet
      <4> QED
        BY <4>1, <4>2
    <3>5. CursorSize % n = 0
      BY <3>1, <3>3, <3>4, BalancerAssumption DEF CallsOK
    <3>6. PICK y : y = cursor % n
      OBVIOUS
    <3>7. y \in 0..(n - 1)
      BY <2>2, <3>3, <3>4, <3>6, WithinModulo
    <3>8. turn' = (cursor % n) + 1
      BY <1>2, <1>5, <2>5, <3>1, <3>2, <3>4, FirstInTurn DEF TurnOK
    <3>9. cursor % n \in 0..(n - 1) /\ turn' \in 1..n
      BY <3>3, <3>8, <3>6, <3>7
    <3>10. cursor' % n = turn' % n
      <4>1. (cursor + 1) % n = turn' % n
        BY <2>2, <3>3, <3>4, <3>8, NextModulo
      <4>2. cursor' = (cursor + 1) % CursorSize
        BY <2>1, <3>2
      <4> QED
        BY <3>3, <3>4, <3>5, <4>1, <4>2, CursorGoesOn DEF TurnOK
    <3>11. TurnOK'
      BY <1>3, <2>3, <3>1, <3>9, <3>10 DEF TurnOK
    <3>12. turn # 0 => turn' = NextTurn
      BY <3>1, <3>8 DEF TurnOK, NextTurn
    <3> QED
      BY <3>11, <3>12
  <2> QED
    BY <2>4, <2>5
<1> QED
  BY <1>2, <1>4, <1>5

(* Calls that choose by round robin from all upstream APIs of one priority begin
   with the one whose turn it is: as many places after the last one as sorts have
   come since, those of other accounts included, which share the cursor.  For any
   number of upstream APIs, of calls and of sorts elsewhere. *)
THEOREM TurnsAreTaken == Spec => TakesTurns
<1> DEFINE Turns(c) ==
      /\ call[c].at = "filtered" /\ call'[c].at = "ordered"
      /\ call'[c].by = "round-robin" /\ Cardinality(call[c].pool) > 1 /\ OverAll(call[c].pool)
      /\ turn # 0
      => turn' = NextTurn
<1>1. Init => TurnOK
  BY BalancerAssumption DEF Init, TurnOK
<1>2. CooldownInv /\ TurnOK /\ [Next]_vars => TurnOK'
  <2> SUFFICES ASSUME CooldownInv, TurnOK, [Next]_vars PROVE TurnOK'
    OBVIOUS
  <2>1. ASSUME NEW c \in Call, Sort(c) PROVE TurnOK'
    BY <2>1, SortTurns DEF CooldownInv
  <2>2. ASSUME UNCHANGED <<config, cursor, turn>> PROVE TurnOK'
    BY <2>2 DEF TurnOK
  <2>3. ASSUME SortElsewhere PROVE TurnOK'
    BY <2>3, ElsewhereTurns DEF CooldownInv
  <2> QED
    BY <2>1, <2>2, <2>3 DEF Next, vars, Filter, Send, Return, ReportSuccess, ReportFailure, Tick
<1>3. CooldownInv /\ TurnOK /\ [Next]_vars => [\A c \in Call : Turns(c)]_vars
  <2> SUFFICES ASSUME CooldownInv, TurnOK, Next, NEW c \in Call
               PROVE  Turns(c)
    OBVIOUS
  <2>1. CASE Sort(c)
    BY <2>1, SortTurns DEF CooldownInv
  <2>2. CASE ~Sort(c)
    <3>1. ~(call[c].at = "filtered" /\ call'[c].at = "ordered")
      BY <2>2, OnlySortOrders
    <3> QED
      BY <3>1
  <2> QED
    BY <2>1, <2>2
<1> QED
  BY <1>1, <1>2, <1>3, CooldownsCounted, PTL DEF Spec, TakesTurns
=============================================================================
