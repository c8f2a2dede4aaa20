-------------------------- MODULE AllocationProofs --------------------------
(***************************************************************************)
(* Theorems about Allocation, for every set of accounts, keys, groups and  *)
(* models.  The load index is exact because every Update recounts it and   *)
(* the one Mutate that moves a binding does to the index precisely what a  *)
(* recount would (DetachIsRecount, AttachIsRecount).  The assignment is    *)
(* decided because the comparator is a strict total order on a pool of     *)
(* accounts that all have a working upstream (PrecedesTransitive,          *)
(* PrecedesDecides).                                                       *)
(***************************************************************************)
EXTENDS Allocation, FiniteSetTheorems, TLAPS

(* A finite set with a strict total order has a first element.  The sets of
   predecessors are finite, so one of them has no proper subset among them. *)
LEMMA FirstOfOrder ==
  ASSUME NEW P, IsFiniteSet(P), P # {}, NEW R,
         \A x \in P : <<x, x>> \notin R,
         \A x, y, z \in P : <<x, y>> \in R /\ <<y, z>> \in R => <<x, z>> \in R,
         \A x, y \in P : x # y => <<x, y>> \in R \/ <<y, x>> \in R
  PROVE  \E x \in P : \A y \in P \ {x} : <<x, y>> \in R
<1> DEFINE Below(x) == {y \in P : <<y, x>> \in R}
<1> DEFINE Family == {Below(x) : x \in P}
<1>1. Family \subseteq FiniteSubsetsOf(P) /\ Family # {}
  <2>1. FiniteSubsetsOf(P) = SUBSET P
    BY FS_FiniteSubsetsOfFinite
  <2>2. Family # {}
    <3>1. PICK x \in P : TRUE
      OBVIOUS
    <3>2. Below(x) \in Family
      OBVIOUS
    <3> QED
      BY <3>2
  <2>3. ASSUME NEW B \in Family
        PROVE  B \in SUBSET P
    OBVIOUS
  <2> HIDE DEF Family
  <2> QED
    BY <2>1, <2>2, <2>3
<1>2. PICK B \in Family : \A C \in Family : <<C, B>> \notin StrictSubsetOrdering(P)
  <2> HIDE DEF Family
  <2> QED
    BY <1>1, WFMin, FS_StrictSubsetOrderingWellFounded
<1>3. PICK x \in P : B = Below(x)
  OBVIOUS
<1>4. ASSUME NEW y \in P, <<y, x>> \in R
      PROVE  FALSE
  <2>1. Below(y) \subseteq Below(x) /\ Below(y) # Below(x)
    BY <1>4
  <2>2. <<Below(y), Below(x)>> \in StrictSubsetOrdering(P)
    BY <2>1 DEF StrictSubsetOrdering
  <2> QED
    BY <1>2, <1>3, <2>2
<1> QED
  BY <1>4

(* A positive factor may be cancelled from an inequality, ... *)
LEMMA CancelFactor ==
  ASSUME NEW h \in Nat \ {0}, NEW x \in Nat, NEW y \in Nat
  PROVE  /\ h * x <= h * y => x <= y
         /\ h * x < h * y => x < y
<1>1. ASSUME x > y PROVE h * x > h * y
  <2>1. PICK d \in Nat \ {0} : x = y + d
    <3>1. x - y \in Nat \ {0} /\ x = y + (x - y)
      BY <1>1
    <3> QED
      BY <3>1
  <2>2. h * x = h * y + h * d
    BY <2>1
  <2>3. h * d > 0
    OBVIOUS
  <2>4. h * x \in Nat /\ h * y \in Nat /\ h * d \in Nat
    OBVIOUS
  <2> QED
    BY <2>2, <2>3, <2>4
<1>2. h * x \in Nat /\ h * y \in Nat
  OBVIOUS
<1>3. x = y => h * x = h * y
  OBVIOUS
<1> QED
  BY <1>1, <1>2, <1>3

(* ... and multiplied into one. *)
LEMMA ScaleFactor ==
  ASSUME NEW h \in Nat \ {0}, NEW x \in Nat, NEW y \in Nat
  PROVE  /\ x <= y => x * h <= y * h
         /\ x < y => x * h < y * h
<1>1. ASSUME x < y PROVE x * h < y * h
  <2>1. PICK d \in Nat \ {0} : y = x + d
    <3>1. y - x \in Nat \ {0} /\ y = x + (y - x)
      BY <1>1
    <3> QED
      BY <3>1
  <2>2. y * h = x * h + d * h
    BY <2>1
  <2>3. d * h > 0
    OBVIOUS
  <2>4. y * h \in Nat /\ x * h \in Nat /\ d * h \in Nat
    OBVIOUS
  <2> QED
    BY <2>2, <2>3, <2>4
<1>2. x * h \in Nat /\ y * h \in Nat
  OBVIOUS
<1>3. x = y => x * h = y * h
  OBVIOUS
<1> QED
  BY <1>1, <1>2, <1>3

(* Comparing pressures by cross-multiplication is transitive: with l keys on
   h working upstreams, la/ha <= lb/hb and lb/hb <= lc/hc give la/ha <= lc/hc,
   strictly so when either is strict. *)
LEMMA PressureOrder ==
  ASSUME NEW la \in Nat, NEW lb \in Nat, NEW lc \in Nat,
         NEW ha \in Nat \ {0}, NEW hb \in Nat \ {0}, NEW hc \in Nat \ {0},
         la * hb <= lb * ha, lb * hc <= lc * hb
  PROVE  /\ la * hc <= lc * ha
         /\ la * hb < lb * ha \/ lb * hc < lc * hb => la * hc < lc * ha
<1>1. /\ la * hb \in Nat /\ lb * ha \in Nat /\ lb * hc \in Nat /\ lc * hb \in Nat
      /\ la * hc \in Nat /\ lc * ha \in Nat
  OBVIOUS
<1>2. /\ (la * hb) * hc = hb * (la * hc)
      /\ (lb * ha) * hc = (lb * hc) * ha
      /\ (lc * hb) * ha = hb * (lc * ha)
  OBVIOUS
<1>3. /\ (la * hb) * hc <= (lb * ha) * hc
      /\ la * hb < lb * ha => (la * hb) * hc < (lb * ha) * hc
  BY <1>1, ScaleFactor
<1>4. /\ (lb * hc) * ha <= (lc * hb) * ha
      /\ lb * hc < lc * hb => (lb * hc) * ha < (lc * hb) * ha
  BY <1>1, ScaleFactor
<1> DEFINE p == la * hc
           q == lc * ha
           x == (la * hb) * hc
           y == (lb * ha) * hc
           z == (lc * hb) * ha
<1>5. x \in Nat /\ y \in Nat /\ z \in Nat
  OBVIOUS
<1>6. hb * p <= hb * q /\ (la * hb < lb * ha \/ lb * hc < lc * hb => hb * p < hb * q)
  <2>1. x <= y /\ y <= z
    BY <1>2, <1>3, <1>4
  <2>2. (la * hb < lb * ha => x < y) /\ (lb * hc < lc * hb => y < z)
    BY <1>2, <1>3, <1>4
  <2>3. hb * p = x /\ hb * q = z
    BY <1>2
  <2> HIDE DEF x, y, z, p, q
  <2> QED
    BY <2>1, <2>2, <2>3, <1>5
<1>7. p \in Nat /\ q \in Nat
  OBVIOUS
<1> HIDE DEF p, q
<1>8. p <= q /\ (la * hb < lb * ha \/ lb * hc < lc * hb => p < q)
  BY <1>6, <1>7, CancelFactor
<1> QED
  BY <1>8 DEF p, q

(* The recount of a finite set of keys has a natural number per account. *)
LEMMA ReindexedType ==
  ASSUME NEW K \in SUBSET Key, NEW b
  PROVE  /\ Reindexed(K, b) \in [Account -> Nat]
         /\ \A a : IsFiniteSet(BoundKeys(K, b, a))
<1>1. IsFiniteSet(K)
  BY FS_Subset, IdsAssumption
<1>2. ASSUME NEW a
      PROVE  IsFiniteSet(BoundKeys(K, b, a))
  BY <1>1, FS_Subset DEF BoundKeys
<1>3. ASSUME NEW a \in Account
      PROVE  Cardinality(BoundKeys(K, b, a)) \in Nat
  BY <1>2, FS_CardinalityType
<1> QED
  BY <1>2, <1>3 DEF Reindexed

(* Unbinding key k: detachKeyAccount leaves the index a recount would give,
   and its guard against going below zero never bites. *)
LEMMA DetachIsRecount ==
  ASSUME NEW K \in SUBSET Key, NEW b \in [Key -> Account \cup {None}], NEW k \in K
  PROVE  Reindexed(K, [b EXCEPT ![k] = None]) = Detach(Reindexed(K, b), b[k])
<1> DEFINE c == [b EXCEPT ![k] = None]
<1> DEFINE old == Reindexed(K, b)
<1>1. old \in [Account -> Nat] /\ \A a : IsFiniteSet(BoundKeys(K, b, a))
  BY ReindexedType
<1>2. \A a \in Account : BoundKeys(K, c, a) = BoundKeys(K, b, a) \ {k}
  BY IdsAssumption DEF BoundKeys
<1>3. ASSUME NEW a \in Account
      PROVE  Cardinality(BoundKeys(K, c, a)) = IF a = b[k] THEN old[a] - 1 ELSE old[a]
  <2>1. Cardinality(BoundKeys(K, b, a) \ {k}) =
          IF k \in BoundKeys(K, b, a) THEN Cardinality(BoundKeys(K, b, a)) - 1
                                      ELSE Cardinality(BoundKeys(K, b, a))
    BY <1>1, FS_RemoveElement
  <2>2. k \in BoundKeys(K, b, a) <=> a = b[k]
    BY DEF BoundKeys
  <2>3. old[a] = Cardinality(BoundKeys(K, b, a))
    BY DEF Reindexed
  <2> QED
    BY <2>1, <2>2, <2>3, <1>2
<1>4. b[k] # None => old[b[k]] > 0
  <2> SUFFICES ASSUME b[k] # None PROVE old[b[k]] > 0
    OBVIOUS
  <2>1. b[k] \in Account /\ k \in BoundKeys(K, b, b[k])
    BY DEF BoundKeys
  <2>2. Cardinality(BoundKeys(K, b, b[k])) # 0
    BY <2>1, <1>1, FS_EmptySet
  <2> QED
    BY <2>1, <2>2, <1>1 DEF Reindexed
<1>5. Reindexed(K, c) = [a \in Account |-> IF a = b[k] THEN old[a] - 1 ELSE old[a]]
  BY <1>3 DEF Reindexed
<1>6. CASE b[k] = None
  <2>1. Reindexed(K, c) = [a \in Account |-> old[a]]
    BY <1>5, <1>6, IdsAssumption
  <2> QED
    BY <2>1, <1>1, <1>6 DEF Detach
<1>7. CASE b[k] # None
  <2>1. Detach(old, b[k]) = [old EXCEPT ![b[k]] = old[b[k]] - 1]
    BY <1>4, <1>7 DEF Detach
  <2>2. Detach(old, b[k]) = [a \in Account |-> IF a = b[k] THEN old[a] - 1 ELSE old[a]]
    BY <2>1, <1>1
  <2> QED
    BY <2>2, <1>5
<1> QED
  BY <1>6, <1>7

(* Binding an unbound key k to account a: incrementing the index is what a
   recount would do. *)
LEMMA AttachIsRecount ==
  ASSUME NEW K \in SUBSET Key, NEW b \in [Key -> Account \cup {None}],
         NEW k \in K, NEW a \in Account, b[k] = None
  PROVE  Reindexed(K, [b EXCEPT ![k] = a]) = Attach(Reindexed(K, b), a)
<1> DEFINE c == [b EXCEPT ![k] = a]
<1> DEFINE old == Reindexed(K, b)
<1>1. old \in [Account -> Nat] /\ \A x : IsFiniteSet(BoundKeys(K, b, x))
  BY ReindexedType
<1>2. ASSUME NEW x \in Account
      PROVE  Cardinality(BoundKeys(K, c, x)) = IF x = a THEN old[x] + 1 ELSE old[x]
  <2>1. old[x] = Cardinality(BoundKeys(K, b, x))
    BY DEF Reindexed
  <2>2. k \notin BoundKeys(K, b, x)
    BY IdsAssumption DEF BoundKeys
  <2>3. CASE x = a
    <3>1. BoundKeys(K, c, x) = BoundKeys(K, b, x) \cup {k}
      BY <2>3 DEF BoundKeys
    <3>2. IsFiniteSet(BoundKeys(K, b, x))
      BY <1>1
    <3>3. Cardinality(BoundKeys(K, b, x) \cup {k}) = Cardinality(BoundKeys(K, b, x)) + 1
      BY <3>2, <2>2, FS_AddElement
    <3> QED
      BY <3>1, <3>3, <2>1, <2>3
  <2>4. CASE x # a
    <3>1. BoundKeys(K, c, x) = BoundKeys(K, b, x)
      BY <2>4, <2>2 DEF BoundKeys
    <3> QED
      BY <3>1, <2>1, <2>4
  <2> QED
    BY <2>3, <2>4
<1>3. Reindexed(K, c) = [x \in Account |-> IF x = a THEN old[x] + 1 ELSE old[x]]
  BY <1>2 DEF Reindexed
<1> QED
  BY <1>1, <1>3 DEF Attach

(* detachKeyAccount leaves a natural number per account. *)
LEMMA DetachType ==
  ASSUME NEW ld \in [Account -> Nat], NEW a \in Account \cup {None}
  PROVE  Detach(ld, a) \in [Account -> Nat]
<1>1. CASE a # None /\ ld[a] > 0
  <2>1. a \in Account /\ ld[a] - 1 \in Nat
    BY <1>1
  <2> QED
    BY <1>1, <2>1 DEF Detach
<1>2. CASE ~(a # None /\ ld[a] > 0)
  BY <1>2 DEF Detach
<1> QED
  BY <1>1, <1>2

(* What the allocator hands out is an existing account. *)
LEMMA ServedExists ==
  ASSUME TypeOK, NEW k \in keys, NEW m, NEW barred, NEW a \in Served(k, m, barred)
  PROVE  a \in accounts /\ a \in Account
<1>1. Pool(keyGroup[k], m, barred) \subseteq accounts
  BY DEF Pool, UsableAccounts
<1>2. a \in accounts
  <2>1. CASE Sticky(k, m, barred)
    BY <2>1 DEF Served, Sticky, SameGroup
  <2>2. CASE ~Sticky(k, m, barred)
    BY <2>2, <1>1 DEF Served
  <2> QED
    BY <2>1, <2>2
<1> QED
  BY <1>2 DEF TypeOK

(* A request that rebinds keeps the types: the index stays natural. *)
LEMMA RebindType ==
  ASSUME TypeOK, NEW k \in keys, NEW m, NEW barred, Rebind(k, m, barred)
  PROVE  TypeOK'
<1>1. k \in Key /\ binding \in [Key -> Account \cup {None}] /\ load \in [Account -> Nat]
  BY DEF TypeOK
<1> DEFINE freed == Detach(load, binding[k])
<1>2. freed \in [Account -> Nat]
  BY <1>1, DetachType
<1>3. load' \in [Account -> Nat] /\ binding' \in [Key -> Account \cup {None}]
  <2>1. CASE /\ binding' = [binding EXCEPT ![k] = None]
             /\ load' = freed
    BY <2>1, <1>1, <1>2
  <2>2. ASSUME NEW a \in Served(k, m, barred),
               binding' = [binding EXCEPT ![k] = a],
               load' = Attach(freed, a)
        PROVE  load' \in [Account -> Nat] /\ binding' \in [Key -> Account \cup {None}]
    <3>1. a \in Account
      BY ServedExists
    <3> HIDE DEF freed
    <3>2. Attach(freed, a) \in [Account -> Nat]
      BY <1>2, <3>1 DEF Attach
    <3> QED
      BY <2>2, <3>1, <3>2, <1>1
  <2> QED
    BY <2>1, <2>2 DEF Rebind
<1>4. UNCHANGED <<groupVars, accountVars, keys, keyGroup>>
  BY DEF Rebind
<1> QED
  BY <1>3, <1>4 DEF TypeOK, groupVars, accountVars

(* Every step keeps the types. *)
LEMMA TypeStep ==
  ASSUME TypeOK, [Next]_vars
  PROVE  TypeOK'
<1> USE DEF TypeOK
<1>1. CASE UNCHANGED vars
  BY <1>1 DEF vars
<1>2. ASSUME NEW k \in Key, NEW m \in Model \cup {AnyModel}, NEW barred \in SUBSET Limited,
             AssignAccount(k, m, barred)
      PROVE  TypeOK'
  <2>1. CASE KeepBinding(k, m, barred)
    BY <2>1 DEF KeepBinding, vars
  <2>2. CASE Rebind(k, m, barred)
    BY <1>2, <2>2, RebindType DEF AssignAccount
  <2> QED
    BY <1>2, <2>1, <2>2 DEF AssignAccount
<1>3. ASSUME NEW ks \in SUBSET Key, NEW g \in KnownGroups \cup {None},
             NEW t \in KnownAccounts \cup {None}, CreateKeys(ks, g, t)
      PROVE  TypeOK'
  <2>1. keys' \subseteq Key
    BY <1>3 DEF CreateKeys
  <2>2. keyGroup' \in [Key -> Group \cup {None}]
    BY <1>3 DEF CreateKeys, KnownGroups
  <2>3. binding' \in [Key -> Account \cup {None}]
    <3>1. PICK b \in [ks -> Account \cup {None}] :
            binding' = [k \in Key |-> IF k \in ks THEN b[k] ELSE binding[k]]
      BY <1>3 DEF CreateKeys
    <3> QED
      BY <3>1
  <2>4. load' \in [Account -> Nat]
    BY <1>3, <2>1, ReindexedType DEF CreateKeys
  <2>5. UNCHANGED <<groupVars, accountVars>>
    BY <1>3 DEF CreateKeys
  <2> QED
    BY <2>1, <2>2, <2>3, <2>4, <2>5 DEF groupVars, accountVars
<1>4. ASSUME NEW k \in Key, NEW g \in KnownGroups \cup {keyGroup[k]},
             NEW a \in KnownAccounts \cup {binding[k]}, PatchKey(k, g, a)
      PROVE  TypeOK'
  <2>1. g \in Group \cup {None} /\ a \in Account \cup {None}
    BY DEF KnownGroups, KnownAccounts
  <2>2. load' \in [Account -> Nat]
    BY <1>4, ReindexedType DEF PatchKey
  <2> QED
    BY <1>4, <2>1, <2>2 DEF PatchKey, groupVars, accountVars
<1>5. ASSUME NEW ks \in SUBSET Key, RemoveKeys(ks)
      PROVE  TypeOK'
  <2>1. keys' \subseteq Key
    BY <1>5 DEF RemoveKeys
  <2>2. load' \in [Account -> Nat]
    BY <1>5, <2>1, ReindexedType DEF RemoveKeys
  <2> QED
    BY <1>5, <2>1, <2>2 DEF RemoveKeys, groupVars, accountVars
<1>6. ASSUME NEW a \in Account, NEW u \in BOOLEAN, NEW bal \in BalancesOf(a),
             CreateAccount(a, u, bal)
      PROVE  TypeOK'
  <2>1. load' \in [Account -> Nat]
    BY <1>6, ReindexedType DEF CreateAccount
  <2>2. bal \in Balances /\ Providers[a] \in Nat
    BY ConfigAssumption DEF BalancesOf
  <2>3. accounts' \subseteq Account /\ goneAccounts' \subseteq Account \ accounts'
    BY <1>6 DEF CreateAccount, KnownAccounts
  <2>4. /\ usable' \in [Account -> BOOLEAN]
        /\ balance' \in [Account -> Balances]
        /\ up' \in [Account -> Nat]
        /\ \A x \in Account : up'[x] <= Providers[x]
    BY <1>6, <2>2 DEF CreateAccount
  <2> QED
    BY <1>6, <2>1, <2>3, <2>4 DEF CreateAccount, groupVars
<1>7. ASSUME NEW dropped \in SUBSET Account, RemoveAccounts(dropped)
      PROVE  TypeOK'
  <2>1. binding' \in [Key -> Account \cup {None}]
    BY <1>7 DEF RemoveAccounts, Unbound
  <2>2. load' \in [Account -> Nat]
    BY <1>7, ReindexedType DEF RemoveAccounts
  <2>3. up' \in [Account -> Nat] /\ \A x \in Account : up'[x] <= Providers[x]
    <3>1. up' = [a \in Account |-> IF a \in dropped THEN 0 ELSE up[a]]
      BY <1>7 DEF RemoveAccounts
    <3> QED
      BY <3>1, ConfigAssumption
  <2>4. accounts' \subseteq Account /\ goneAccounts' \subseteq Account \ accounts'
    BY <1>7 DEF RemoveAccounts
  <2> QED
    BY <1>7, <2>1, <2>2, <2>3, <2>4 DEF RemoveAccounts, groupVars
<1>8. ASSUME NEW g \in Group, NEW on \in BOOLEAN, CreateGroup(g, on) \/ EnableGroup(g, on)
      PROVE  TypeOK'
  <2>1. load' \in [Account -> Nat]
    BY <1>8, ReindexedType DEF CreateGroup, EnableGroup
  <2>2. CASE CreateGroup(g, on)
    BY <2>1, <2>2 DEF CreateGroup, KnownGroups, accountVars
  <2>3. CASE EnableGroup(g, on)
    BY <2>1, <2>3 DEF EnableGroup, accountVars
  <2> QED
    BY <1>8, <2>2, <2>3
<1>9. ASSUME NEW g \in Group, RemoveGroup(g)
      PROVE  TypeOK'
  <2> DEFINE dropped == {a \in accounts : AccountGroup[a] = g}
  <2>1. binding' \in [Key -> Account \cup {None}] /\ keyGroup' \in [Key -> Group \cup {None}]
    BY <1>9 DEF RemoveGroup, Unbound
  <2>2. load' \in [Account -> Nat]
    BY <1>9, ReindexedType DEF RemoveGroup
  <2>3. up' \in [Account -> Nat] /\ \A x \in Account : up'[x] <= Providers[x]
    BY <1>9, ConfigAssumption DEF RemoveGroup
  <2>4. accounts' \subseteq Account /\ goneAccounts' \subseteq Account \ accounts'
    <3>1. accounts' = accounts \ dropped /\ goneAccounts' = goneAccounts \cup dropped
      BY <1>9 DEF RemoveGroup
    <3> QED
      BY <3>1
  <2>5. /\ groups' \subseteq Group
        /\ enabledGroups' \subseteq groups'
        /\ goneGroups' \subseteq Group \ groups'
    BY <1>9 DEF RemoveGroup
  <2>6. usable' \in [Account -> BOOLEAN] /\ UNCHANGED <<balance, keys>>
    BY <1>9 DEF RemoveGroup
  <2> QED
    BY <2>1, <2>2, <2>3, <2>4, <2>5, <2>6
<1>10. ASSUME NEW a \in Account, NEW u \in BOOLEAN, NEW bal \in BalancesOf(a),
              AccountChanges(a, u, bal)
       PROVE  TypeOK'
  <2>1. bal \in Balances
    BY DEF BalancesOf
  <2> QED
    BY <1>10, <2>1 DEF AccountChanges, groupVars, keyVars
<1>11. ASSUME NEW a \in Account, ProviderChanges(a)
       PROVE  TypeOK'
  <2>1. PICK n \in 0..Providers[a] : up' = [up EXCEPT ![a] = n]
    BY <1>11 DEF ProviderChanges
  <2>2. n \in Nat /\ n <= Providers[a]
    BY ConfigAssumption
  <2> QED
    BY <1>11, <2>1, <2>2 DEF ProviderChanges, groupVars, keyVars
<1> QED
  BY <1>1, <1>2, <1>3, <1>4, <1>5, <1>6, <1>7, <1>8, <1>9, <1>10, <1>11 DEF Next

(* Type correctness: in particular the load index never goes negative and no
   account shows more working upstreams than it was created with. *)
THEOREM Typed == Spec => []TypeOK
<1>1. Init => TypeOK
  BY ConfigAssumption DEF Init, TypeOK
<1>2. TypeOK /\ [Next]_vars => TypeOK'
  BY TypeStep
<1> QED
  BY <1>1, <1>2, PTL DEF Spec

(* The index is exact after every step: a recount by definition after an
   Update, and by the two lemmas after the request path's detach and attach. *)
LEMMA LoadIndexStep ==
  ASSUME TypeOK, LoadIndexExact, [Next]_vars
  PROVE  LoadIndexExact'
<1> USE DEF LoadIndexExact
<1>1. CASE UNCHANGED vars
  BY <1>1 DEF vars
<1>2. ASSUME NEW k \in Key, NEW m \in Model \cup {AnyModel}, NEW barred \in SUBSET Limited,
             AssignAccount(k, m, barred)
      PROVE  LoadIndexExact'
  <2>1. CASE KeepBinding(k, m, barred)
    BY <2>1 DEF KeepBinding, vars
  <2>2. CASE Rebind(k, m, barred)
    <3> DEFINE freed == Detach(load, binding[k])
    <3> DEFINE unbound == [binding EXCEPT ![k] = None]
    <3>1. k \in keys /\ keys \in SUBSET Key /\ binding \in [Key -> Account \cup {None}]
      BY <1>2 DEF AssignAccount, TypeOK
    <3>2. freed = Reindexed(keys, unbound)
      BY <3>1, DetachIsRecount
    <3>3. keys' = keys
      BY <2>2 DEF Rebind
    <3>4. CASE binding' = unbound /\ load' = freed
      BY <3>2, <3>3, <3>4
    <3>5. ASSUME NEW a \in Served(k, m, barred),
                 binding' = [binding EXCEPT ![k] = a],
                 load' = Attach(freed, a)
          PROVE  load' = Reindexed(keys', binding')
      <4>1. a \in Account
        BY <3>1, ServedExists
      <4>2. /\ unbound \in [Key -> Account \cup {None}]
            /\ unbound[k] = None
            /\ binding' = [unbound EXCEPT ![k] = a]
        BY <3>1, <3>5
      <4> HIDE DEF unbound, freed
      <4>3. Reindexed(keys, [unbound EXCEPT ![k] = a]) = Attach(Reindexed(keys, unbound), a)
        BY <3>1, <4>1, <4>2, AttachIsRecount
      <4> QED
        BY <3>2, <3>3, <3>5, <4>2, <4>3
    <3> QED
      BY <2>2, <3>4, <3>5 DEF Rebind
  <2> QED
    BY <1>2, <2>1, <2>2 DEF AssignAccount
<1>3. ASSUME NEW ks \in SUBSET Key, NEW g, NEW t, CreateKeys(ks, g, t)
      PROVE  LoadIndexExact'
  BY <1>3 DEF CreateKeys
<1>4. ASSUME NEW k \in Key, NEW g, NEW a, PatchKey(k, g, a)
      PROVE  LoadIndexExact'
  BY <1>4 DEF PatchKey
<1>5. ASSUME NEW ks \in SUBSET Key, RemoveKeys(ks)
      PROVE  LoadIndexExact'
  BY <1>5 DEF RemoveKeys
<1>6. ASSUME NEW a \in Account, NEW u, NEW bal, CreateAccount(a, u, bal)
      PROVE  LoadIndexExact'
  BY <1>6 DEF CreateAccount
<1>7. ASSUME NEW dropped \in SUBSET Account, RemoveAccounts(dropped)
      PROVE  LoadIndexExact'
  BY <1>7 DEF RemoveAccounts
<1>8. ASSUME NEW g \in Group, NEW on \in BOOLEAN, CreateGroup(g, on) \/ EnableGroup(g, on)
      PROVE  LoadIndexExact'
  BY <1>8 DEF CreateGroup, EnableGroup
<1>9. ASSUME NEW g \in Group, RemoveGroup(g)
      PROVE  LoadIndexExact'
  BY <1>9 DEF RemoveGroup
<1>10. ASSUME NEW a \in Account, NEW u, NEW bal, AccountChanges(a, u, bal)
       PROVE  LoadIndexExact'
  BY <1>10 DEF AccountChanges, keyVars
<1>11. ASSUME NEW a \in Account, ProviderChanges(a)
       PROVE  LoadIndexExact'
  BY <1>11 DEF ProviderChanges, keyVars
<1> QED
  BY <1>1, <1>2, <1>3, <1>4, <1>5, <1>6, <1>7, <1>8, <1>9, <1>10, <1>11 DEF Next

(* The load index is the recount of the bindings in every reachable state. *)
THEOREM LoadIndexIsExact == Spec => []LoadIndexExact
<1>1. Init => LoadIndexExact
  <2> SUFFICES ASSUME Init PROVE LoadIndexExact
    OBVIOUS
  <2>1. ASSUME NEW a \in Account
        PROVE  Cardinality(BoundKeys(keys, binding, a)) = 0
    <3>1. BoundKeys(keys, binding, a) = {}
      BY DEF Init, BoundKeys
    <3> QED
      BY <3>1, FS_EmptySet
  <2> QED
    BY <2>1 DEF Init, LoadIndexExact, Reindexed
<1>2. TypeOK /\ LoadIndexExact /\ [Next]_vars => LoadIndexExact'
  BY LoadIndexStep
<1> QED
  BY <1>1, <1>2, Typed, PTL DEF Spec

(* No request step moves a key off a healthy binding.  An unbarred healthy
   account always stands in the pool of a request for any model, so the code
   only reaches detachKeyAccount when the account is out of order. *)
THEOREM HealthyBindingsAreKept == Spec => HealthyBindingsStay
<1>1. ASSUME TypeOK, NEW k \in keys, NEW m \in Model \cup {AnyModel},
             NEW barred \in SUBSET Limited, HealthyBinding(k), AssignAccount(k, m, barred)
      PROVE  binding'[k] = binding[k]
  <2>1. CASE KeepBinding(k, m, barred)
    BY <2>1 DEF KeepBinding, vars
  <2>2. CASE Rebind(k, m, barred)
    <3>1. m = AnyModel /\ binding[k] \notin barred /\ ~Sticky(k, m, barred)
      BY <1>1, <2>2 DEF Rebind, Borrows
    <3>2. binding[k] \in UsableAccounts(keyGroup[k], m, barred)
      BY <1>1, <3>1 DEF UsableAccounts, HealthyBinding, SameGroup, Healthy, Accepts
    <3>3. \A a \in accounts : ~AccountDeclaresModel(a, m)
      BY <1>1, <3>1, IdsAssumption, ConfigAssumption DEF AccountDeclaresModel, TypeOK
    <3>4. binding[k] \in Pool(keyGroup[k], m, barred)
      BY <3>2, <3>3 DEF Pool, UsableAccounts
    <3>5. Sticky(k, m, barred)
      BY <1>1, <3>4 DEF Sticky, HealthyBinding
    <3> QED
      BY <3>1, <3>5
  <2> QED
    BY <1>1, <2>1, <2>2 DEF AssignAccount
<1>2. TypeOK =>
        [\A k \in keys :
           HealthyBinding(k) /\ binding'[k] # binding[k] =>
             \A m \in Model \cup {AnyModel}, barred \in SUBSET Limited :
               ~AssignAccount(k, m, barred)]_vars
  BY <1>1
<1> QED
  BY <1>2, Typed, PTL DEF Spec, HealthyBindingsStay

(* Removing an account or a group leaves no binding, no account and no key
   that still refers to it. *)
THEOREM RemovalsCascade == Spec => RemovalCascades
<1> DEFINE Clean ==
      /\ \A a \in accounts \ accounts' : \A k \in Key : binding'[k] # a
      /\ \A g \in groups \ groups' :
           /\ \A a \in accounts' : AccountGroup[a] # g
           /\ \A k \in Key : keyGroup'[k] # g
<1>1. ASSUME TypeOK, Next
      PROVE  Clean
  <2>1. CASE UNCHANGED <<accounts, groups>>
    BY <2>1
  <2>2. ASSUME NEW dropped \in SUBSET Account, RemoveAccounts(dropped)
        PROVE  Clean
    <3>1. accounts \ accounts' = dropped /\ groups' = groups /\ None \notin dropped
      BY <2>2, IdsAssumption DEF RemoveAccounts, groupVars
    <3>2. \A k \in Key : binding'[k] = IF binding[k] \in dropped THEN None ELSE binding[k]
      BY <2>2 DEF RemoveAccounts, Unbound
    <3> QED
      BY <3>1, <3>2
  <2>3. ASSUME NEW g \in Group, RemoveGroup(g)
        PROVE  Clean
    <3> DEFINE dropped == {a \in accounts : AccountGroup[a] = g}
    <3>1. accounts' = accounts \ dropped /\ groups' = groups \ {g} /\ None \notin dropped /\ None # g
      BY <1>1, <2>3, IdsAssumption DEF RemoveGroup, TypeOK
    <3>2. \A k \in Key : binding'[k] = IF binding[k] \in dropped THEN None ELSE binding[k]
      BY <2>3 DEF RemoveGroup, Unbound
    <3>3. \A k \in Key : keyGroup'[k] = IF keyGroup[k] = g THEN None ELSE keyGroup[k]
      BY <2>3 DEF RemoveGroup
    <3> QED
      BY <3>1, <3>2, <3>3
  <2>4. ASSUME NEW k \in Key, NEW m, NEW barred, AssignAccount(k, m, barred)
        PROVE  UNCHANGED <<accounts, groups>>
    BY <2>4 DEF AssignAccount, KeepBinding, Rebind, vars, accountVars, groupVars
  <2>5. ASSUME NEW a \in Account, NEW u, NEW bal, CreateAccount(a, u, bal)
        PROVE  Clean
    BY <2>5 DEF CreateAccount, groupVars
  <2>6. ASSUME NEW g \in Group, NEW on \in BOOLEAN, CreateGroup(g, on) \/ EnableGroup(g, on)
        PROVE  Clean
    BY <2>6 DEF CreateGroup, EnableGroup, accountVars
  <2>7. ASSUME NEW ks, NEW g, NEW t,
               CreateKeys(ks, g, t) \/ PatchKey(ks, g, t) \/ RemoveKeys(ks)
        PROVE  UNCHANGED <<accounts, groups>>
    BY <2>7 DEF CreateKeys, PatchKey, RemoveKeys, accountVars, groupVars
  <2>8. ASSUME NEW a \in Account, NEW u, NEW bal,
               AccountChanges(a, u, bal) \/ ProviderChanges(a)
        PROVE  UNCHANGED <<accounts, groups>>
    BY <2>8 DEF AccountChanges, ProviderChanges, groupVars
  <2> HIDE DEF Clean
  <2> QED
    BY <1>1, <2>1, <2>2, <2>3, <2>4, <2>5, <2>6, <2>7, <2>8 DEF Next
<1>2. TypeOK /\ [Next]_vars => [Clean]_vars
  BY <1>1
<1> QED
  BY <1>2, Typed, PTL DEF Spec, RemovalCascades

(* The comparator of sortAccountPool is transitive on accounts with a working
   upstream; sort.SliceStable promises nothing otherwise. *)
LEMMA PrecedesTransitive ==
  ASSUME TypeOK, NEW m, NEW ld \in [Account -> Nat],
         NEW a \in Account, NEW b \in Account, NEW c \in Account,
         Healthy(a, m) > 0, Healthy(b, m) > 0, Healthy(c, m) > 0,
         Precedes(a, b, m, ld), Precedes(b, c, m, ld)
  PROVE  Precedes(a, c, m, ld)
<1> DEFINE ha == Healthy(a, m)
           hb == Healthy(b, m)
           hc == Healthy(c, m)
           la == ld[a]
           lb == ld[b]
           lc == ld[c]
           ab == la * hb < lb * ha
           bc == lb * hc < lc * hb
           ac == la * hc < lc * ha
<1>1. /\ ha \in Nat \ {0} /\ hb \in Nat \ {0} /\ hc \in Nat \ {0}
      /\ la \in Nat /\ lb \in Nat /\ lc \in Nat
  BY DEF TypeOK, Healthy
<1> DEFINE After(x, y) ==
      \/ ld[x] < ld[y]
      \/ /\ ld[x] = ld[y]
         /\ \/ x \in Unlimited /\ y \notin Unlimited
            \/ /\ x \in Unlimited <=> y \in Unlimited
               /\ balance[x] > balance[y] \/ (balance[x] = balance[y] /\ x < y)
<1>2. /\ ab \/ (la * hb = lb * ha /\ After(a, b))
      /\ bc \/ (lb * hc = lc * hb /\ After(b, c))
  BY DEF Precedes
<1>3. ac \/ (la * hc = lc * ha /\ After(a, c)) => Precedes(a, c, m, ld)
  BY DEF Precedes
<1>4. After(a, b) /\ After(b, c) => After(a, c)
  <2>1. /\ a \in Nat /\ b \in Nat /\ c \in Nat
        /\ balance[a] \in Nat /\ balance[b] \in Nat /\ balance[c] \in Nat
    BY IdsAssumption, ConfigAssumption DEF TypeOK
  <2> QED
    BY <1>1, <2>1
<1> HIDE DEF ha, hb, hc, la, lb, lc, After
<1>5. /\ la * hb \in Nat /\ lb * ha \in Nat /\ lb * hc \in Nat /\ lc * hb \in Nat
      /\ la * hc \in Nat /\ lc * ha \in Nat
  BY <1>1
<1>6. /\ la * hb <= lb * ha /\ lb * hc <= lc * hb
  BY <1>2, <1>5
<1>7. la * hc <= lc * ha /\ (ab \/ bc => ac)
  BY <1>1, <1>6, PressureOrder
<1> QED
  BY <1>2, <1>3, <1>4, <1>5, <1>7

(* Of two accounts the comparator puts exactly one first: it leaves no tie. *)
LEMMA PrecedesDecides ==
  ASSUME TypeOK, NEW m, NEW ld \in [Account -> Nat], NEW a \in Account, NEW b \in Account
  PROVE  /\ Precedes(a, b, m, ld) => ~Precedes(b, a, m, ld)
         /\ a # b => Precedes(a, b, m, ld) \/ Precedes(b, a, m, ld)
<1> DEFINE left == ld[a] * Healthy(b, m)
           right == ld[b] * Healthy(a, m)
<1>1. /\ a \in Nat /\ b \in Nat /\ ld[a] \in Nat /\ ld[b] \in Nat
      /\ balance[a] \in Nat /\ balance[b] \in Nat
  BY IdsAssumption, ConfigAssumption DEF TypeOK
<1>2. left \in Nat /\ right \in Nat
  BY <1>1 DEF TypeOK, Healthy
<1>3. Precedes(a, b, m, ld) <=>
        \/ left < right
        \/ left = right /\ ld[a] < ld[b]
        \/ /\ left = right /\ ld[a] = ld[b]
           /\ \/ a \in Unlimited /\ b \notin Unlimited
              \/ /\ a \in Unlimited <=> b \in Unlimited
                 /\ balance[a] > balance[b] \/ (balance[a] = balance[b] /\ a < b)
  BY DEF Precedes
<1>4. Precedes(b, a, m, ld) <=>
        \/ right < left
        \/ right = left /\ ld[b] < ld[a]
        \/ /\ right = left /\ ld[b] = ld[a]
           /\ \/ b \in Unlimited /\ a \notin Unlimited
              \/ /\ b \in Unlimited <=> a \in Unlimited
                 /\ balance[b] > balance[a] \/ (balance[b] = balance[a] /\ b < a)
  BY DEF Precedes
<1> HIDE DEF left, right
<1> QED
  BY <1>1, <1>2, <1>3, <1>4

(* A pool that is not empty has exactly one account to pick. *)
LEMMA PickExists ==
  ASSUME TypeOK, NEW m, NEW ld \in [Account -> Nat], NEW pool \in SUBSET accounts,
         \A a \in pool : Healthy(a, m) > 0, pool # {}
  PROVE  \E a \in pool : {x \in pool : IsPick(x, pool, m, ld)} = {a}
<1> DEFINE R == {p \in pool \X pool : Precedes(p[1], p[2], m, ld)}
<1>1. IsFiniteSet(pool) /\ pool \subseteq Account /\ pool \subseteq Nat
  BY FS_Subset, IdsAssumption DEF TypeOK
<1>2. \A a, b \in pool : <<a, b>> \in R <=> Precedes(a, b, m, ld)
  OBVIOUS
<1>4. \A a, b \in pool : Precedes(a, b, m, ld) => ~Precedes(b, a, m, ld)
  BY <1>1, PrecedesDecides
<1>5. \A a, b, c \in pool :
         Precedes(a, b, m, ld) /\ Precedes(b, c, m, ld) => Precedes(a, c, m, ld)
  BY <1>1, PrecedesTransitive
<1>6. \A a, b \in pool : a # b => Precedes(a, b, m, ld) \/ Precedes(b, a, m, ld)
  BY <1>1, PrecedesDecides
<1> HIDE DEF R
<1>7. PICK a \in pool : \A b \in pool \ {a} : <<a, b>> \in R
  <2>1. \A x \in pool : <<x, x>> \notin R
    BY <1>2, <1>4
  <2>2. \A x, y, z \in pool : <<x, y>> \in R /\ <<y, z>> \in R => <<x, z>> \in R
    BY <1>2, <1>5
  <2>3. \A x, y \in pool : x # y => <<x, y>> \in R \/ <<y, x>> \in R
    BY <1>2, <1>6
  <2> QED
    BY <1>1, <2>1, <2>2, <2>3, FirstOfOrder
<1>8. IsPick(a, pool, m, ld)
  BY <1>2, <1>7 DEF IsPick
<1>9. ASSUME NEW x \in pool, IsPick(x, pool, m, ld)
      PROVE  x = a
  BY <1>4, <1>8, <1>9 DEF IsPick
<1> QED
  BY <1>8, <1>9

(* Every request gets exactly one account, an eligible one, unless there is
   none: the comparator is a strict total order on any pool. *)
THEOREM AssignmentIsDecided == Spec => []AssignmentDecided
<1>1. ASSUME TypeOK, NEW k \in keys, NEW m \in Model \cup {AnyModel},
             NEW barred \in SUBSET Limited
      PROVE  /\ Served(k, m, barred) \subseteq UsableAccounts(keyGroup[k], m, barred)
             /\ Cardinality(Served(k, m, barred)) =
                  IF UsableAccounts(keyGroup[k], m, barred) = {} THEN 0 ELSE 1
  <2> DEFINE eligible == UsableAccounts(keyGroup[k], m, barred)
             pool == Pool(keyGroup[k], m, barred)
  <2>1. pool \subseteq eligible /\ (pool = {} <=> eligible = {})
    BY DEF Pool
  <2>2. eligible \subseteq accounts /\ \A a \in eligible : Healthy(a, m) > 0
    BY DEF UsableAccounts
  <2> HIDE DEF eligible, pool
  <2>3. CASE Sticky(k, m, barred)
    <3>1. Served(k, m, barred) = {binding[k]} /\ binding[k] \in pool
      BY <2>3 DEF Served, Sticky, pool
    <3>2. Cardinality({binding[k]}) = 1
      BY FS_Singleton
    <3> QED
      BY <2>1, <3>1, <3>2 DEF eligible
  <2>4. CASE ~Sticky(k, m, barred)
    <3> DEFINE ld == IF Borrows(k, m, barred) THEN load ELSE Detach(load, binding[k])
    <3>1. ld \in [Account -> Nat]
      <4>1. load \in [Account -> Nat] /\ binding[k] \in Account \cup {None}
        BY <1>1 DEF TypeOK
      <4>2. Detach(load, binding[k]) \in [Account -> Nat]
        BY <4>1, DetachType
      <4> QED
        BY <4>1, <4>2
    <3>2. Served(k, m, barred) = {a \in pool : IsPick(a, pool, m, ld)}
      BY <2>4 DEF Served, pool
    <3> HIDE DEF ld
    <3>3. CASE pool = {}
      <4>1. Served(k, m, barred) = {}
        BY <3>2, <3>3
      <4> QED
        BY <2>1, <3>3, <4>1, FS_EmptySet DEF eligible
    <3>4. CASE pool # {}
      <4>1. pool \in SUBSET accounts /\ \A a \in pool : Healthy(a, m) > 0
        BY <2>1, <2>2
      <4>2. PICK a \in pool : {x \in pool : IsPick(x, pool, m, ld)} = {a}
        BY <1>1, <3>1, <3>4, <4>1, PickExists
      <4>3. Cardinality({a}) = 1
        BY FS_Singleton
      <4> QED
        BY <2>1, <3>2, <3>4, <4>2, <4>3 DEF eligible
    <3> QED
      BY <3>3, <3>4
  <2> QED
    BY <2>3, <2>4
<1>2. TypeOK => AssignmentDecided
  BY <1>1 DEF AssignmentDecided
<1> QED
  BY <1>2, Typed, PTL

(* A batch has a last key. *)
LEMMA LastKey ==
  ASSUME NEW S \in SUBSET Key, S # {}
  PROVE  \E k \in S : \A j \in S \ {k} : j < k
<1> DEFINE R == {p \in S \X S : p[1] > p[2]}
<1>1. IsFiniteSet(S) /\ S \subseteq Nat
  BY FS_Subset, IdsAssumption
<1>2. \A i, j \in S : <<i, j>> \in R <=> i > j
  OBVIOUS
<1> HIDE DEF R
<1>3. \A x \in S : <<x, x>> \notin R
  BY <1>1, <1>2
<1>4. \A x, y, z \in S : <<x, y>> \in R /\ <<y, z>> \in R => <<x, z>> \in R
  BY <1>1, <1>2
<1>5. \A x, y \in S : x # y => <<x, y>> \in R \/ <<y, x>> \in R
  BY <1>1, <1>2
<1>6. PICK k \in S : \A j \in S \ {k} : <<k, j>> \in R
  BY <1>1, <1>3, <1>4, <1>5, FirstOfOrder
<1> QED
  BY <1>2, <1>6, <1>1

(* A batch is spread evenly.  Look at the last key an account a takes: a was
   picked then, so its pressure did not exceed that of any other account b;
   counting this key adds one to a, and later keys can only add to b. *)
THEOREM BatchesAreSpreadEvenly == Spec => BatchSpreadEvenly
<1>1. ASSUME TypeOK, LoadIndexExact, NEW g, NEW ks \in SUBSET Key, CreateKeys(ks, g, None),
             NEW a \in Pool(g, AnyModel, {}), NEW b \in Pool(g, AnyModel, {}),
             load'[a] > load[a]
      PROVE  (load'[a] - 1) * up[b] <= load'[b] * up[a]
  <2> DEFINE pool == Pool(g, AnyModel, {})
  <2>1. /\ pool \subseteq accounts
        /\ \A x \in pool : x \in Account /\ up[x] \in Nat \ {0} /\ Healthy(x, AnyModel) = up[x]
    <3>1. pool \subseteq UsableAccounts(g, AnyModel, {})
      BY DEF Pool
    <3> QED
      BY <1>1, <3>1 DEF UsableAccounts, Healthy, Accepts, TypeOK
  <2>2. PICK got \in [ks -> Account \cup {None}] :
          /\ \A k \in ks : IsPick(got[k], pool, AnyModel, LoadBefore(ks, got, k))
          /\ binding' = [k \in Key |-> IF k \in ks THEN got[k] ELSE binding[k]]
    <3>1. ~SameGroup(None, g)
      BY <1>1, IdsAssumption DEF SameGroup, TypeOK
    <3> QED
      BY <1>1, <3>1 DEF CreateKeys
  <2> DEFINE New(x) == {k \in ks : got[k] = x}
  <2>3. IsFiniteSet(ks) /\ IsFiniteSet(keys) /\ keys \subseteq Key
    BY <1>1, FS_Subset, IdsAssumption DEF TypeOK
  <2>4. \A x : IsFiniteSet(New(x)) /\ Cardinality(New(x)) \in Nat
    <3> TAKE x
    <3>1. IsFiniteSet(New(x))
      BY <2>3, FS_Subset
    <3> QED
      BY <3>1, FS_CardinalityType
  <2>5. \A x \in pool : /\ load[x] \in Nat /\ load'[x] \in Nat
                       /\ load'[x] = load[x] + Cardinality(New(x))
    <3> TAKE x \in pool
    <3>1. /\ load[x] = Cardinality(BoundKeys(keys, binding, x))
          /\ load'[x] = Cardinality(BoundKeys(keys \cup ks, binding', x))
          /\ load[x] \in Nat
      BY <1>1, <2>1 DEF LoadIndexExact, Reindexed, CreateKeys, TypeOK
    <3>2. /\ BoundKeys(keys \cup ks, binding', x) = BoundKeys(keys, binding, x) \cup New(x)
          /\ BoundKeys(keys, binding, x) \cap New(x) = {}
      <4>1. ks \cap keys = {}
        BY <1>1 DEF CreateKeys
      <4> QED
        BY <2>2, <2>3, <4>1 DEF BoundKeys
    <3>3. IsFiniteSet(BoundKeys(keys, binding, x))
      BY <2>3, FS_Subset DEF BoundKeys
    <3> HIDE DEF New
    <3>4. Cardinality(BoundKeys(keys, binding, x) \cup New(x)) =
            Cardinality(BoundKeys(keys, binding, x)) + Cardinality(New(x)) - Cardinality({})
      BY <2>4, <3>2, <3>3, FS_Union
    <3> QED
      <4>1. Cardinality({}) = 0
        BY FS_EmptySet
      <4>2. Cardinality(New(x)) \in Nat
        BY <2>4
      <4>3. Cardinality(BoundKeys(keys \cup ks, binding', x)) =
              Cardinality(BoundKeys(keys, binding, x)) + Cardinality(New(x)) - Cardinality({})
        BY <3>2, <3>4
      <4>4. load'[x] = load[x] + Cardinality(New(x)) - 0
        BY <3>1, <4>1, <4>3
      <4> QED
        BY <3>1, <4>2, <4>4
  <2>6. New(a) # {}
    <3> HIDE DEF New
    <3> QED
      BY <1>1, <2>5, FS_EmptySet
  <2>7. PICK k \in New(a) : \A j \in New(a) \ {k} : j < k
    BY <2>6, LastKey
  <2> DEFINE before == LoadBefore(ks, got, k)
             Earlier(x) == {j \in ks : j < k /\ got[j] = x}
  <2>8. /\ before[a] = load'[a] - 1
        /\ before[b] \in Nat /\ before[b] <= load'[b] /\ load'[b] \in Nat
    <3>1. \A x \in pool : before[x] = load[x] + Cardinality(Earlier(x))
      BY <2>1 DEF LoadBefore
    <3>2. Earlier(a) = New(a) \ {k}
      <4>1. \A j \in ks : j \in Nat
        BY IdsAssumption
      <4>2. ASSUME NEW j \in ks, got[j] = a
            PROVE  j < k <=> j # k
        BY <2>7, <4>1, <4>2
      <4> QED
        BY <2>7, <4>2
    <3>3. Earlier(b) \in SUBSET New(b)
      OBVIOUS
    <3> HIDE DEF New, Earlier, before, pool
    <3>4. Cardinality(Earlier(a)) = Cardinality(New(a)) - 1
      BY <2>4, <2>7, <3>2, FS_RemoveElement
    <3>5. IsFiniteSet(Earlier(b)) /\ Cardinality(Earlier(b)) <= Cardinality(New(b))
      BY <2>4, <3>3, FS_Subset
    <3>6. Cardinality(Earlier(b)) \in Nat
      BY <3>5, FS_CardinalityType
    <3>7. a \in pool /\ b \in pool
      BY DEF pool
    <3>8. before[a] = load[a] + Cardinality(Earlier(a)) /\ before[b] = load[b] + Cardinality(Earlier(b))
      BY <3>1, <3>7
    <3>9. /\ load[a] \in Nat /\ load'[a] = load[a] + Cardinality(New(a)) /\ Cardinality(New(a)) \in Nat
          /\ load[b] \in Nat /\ load'[b] = load[b] + Cardinality(New(b)) /\ Cardinality(New(b)) \in Nat
      BY <2>4, <2>5, <3>7
    <3> QED
      BY <3>4, <3>5, <3>6, <3>8, <3>9
  <2>9. /\ up[a] \in Nat \ {0} /\ up[b] \in Nat \ {0}
         /\ before[a] \in Int
    <3>1. a \in pool /\ b \in pool
      OBVIOUS
    <3>2. load'[a] \in Nat
      BY <2>5, <3>1
    <3> HIDE DEF pool, before
    <3> QED
      BY <2>1, <2>8, <3>1, <3>2
  <2>10. CASE a = b
    <3>1. load'[a] \in Nat /\ load[a] \in Nat
      BY <2>5
    <3>2. load'[a] - 1 \in Nat /\ load'[a] - 1 <= load'[a]
      BY <1>1, <3>1
    <3> QED
      BY <2>10, <2>9, <3>1, <3>2, ScaleFactor
  <2>11. CASE a # b
    <3>1. Precedes(a, b, AnyModel, before)
      BY <2>2, <2>7, <2>11 DEF IsPick
    <3>2. before[a] * up[b] <= before[b] * up[a]
      <4> DEFINE left == before[a] * up[b]
                 right == before[b] * up[a]
      <4>1. left < right \/ left = right
        BY <2>1, <3>1 DEF Precedes
      <4>2. left \in Int /\ right \in Int
        BY <2>8, <2>9
      <4> HIDE DEF left, right
      <4>3. left <= right
        BY <4>1, <4>2
      <4> QED
        BY <4>3 DEF left, right
    <3>3. before[b] * up[a] <= load'[b] * up[a]
      BY <2>1, <2>8, ScaleFactor
    <3> DEFINE x == before[a] * up[b]
               y == before[b] * up[a]
               z == load'[b] * up[a]
    <3>4. x \in Int /\ y \in Int /\ z \in Int
      BY <2>8, <2>9
    <3> HIDE DEF x, y, z, before
    <3>5. x <= z
      <4>1. x <= y /\ y <= z
        BY <3>2, <3>3 DEF x, y, z
      <4> QED
        BY <3>4, <4>1
    <3> QED
      BY <2>8, <3>5 DEF x, z
  <2> QED
    BY <2>10, <2>11
<1>2. TypeOK /\ LoadIndexExact /\ TypeOK' =>
        [\A g \in Group \cup {None} :
           keys' \ keys # {} /\ CreateKeys(keys' \ keys, g, None) =>
             \A a, b \in Pool(g, AnyModel, {}) :
               load'[a] > load[a] => (load'[a] - 1) * up[b] <= load'[b] * up[a]]_vars
  BY <1>1 DEF TypeOK
<1> QED
  BY <1>2, Typed, LoadIndexIsExact, PTL DEF Spec, BatchSpreadEvenly
=============================================================================
