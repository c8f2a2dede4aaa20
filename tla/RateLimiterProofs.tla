-------------------------- MODULE RateLimiterProofs --------------------------
(***************************************************************************)
(* Theorems about RateLimiter, for every number of buckets, callers and    *)
(* hits, every set of limits, and every window and skew.                   *)
(*                                                                         *)
(* The argument: a reading of the clock is never ahead of the clock, so    *)
(* whatever a trim removes is at least a window old (RecentHitsAreKept);   *)
(* and a reading is at most Skew behind it, so what a grant counted covers *)
(* the window but for its last Skew ticks (GrantJustified).                *)
(***************************************************************************)
EXTENDS RateLimiter, FiniteSetTheorems, TLAPS

\* A reading of the clock is never early, and never later than Skew.
ReadingsFresh ==
  \A c \in Caller :
    /\ call[c].now <= clock
    /\ call[c].op \in {"allow", "peek"} => clock <= call[c].now + Skew

Inductive == TypeOK /\ ReadingsFresh /\ RecentHitsAreKept

(* A caller's limit is a number. *)
LEMMA LimitIsNat == TypeOK => \A c \in Caller : call[c].limit \in Nat
<1> SUFFICES ASSUME TypeOK, NEW c \in Caller
             PROVE  call[c].limit \in Nat
  OBVIOUS
<1>1. call[c].limit \in Limits \cup {0}
  BY DEF TypeOK
<1>2. Limits \subseteq Nat
  BY LimiterAssumption
<1>3. 0 \in Nat
  OBVIOUS
<1> QED
  BY <1>1, <1>2, <1>3, Zenon

(* Types and the freshness of clock readings are preserved by every step. *)
LEMMA TypeStep == TypeOK /\ ReadingsFresh /\ [Next]_vars => TypeOK' /\ ReadingsFresh'
<1> SUFFICES ASSUME TypeOK, ReadingsFresh, [Next]_vars
             PROVE  TypeOK' /\ ReadingsFresh'
  OBVIOUS
<1> USE LimiterAssumption DEF TypeOK, ReadingsFresh, NoCall
<1>1. ASSUME NEW c \in Caller, NEW op \in {"allow", "peek"}, NEW b \in Bucket,
             NEW limit \in Limits, Begin(c, op, b, limit)
      PROVE  TypeOK' /\ ReadingsFresh'
  BY <1>1 DEF Begin
<1>2. ASSUME NEW c \in Caller, Begin(c, "prune", None, 0)
      PROVE  TypeOK' /\ ReadingsFresh'
  BY <1>2 DEF Begin
<1>3. ASSUME NEW c \in Caller, NEW h \in Hit, Grant(c, h)
      PROVE  TypeOK' /\ ReadingsFresh'
  BY <1>3 DEF Grant, Done, Recent
<1>4. ASSUME NEW c \in Caller, Unlimited(c) \/ Trim(c) \/ Prune(c)
      PROVE  TypeOK' /\ ReadingsFresh'
  BY <1>4 DEF Unlimited, Trim, Prune, Done, Recent
<1>5. CASE Tick
  BY <1>5 DEF Tick
<1>6. CASE UNCHANGED vars
  BY <1>6 DEF vars
<1> QED
  BY <1>1, <1>2, <1>3, <1>4, <1>5, <1>6 DEF Next

(* No step drops a hit that still counts. *)
LEMMA KeptStep == Inductive /\ [Next]_vars => RecentHitsAreKept'
<1> SUFFICES ASSUME Inductive, [Next]_vars
             PROVE  RecentHitsAreKept'
  OBVIOUS
<1> USE LimiterAssumption DEF Inductive, TypeOK, ReadingsFresh, RecentHitsAreKept, Recent
<1>1. ASSUME NEW c \in Caller, NEW h \in Hit, Grant(c, h)
      PROVE  RecentHitsAreKept'
  <2>1. \A b \in Bucket : h \notin used[b]
    BY <1>1 DEF Grant, Unused
  <2> QED
    BY <1>1, <2>1 DEF Grant
<1>2. ASSUME NEW c \in Caller, Trim(c)
      PROVE  RecentHitsAreKept'
  BY <1>2 DEF Trim
<1>3. ASSUME NEW c \in Caller, Prune(c)
      PROVE  RecentHitsAreKept'
  BY <1>3 DEF Prune
<1>4. CASE Tick
  BY <1>4 DEF Tick
<1>5. CASE UNCHANGED <<clock, kept, at, used>>
  BY <1>5
<1> QED
  BY <1>1, <1>2, <1>3, <1>4, <1>5 DEF Next, Begin, Unlimited, vars

(* In every behaviour the state is well typed, readings are fresh, and recent
   hits are kept. *)
THEOREM InductiveInvariant == Spec => []Inductive
<1>1. Init => Inductive
  BY LimiterAssumption DEF Init, Inductive, TypeOK, ReadingsFresh, RecentHitsAreKept,
     Recent, NoCall
<1>2. Inductive /\ [Next]_vars => Inductive'
  BY TypeStep, KeptStep DEF Inductive
<1> QED
  BY <1>1, <1>2, PTL DEF Spec

(* Every bucket holds all the hits of its last minute, whatever the order in
   which clock readings reached the limiter. *)
THEOREM RecentHitsStay == Spec => []RecentHitsAreKept
<1>1. Inductive => RecentHitsAreKept
  BY DEF Inductive
<1> QED
  BY <1>1, InductiveInvariant, PTL

(* No more calls than the limit are let through in a minute shortened by the
   lateness of clock readings. *)
THEOREM GrantsAreJustified == Spec => GrantJustified
<1> DEFINE Justified ==
      \A c \in Caller, b \in Bucket : \A h \in used'[b] \ used[b] :
        call'[c] # call[c] =>
          Cardinality({g \in used[b] : at[g] + Window > call[c].now + Skew}) < call[c].limit
<1>1. Inductive /\ [Next]_vars => Justified
  <2> SUFFICES ASSUME Inductive, [Next]_vars,
                      NEW c \in Caller, NEW b \in Bucket, NEW h \in used'[b] \ used[b],
                      call'[c] # call[c]
               PROVE  Cardinality({g \in used[b] : at[g] + Window > call[c].now + Skew})
                        < call[c].limit
    BY Zenon
  <2> USE LimiterAssumption DEF Inductive, TypeOK
  <2>1. PICK d \in Caller, k \in Hit : Grant(d, k)
    BY DEF Next, Begin, Unlimited, Trim, Prune, Tick, vars
  <2>2. d = c /\ call[c].bucket = b
    BY <2>1 DEF Grant, Done
  <2> DEFINE counted == {g \in used[b] : at[g] + Window > call[c].now + Skew}
             recent == Recent(kept[b], call[c].now)
  <2>3. counted \subseteq recent
    BY <2>1, <2>2 DEF ReadingsFresh, RecentHitsAreKept, Recent, Grant
  <2>4. IsFiniteSet(recent)
    <3>1. recent \subseteq Hit
      BY DEF Recent
    <3> QED
      BY <3>1, FS_Subset
  <2>5. Cardinality(counted) <= Cardinality(recent)
    BY <2>3, <2>4, FS_Subset
  <2>6. Cardinality(counted) \in Nat /\ Cardinality(recent) \in Nat
    BY <2>3, <2>4, FS_Subset, FS_CardinalityType
  <2>7. Cardinality(recent) < call[c].limit
    BY <2>1, <2>2 DEF Grant
  <2>8. call[c].limit \in Nat
    BY LimitIsNat
  <2> HIDE DEF counted, recent
  <2>9. Cardinality(counted) < call[c].limit
    BY <2>5, <2>6, <2>7, <2>8
  <2> QED
    BY <2>9 DEF counted
<1>2. Inductive /\ [Next]_vars => [Justified]_vars
  BY <1>1
<1> QED
  BY <1>2, InductiveInvariant, PTL DEF Spec, GrantJustified

(* A call is turned away only when its limit was reached within its minute. *)
THEOREM DenialsAreJustified == Spec => DenialJustified
<1> DEFINE Justified ==
      \A c \in Caller :
        LET b == call[c].bucket
        IN  call[c].op = "allow" /\ call'[c] # call[c] /\ call[c].limit > 0 =>
              \/ used'[b] # used[b]
              \/ Cardinality(Recent(used[b], call[c].now)) >= call[c].limit
<1>1. Inductive /\ [Next]_vars => Justified
  <2> SUFFICES ASSUME Inductive, [Next]_vars, NEW c \in Caller,
                      call[c].op = "allow", call'[c] # call[c], call[c].limit > 0,
                      used'[call[c].bucket] = used[call[c].bucket]
               PROVE  Cardinality(Recent(used[call[c].bucket], call[c].now)) >= call[c].limit
    BY Zenon
  <2> USE LimiterAssumption DEF Inductive, TypeOK
  <2>1. Trim(c)
    <3>1. ASSUME NEW d \in Caller, NEW k \in Hit, Grant(d, k) PROVE FALSE
      <4>1. d = c
        BY <3>1 DEF Grant, Done
      <4>2. call[c].bucket \in Bucket => used'[call[c].bucket] # used[call[c].bucket]
        BY <3>1, <4>1 DEF Grant, Unused
      <4>3. call[c].bucket \in Bucket
        BY <3>1, <4>1 DEF Grant
      <4> QED
        BY <4>2, <4>3
    <3>2. call[c].op # "none" /\ call[c].op # "prune" /\ call[c].limit # 0
      OBVIOUS
    <3> QED
      BY <3>1, <3>2 DEF Next, Begin, Unlimited, Trim, Prune, Tick, Done, vars
  <2> DEFINE b == call[c].bucket
             kb == Recent(kept[b], call[c].now)
             ub == Recent(used[b], call[c].now)
  <2>2. kb \subseteq ub /\ ub \subseteq Hit
    BY <2>1 DEF Trim, Recent
  <2>3. Cardinality(kb) >= call[c].limit
    BY <2>1 DEF Trim
  <2>4. IsFiniteSet(ub)
    BY <2>2, FS_Subset
  <2>5. /\ Cardinality(kb) <= Cardinality(ub)
        /\ Cardinality(kb) \in Nat /\ Cardinality(ub) \in Nat
    BY <2>2, <2>4, FS_Subset, FS_CardinalityType
  <2>6. call[c].limit \in Nat
    BY LimitIsNat
  <2> HIDE DEF kb, ub
  <2>7. Cardinality(ub) >= call[c].limit
    BY <2>3, <2>5, <2>6
  <2> QED
    BY <2>7 DEF ub
<1>2. Inductive /\ [Next]_vars => [Justified]_vars
  BY <1>1
<1> QED
  BY <1>2, InductiveInvariant, PTL DEF Spec, DenialJustified
=============================================================================
