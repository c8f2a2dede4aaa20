---------------------------- MODULE StreamProofs ----------------------------
(***************************************************************************)
(* Theorems about Stream, for any limits, sizes of a line, numbers of lines  *)
(* and of changes of account.                                               *)
(***************************************************************************)
EXTENDS Stream, FiniteSetTheorems, SequenceTheorems, WellFoundedInduction, TLAPS

----------------------------------------------------------------------------
(* Tokens *)

(* Every set of naturals that has a member has a least one. *)
LEMMA LeastNatural ==
  ASSUME NEW S \in SUBSET Nat, S # {}
  PROVE  \E m \in S : \A n \in S : m <= n
<1> DEFINE Upto(n) == 0..n
<1> DEFINE Family == {Upto(n) : n \in S}
<1>1. Family \subseteq FiniteSubsetsOf(Nat) /\ Family # {}
  <2>1. ASSUME NEW n \in S PROVE Upto(n) \in SUBSET Nat /\ IsFiniteSet(Upto(n))
    BY FS_Interval
  <2> QED BY <2>1 DEF FiniteSubsetsOf
<1>2. PICK B \in Family : \A C \in Family : <<C, B>> \notin StrictSubsetOrdering(Nat)
  <2> HIDE DEF Family
  <2> QED
  BY <1>1, WFMin, FS_StrictSubsetOrderingWellFounded
<1>3. PICK m \in S : B = Upto(m)
  OBVIOUS
<1>4. ASSUME NEW n \in S, n < m
      PROVE  FALSE
  <2>1. Upto(n) \subseteq Upto(m) /\ m \in Upto(m) /\ m \notin Upto(n) /\ Upto(m) \subseteq Nat
    BY <1>4
  <2>2. <<Upto(n), Upto(m)>> \in StrictSubsetOrdering(Nat)
    BY <2>1 DEF StrictSubsetOrdering
  <2> QED
    BY <1>2, <1>3, <2>2
<1> QED
  BY <1>4

Names == {"message_start", "block_start", "block_stop", "delta", "message_delta", "message_stop",
          "line", "finish", "done", "error"}
Reasons == {"end_turn", "tool_use", "max_tokens", "stop", "length", "tool_calls", "incomplete"}
Kinds == {"text", "thinking"}

Events == [name : Names, kind : Kinds \cup Reasons \cup {"none"}, index : Nat, tokens : Nat]

\* f gives the tokens of every beginning of s.
Adds(f, s) ==
  /\ f \in [0..Len(s) -> Nat]
  /\ f[0] = 0
  /\ \A i \in 1..Len(s) : f[i] = f[i - 1] + s[i].tokens

(* Every event of a sequence of events is one. *)
LEMMA EventAt ==
  ASSUME NEW s \in Seq(Events)
  PROVE  /\ Len(s) \in Nat /\ DOMAIN s = 1..Len(s)
         /\ \A i \in 1..Len(s) : /\ s[i] \in Events
                                  /\ s[i].tokens \in Nat /\ s[i].index \in Nat
                                  /\ s[i].name \in Names
<1>1. Len(s) \in Nat /\ DOMAIN s = 1..Len(s)
  OBVIOUS
<1>2. ASSUME NEW i \in 1..Len(s) PROVE s[i] \in Events
  OBVIOUS
<1> QED
  BY <1>1, <1>2 DEF Events

(* There is such a function, and any two agree where the sequences do. *)
LEMMA SumsExist ==
  ASSUME NEW s \in Seq(Events)
  PROVE  \E f : Adds(f, s)
<1> DEFINE Sum(n, f) == /\ f \in [0..n -> Nat] /\ f[0] = 0
                        /\ \A i \in 1..n : f[i] = f[i - 1] + s[i].tokens
           Lack == {n \in 0..Len(s) : ~\E f : Sum(n, f)}
<1>0. Len(s) \in Nat /\ \A i \in 1..Len(s) : s[i].tokens \in Nat
  BY EventAt
<1>1. CASE Lack = {}
  <2>1. Len(s) \in 0..Len(s)
    BY <1>0
  <2>2. PICK f : Sum(Len(s), f)
    BY <1>1, <2>1
  <2> QED
    BY <2>2 DEF Adds
<1>2. ASSUME Lack # {}
      PROVE  FALSE
  <2>0. Lack \in SUBSET Nat
    BY <1>0
  <2>1. PICK n \in Lack : \A m \in Lack : n <= m
    <3> HIDE DEF Lack
    <3> QED BY <1>2, <2>0, LeastNatural
  <2>a. n \in 0..Len(s) /\ ~\E f : Sum(n, f)
    OBVIOUS
  <2>2. Sum(0, [i \in 0..0 |-> 0])
    OBVIOUS
  <2>3. n \in 1..Len(s)
    <3>1. n # 0
      BY <2>2, <2>a
    <3> QED BY <3>1, <2>a, <1>0
  <2>b. n - 1 \in 0..Len(s) /\ ~(n <= n - 1)
    BY <2>3, <1>0
  <2>4. PICK f : Sum(n - 1, f)
    BY <2>1, <2>b
  <2> DEFINE g == [i \in 0..n |-> IF i = n THEN f[n - 1] + s[n].tokens ELSE f[i]]
  <2>5. s[n].tokens \in Nat /\ f[n - 1] \in Nat /\ n \in Nat
    BY <2>3, <2>4, <1>0
  <2>6. g \in [0..n -> Nat]
    BY <2>3, <2>4, <2>5, <1>0
  <2>7. g[0] = 0
    BY <2>3, <2>4, <1>0
  <2>8. ASSUME NEW i \in 1..n PROVE g[i] = g[i - 1] + s[i].tokens
    BY <2>3, <2>4, <2>5, <1>0
  <2>9. Sum(n, g)
    <3> HIDE DEF g
    <3> QED BY <2>6, <2>7, <2>8
  <2> QED
    BY <2>9, <2>a
<1> QED
  BY <1>1, <1>2

(* Two such functions agree as far as their sequences do. *)
LEMMA SumsAgree ==
  ASSUME NEW s \in Seq(Events), NEW t \in Seq(Events), NEW f, NEW g, Adds(f, s), Adds(g, t),
         NEW n \in Nat, n <= Len(s), n <= Len(t), \A i \in 1..n : s[i] = t[i]
  PROVE  f[n] = g[n]
<1> DEFINE Differ == {i \in 0..n : f[i] # g[i]}
<1>1. ASSUME Differ # {}
      PROVE  FALSE
  <2>0. Differ \in SUBSET Nat
    OBVIOUS
  <2>1. PICK m \in Differ : \A i \in Differ : m <= i
    <3> HIDE DEF Differ
    <3> QED BY <1>1, <2>0, LeastNatural
  <2>2. m # 0
    BY DEF Adds
  <2>3. m \in 1..n /\ m - 1 \in 0..n /\ m - 1 \notin Differ
    <3>1. m \in 1..n /\ m - 1 \in 0..n /\ ~(m <= m - 1)
      BY <2>2
    <3> QED BY <3>1, <2>1
  <2>4. f[m - 1] = g[m - 1]
    BY <2>3
  <2>5. f[m] = f[m - 1] + s[m].tokens /\ g[m] = g[m - 1] + t[m].tokens /\ s[m] = t[m]
    BY <2>3, Len(s) \in Nat, Len(t) \in Nat DEF Adds
  <2> QED
    BY <2>4, <2>5
<1> QED
  BY <1>1

(* The tokens of the beginnings of a sequence only grow. *)
LEMMA SumsGrow ==
  ASSUME NEW s \in Seq(Events), NEW f, Adds(f, s), NEW m \in Nat, NEW n \in Nat,
         m <= n, n <= Len(s)
  PROVE  f[m] <= f[n]
<1> DEFINE Less == {i \in m..n : ~(f[m] <= f[i])}
<1>1. ASSUME Less # {}
      PROVE  FALSE
  <2>0. Less \in SUBSET Nat
    OBVIOUS
  <2>1. PICK k \in Less : \A i \in Less : k <= i
    <3> HIDE DEF Less
    <3> QED BY <1>1, <2>0, LeastNatural
  <2>a. Len(s) \in Nat /\ \A i \in 0..Len(s) : f[i] \in Nat
    BY EventAt DEF Adds
  <2>2. k # m
    BY <2>a
  <2>3. k - 1 \in m..n /\ k - 1 \notin Less /\ k \in 1..Len(s)
    <3>1. k - 1 \in m..n /\ ~(k <= k - 1) /\ k \in 1..Len(s)
      BY <2>2, <2>a
    <3> QED BY <3>1, <2>1
  <2>4. f[m] <= f[k - 1]
    BY <2>3
  <2>5. f[k] = f[k - 1] + s[k].tokens /\ s[k].tokens \in Nat
    BY <2>3, <2>a, EventAt DEF Adds
  <2> QED
    BY <2>4, <2>5, <2>3, <2>a
<1> QED
  BY <1>1

(* Tokens is that sum. *)
LEMMA TokensAdds ==
  ASSUME NEW s \in Seq(Events), NEW f, Adds(f, s)
  PROVE  Tokens(s) = f[Len(s)]
<1> DEFINE Rec(h) == h = [i \in 0..Len(s) |-> IF i = 0 THEN 0 ELSE h[i - 1] + s[i].tokens]
           sum == CHOOSE h : Rec(h)
<1>0. Len(s) \in Nat /\ \A i \in 1..Len(s) : s[i].tokens \in Nat
  BY EventAt
<1>1. Rec(f)
  <2>1. \A i \in 0..Len(s) : f[i] = IF i = 0 THEN 0 ELSE f[i - 1] + s[i].tokens
    BY <1>0 DEF Adds
  <2>2. f = [i \in 0..Len(s) |-> f[i]]
    BY DEF Adds
  <2> QED
    BY <2>1, <2>2
<1>2. Rec(sum)
  BY <1>1
<1>3. Tokens(s) = sum[Len(s)]
  BY DEF Tokens
<1>4. \A i \in 0..Len(s) : sum[i] = IF i = 0 THEN 0 ELSE sum[i - 1] + s[i].tokens
  <2> HIDE DEF sum
  <2> QED BY <1>2
<1>5. sum[Len(s)] = f[Len(s)]
  <2> HIDE DEF sum
  <2> DEFINE Differ == {i \in 0..Len(s) : f[i] # sum[i]}
  <2>1. ASSUME Differ # {}
        PROVE  FALSE
    <3>0. Differ \in SUBSET Nat
      OBVIOUS
    <3>1. PICK m \in Differ : \A i \in Differ : m <= i
      <4> HIDE DEF Differ
      <4> QED BY <2>1, <3>0, LeastNatural
    <3>2. m # 0
      BY <1>4, <1>0 DEF Adds
    <3>3. m \in 1..Len(s) /\ m - 1 \in 0..Len(s) /\ m - 1 \notin Differ
      <4>1. m \in 1..Len(s) /\ m - 1 \in 0..Len(s) /\ ~(m <= m - 1)
        BY <3>2, <1>0
      <4> QED BY <4>1, <3>1
    <3>4. f[m - 1] = sum[m - 1]
      BY <3>3
    <3>5. f[m] = f[m - 1] + s[m].tokens /\ sum[m] = sum[m - 1] + s[m].tokens
      BY <3>3, <1>4, <3>2, <1>0 DEF Adds
    <3> QED
      BY <3>4, <3>5
  <2> QED
    BY <2>1, <1>0
<1> QED
  BY <1>3, <1>5

(* What Tokens is of nothing ... *)
LEMMA TokensOfNone == Tokens(<<>>) = 0
<1>1. <<>> \in Seq(Events) /\ Len(<<>>) = 0
  OBVIOUS
<1>2. PICK f : Adds(f, <<>>)
  BY <1>1, SumsExist
<1>3. f[0] = 0
  BY <1>2 DEF Adds
<1> QED
  BY <1>1, <1>2, <1>3, TokensAdds

(* ... of one event more ... *)
LEMMA TokensOfAppend ==
  ASSUME NEW s \in Seq(Events), NEW e \in Events
  PROVE  Tokens(Append(s, e)) = Tokens(s) + e.tokens
<1> DEFINE t == Append(s, e)
<1>1. t \in Seq(Events) /\ Len(t) = Len(s) + 1 /\ t[Len(t)] = e /\ Len(s) \in Nat
      /\ \A i \in 1..Len(s) : s[i] = t[i]
  OBVIOUS
<1> HIDE DEF t
<1>2. PICK f : Adds(f, s)
  BY SumsExist
<1>3. PICK g : Adds(g, t)
  BY <1>1, SumsExist
<1>4. f[Len(s)] = g[Len(s)]
  BY <1>1, <1>2, <1>3, SumsAgree
<1>5. g[Len(t)] = g[Len(s)] + e.tokens
  BY <1>1, <1>3 DEF Adds
<1>6. Tokens(s) = f[Len(s)] /\ Tokens(t) = g[Len(t)]
  BY <1>1, <1>2, <1>3, TokensAdds
<1> QED
  BY <1>4, <1>5, <1>6 DEF t

(* ... of one event more that carries none ... *)
LEMMA TokensOfSilent ==
  ASSUME NEW s \in Seq(Events), NEW e \in Events, e.tokens = 0
  PROVE  Tokens(Append(s, e)) = Tokens(s) /\ Tokens(s) \in Nat
<1>1. PICK f : Adds(f, s)
  BY SumsExist
<1>2. Tokens(s) = f[Len(s)] /\ Len(s) \in 0..Len(s)
  BY <1>1, TokensAdds
<1>3. Tokens(s) \in Nat
  BY <1>1, <1>2 DEF Adds
<1>4. Tokens(s) + e.tokens = Tokens(s)
  BY <1>3
<1> QED BY <1>3, <1>4, TokensOfAppend

Beginning(p, s) == Len(p) <= Len(s) /\ \A i \in 1..Len(p) : p[i] = s[i]

(* ... of a beginning ... *)
LEMMA TokensOfBeginning ==
  ASSUME NEW s \in Seq(Events), NEW p \in Seq(Events), Beginning(p, s)
  PROVE  Tokens(p) \in Nat /\ Tokens(p) <= Tokens(s)
<1>1. PICK f : Adds(f, s)
  BY SumsExist
<1>2. PICK g : Adds(g, p)
  BY SumsExist
<1>3. g[Len(p)] = f[Len(p)]
  BY <1>1, <1>2, SumsAgree, Len(p) \in Nat DEF Beginning
<1>4. f[Len(p)] <= f[Len(s)]
  BY <1>1, SumsGrow, Len(p) \in Nat, Len(s) \in Nat DEF Beginning
<1>5. Tokens(s) = f[Len(s)] /\ Tokens(p) = g[Len(p)] /\ g[Len(p)] \in Nat
  BY <1>1, <1>2, TokensAdds, Len(p) \in 0..Len(p) DEF Adds
<1> QED
  BY <1>3, <1>4, <1>5

(* ... and of any events. *)
LEMMA TokensType ==
  ASSUME NEW s \in Seq(Events)
  PROVE  Tokens(s) \in Nat
<1>1. Beginning(s, s)
  BY Len(s) \in Nat DEF Beginning
<1> QED BY <1>1, TokensOfBeginning

----------------------------------------------------------------------------
(* Blocks *)

\* Positions of events.
Named(s, name) == {i \in DOMAIN s : s[i].name = name}
Ends(s) == Named(s, "done") \cup Named(s, "message_stop") \cup Named(s, "error")
Starts(s) == Named(s, "block_start")
Before(s, i) == {j \in Starts(s) : j < i}
Closers(s, i, j) == {k \in i..j : s[k].name = "block_stop" /\ s[k].index = s[i].index}

\* The message starts once, blocks are numbered as they come, each is closed before
\* the next, and a delta is for the block that is open, of its kind.
InOrder(s) ==
  /\ s # <<>> => Named(s, "message_start") = {1}
  /\ \A i \in Starts(s) : s[i].index = Cardinality(Before(s, i))
  /\ \A i, j \in Starts(s) : j < i => Closers(s, j, i) # {}
  /\ \A i \in Named(s, "delta") : \E j \in Starts(s) :
       j < i /\ Closers(s, j, i) = {} /\ s[j].index = s[i].index /\ s[j].kind = s[i].kind

ClosedOnce(s) ==
  \A i \in Starts(s) : \A k, l \in Closers(s, i, Len(s)) : k = l

AllClosed(s) == \A i \in Starts(s) : Closers(s, i, Len(s)) # {}

\* Of b blocks the last one is open, of a kind of K, and it alone.
LastOpen(s, b, K) ==
  \E i \in Starts(s) :
    /\ s[i].index = b - 1 /\ s[i].kind \in K /\ Closers(s, i, Len(s)) = {}
    /\ \A j \in Starts(s) : j # i => Closers(s, j, Len(s)) # {}

\* b blocks in order, all closed if K is empty.
Blocks(s, b, K) ==
  /\ InOrder(s) /\ ClosedOnce(s)
  /\ Cardinality(Starts(s)) = b
  /\ \A i \in Starts(s) : s[i].index < b
  /\ \A i, j \in Starts(s) : s[i].index = s[j].index => i = j
  /\ IF K = {} THEN AllClosed(s) ELSE LastOpen(s, b, K)

\* The blocks a rewriter has begun, and the kind of the open one.
Begun(r) == IF r.kind = "none" THEN 0 ELSE r.index + 1
Pending(r) == IF r.kind = "none" THEN {} ELSE {r.kind}

\* What was sent is what the rewriter r believes.
InStep(r, s) ==
  /\ s # <<>> <=> r.opened
  /\ IF r.kind = "none" THEN r.index = 0 ELSE r.opened
  /\ Blocks(s, Begun(r), Pending(r))
  /\ Ends(s) = {}

\* An answer of /v1/messages that is whole.
Closed(s) ==
  InOrder(s) /\ ClosedOnce(s) /\ AllClosed(s) /\ s # <<>> /\ Ends(s) = {Len(s)}

\* Lines passed on.
Passed(s) == \A i \in DOMAIN s : s[i].name \in {"line", "finish", "done"}

(* One event more. *)
LEMMA AppendFacts ==
  ASSUME NEW s \in Seq(Events), NEW e \in Events
  PROVE  /\ Append(s, e) \in Seq(Events) /\ Append(s, e) # <<>>
         /\ Len(Append(s, e)) = Len(s) + 1 /\ Append(s, e)[Len(s) + 1] = e
         /\ \A i \in 1..Len(s) : Append(s, e)[i] = s[i]
         /\ Beginning(s, Append(s, e)) /\ Len(s) \in Nat
  BY DEF Beginning

(* What a sequence says of its blocks a longer one says of them too. *)
LEMMA BeginningFacts ==
  ASSUME NEW s \in Seq(Events), NEW p \in Seq(Events), Beginning(p, s)
  PROVE  /\ \A name : Named(p, name) = Named(s, name) \cap 1..Len(p)
         /\ \A i \in 1..Len(p) : Before(p, i) = Before(s, i)
         /\ \A i, j \in 1..Len(p) : Closers(p, i, j) = Closers(s, i, j)
<1>1. Len(p) \in Nat /\ Len(s) \in Nat /\ DOMAIN p = 1..Len(p) /\ DOMAIN s = 1..Len(s)
      /\ Len(p) <= Len(s) /\ \A i \in 1..Len(p) : p[i] = s[i]
  BY DEF Beginning
<1>2. ASSUME NEW name PROVE Named(p, name) = Named(s, name) \cap 1..Len(p)
  BY <1>1 DEF Named
<1>3. ASSUME NEW i \in 1..Len(p) PROVE Before(p, i) = Before(s, i)
  BY <1>1, <1>2 DEF Before, Starts, Named
<1>4. ASSUME NEW i \in 1..Len(p), NEW j \in 1..Len(p)
      PROVE  Closers(p, i, j) = Closers(s, i, j)
  <2>1. \A k \in i..j : k \in 1..Len(p) /\ p[k] = s[k]
    BY <1>1
  <2> QED BY <1>1, <2>1 DEF Closers
<1> QED BY <1>2, <1>3, <1>4

(* Where the events of a name are. *)
LEMMA NamedFacts ==
  ASSUME NEW s \in Seq(Events), NEW name
  PROVE  /\ Named(s, name) \subseteq 1..Len(s) /\ Len(s) \in Nat
         /\ \A i \in Named(s, name) : i \in Nat /\ i >= 1 /\ i <= Len(s) /\ s[i].name = name
         /\ \A i \in 1..Len(s) : s[i].name = name => i \in Named(s, name)
  BY EventAt DEF Named

(* One event more adds its own place to those of its name. *)
LEMMA AppendNamed ==
  ASSUME NEW s \in Seq(Events), NEW e \in Events, NEW name
  PROVE  /\ e.name = name => Named(Append(s, e), name) = Named(s, name) \cup {Len(s) + 1}
         /\ e.name # name => Named(Append(s, e), name) = Named(s, name)
<1> DEFINE t == Append(s, e)
<1>1. /\ t \in Seq(Events) /\ Len(t) = Len(s) + 1 /\ t[Len(s) + 1] = e
      /\ \A i \in 1..Len(s) : t[i] = s[i]
      /\ Len(s) \in Nat /\ DOMAIN s = 1..Len(s) /\ DOMAIN t = 1..Len(t)
  OBVIOUS
<1> HIDE DEF t
<1>2. /\ e.name = name => Named(t, name) = Named(s, name) \cup {Len(s) + 1}
      /\ e.name # name => Named(t, name) = Named(s, name)
  BY <1>1 DEF Named
<1> QED BY <1>2 DEF t

(* Only a block_stop of its index closes a block. *)
LEMMA AppendClosers ==
  ASSUME NEW s \in Seq(Events), NEW e \in Events, NEW i \in 1..Len(s)
  PROVE  LET closes == e.name = "block_stop" /\ e.index = s[i].index
         IN  /\ closes =>
                  Closers(Append(s, e), i, Len(s) + 1) = Closers(s, i, Len(s)) \cup {Len(s) + 1}
             /\ ~closes => Closers(Append(s, e), i, Len(s) + 1) = Closers(s, i, Len(s))
<1> DEFINE t == Append(s, e)
<1>1. /\ t \in Seq(Events) /\ t[Len(s) + 1] = e /\ \A k \in 1..Len(s) : t[k] = s[k]
      /\ Len(s) \in Nat
  OBVIOUS
<1> HIDE DEF t
<1>2. i..(Len(s) + 1) = (i..Len(s)) \cup {Len(s) + 1} /\ i..Len(s) \subseteq 1..Len(s)
  BY <1>1
<1> DEFINE closes == e.name = "block_stop" /\ e.index = s[i].index
<1>3. /\ closes => Closers(t, i, Len(s) + 1) = Closers(s, i, Len(s)) \cup {Len(s) + 1}
      /\ ~closes => Closers(t, i, Len(s) + 1) = Closers(s, i, Len(s))
  BY <1>1, <1>2 DEF Closers
<1> QED BY <1>3 DEF t

(* A sequence has a number of blocks. *)
LEMMA StartsFinite ==
  ASSUME NEW s \in Seq(Events)
  PROVE  IsFiniteSet(Starts(s)) /\ Cardinality(Starts(s)) \in Nat
<1>1. Len(s) \in Nat /\ Starts(s) \subseteq 1..Len(s)
  BY NamedFacts DEF Starts
<1>2. IsFiniteSet(1..Len(s))
  BY <1>1, FS_Interval
<1> QED BY <1>1, <1>2, FS_Subset, FS_CardinalityType

(* The beginning of an answer in order is one. *)
LEMMA BeginningInOrder ==
  ASSUME NEW s \in Seq(Events), NEW p \in Seq(Events), Beginning(p, s)
  PROVE  /\ InOrder(s) => InOrder(p)
         /\ ClosedOnce(s) => ClosedOnce(p)
         /\ Ends(s) = {} => Ends(p) = {}
<1>0. Len(p) \in Nat /\ Len(s) \in Nat /\ Len(p) <= Len(s) /\ \A i \in 1..Len(p) : p[i] = s[i]
  BY DEF Beginning
<1>a. Starts(p) = Starts(s) \cap 1..Len(p)
  BY BeginningFacts DEF Starts
<1>1. ASSUME InOrder(s) PROVE InOrder(p)
  <2>1. p # <<>> => Named(p, "message_start") = {1}
    <3>1. p # <<>> => s # <<>> /\ 1 \in 1..Len(p)
      BY <1>0
    <3> QED BY <1>1, <3>1, BeginningFacts DEF InOrder
  <2>2. ASSUME NEW i \in Starts(p) PROVE p[i].index = Cardinality(Before(p, i))
    BY <1>0, <1>a, <1>1, BeginningFacts DEF InOrder
  <2>3. ASSUME NEW i \in Starts(p), NEW j \in Starts(p), j < i PROVE Closers(p, j, i) # {}
    BY <1>0, <1>a, <1>1, <2>3, BeginningFacts DEF InOrder
  <2>4. ASSUME NEW i \in Named(p, "delta")
        PROVE  \E j \in Starts(p) :
                 j < i /\ Closers(p, j, i) = {} /\ p[j].index = p[i].index /\ p[j].kind = p[i].kind
    <3>1. i \in Named(s, "delta") /\ i \in 1..Len(p)
      BY BeginningFacts
    <3>2. PICK j \in Starts(s) :
                 j < i /\ Closers(s, j, i) = {} /\ s[j].index = s[i].index /\ s[j].kind = s[i].kind
      BY <1>1, <3>1 DEF InOrder
    <3>3. j \in 1..Len(p)
      BY <3>1, <3>2, <1>0, NamedFacts DEF Starts
    <3> QED BY <1>0, <1>a, <3>1, <3>2, <3>3, BeginningFacts
  <2> QED BY <2>1, <2>2, <2>3, <2>4 DEF InOrder
<1>2. ASSUME ClosedOnce(s) PROVE ClosedOnce(p)
  <2> SUFFICES ASSUME NEW i \in Starts(p), NEW k \in Closers(p, i, Len(p)),
                      NEW l \in Closers(p, i, Len(p))
               PROVE  k = l
    BY DEF ClosedOnce
  <2>1. i \in 1..Len(p) /\ i \in Starts(s)
    BY <1>a
  <2>2. Closers(p, i, Len(p)) \subseteq Closers(s, i, Len(s))
    BY <1>0, <2>1 DEF Closers
  <2> QED BY <1>2, <2>1, <2>2 DEF ClosedOnce
<1>3. ASSUME Ends(s) = {} PROVE Ends(p) = {}
  BY <1>3, BeginningFacts DEF Ends
<1> QED BY <1>1, <1>2, <1>3

(* One event more: an answer in order stays in order ... *)
LEMMA OthersInOrder ==
  ASSUME NEW s \in Seq(Events), NEW e \in Events, InOrder(s), s # <<>>,
         e.name \notin {"message_start", "block_start", "delta"}
  PROVE  InOrder(Append(s, e))
<1> DEFINE t == Append(s, e)
<1>0. t \in Seq(Events) /\ Beginning(s, t) /\ \A i \in 1..Len(s) : t[i] = s[i]
  BY AppendFacts
<1>1. /\ Starts(t) = Starts(s) /\ Named(t, "delta") = Named(s, "delta")
      /\ Named(t, "message_start") = Named(s, "message_start")
  BY AppendNamed DEF Starts
<1>2. Starts(s) \subseteq 1..Len(s) /\ Named(s, "delta") \subseteq 1..Len(s)
  BY NamedFacts DEF Starts
<1>3. /\ \A i \in 1..Len(s) : Before(s, i) = Before(t, i)
      /\ \A i, j \in 1..Len(s) : Closers(s, i, j) = Closers(t, i, j)
  BY <1>0, BeginningFacts
<1> HIDE DEF t
<1>a. \A i \in Starts(s) : t[i].index = Cardinality(Before(t, i))
  BY <1>0, <1>2, <1>3 DEF InOrder
<1>b. \A i, j \in Starts(s) : j < i => Closers(t, j, i) # {}
  BY <1>2, <1>3 DEF InOrder
<1>c. ASSUME NEW i \in Named(s, "delta")
      PROVE  \E j \in Starts(s) :
               j < i /\ Closers(t, j, i) = {} /\ t[j].index = t[i].index /\ t[j].kind = t[i].kind
  <2>1. PICK j \in Starts(s) :
               j < i /\ Closers(s, j, i) = {} /\ s[j].index = s[i].index /\ s[j].kind = s[i].kind
    BY DEF InOrder
  <2> QED BY <2>1, <1>0, <1>2, <1>3
<1>4. InOrder(t)
  BY <1>1, <1>a, <1>b, <1>c DEF InOrder
<1> QED BY <1>4 DEF t

(* ... whether a block begins when all before are closed ... *)
LEMMA StartInOrder ==
  ASSUME NEW s \in Seq(Events), NEW e \in Events, InOrder(s), s # <<>>, AllClosed(s),
         e.name = "block_start", e.index = Cardinality(Starts(s))
  PROVE  InOrder(Append(s, e))
<1> DEFINE t == Append(s, e)
           n == Len(s) + 1
<1>0. /\ t \in Seq(Events) /\ Beginning(s, t) /\ \A i \in 1..Len(s) : t[i] = s[i]
      /\ t[n] = e /\ Len(s) \in Nat /\ Len(t) = n
  BY AppendFacts
<1>1. /\ Starts(t) = Starts(s) \cup {n} /\ Named(t, "delta") = Named(s, "delta")
      /\ Named(t, "message_start") = Named(s, "message_start")
  <2>1. Named(t, "block_start") = Named(s, "block_start") \cup {n}
    BY AppendNamed
  <2>2. Named(t, "delta") = Named(s, "delta")
    BY AppendNamed
  <2>3. Named(t, "message_start") = Named(s, "message_start")
    BY AppendNamed
  <2> QED BY <2>1, <2>2, <2>3 DEF Starts
<1>2. Starts(s) \subseteq 1..Len(s) /\ Named(s, "delta") \subseteq 1..Len(s)
  BY NamedFacts DEF Starts
<1>3. /\ \A i \in 1..Len(s) : Before(s, i) = Before(t, i)
      /\ \A i, j \in 1..Len(s) : Closers(s, i, j) = Closers(t, i, j)
  BY <1>0, BeginningFacts
<1>4. Before(t, n) = Starts(s)
  BY <1>0, <1>1, <1>2 DEF Before
<1>5. ASSUME NEW j \in Starts(s) PROVE Closers(t, j, n) # {}
  BY <1>2, <1>5, AppendClosers DEF AllClosed
<1> HIDE DEF t, n
<1>6. ASSUME NEW i \in Starts(t) PROVE t[i].index = Cardinality(Before(t, i))
  BY <1>0, <1>1, <1>2, <1>3, <1>4 DEF InOrder
<1>7. ASSUME NEW i \in Starts(t), NEW j \in Starts(t), j < i PROVE Closers(t, j, i) # {}
  <2>1. CASE i = n
    <3>1. j \in Starts(s)
      BY <1>0, <1>1, <1>7, <2>1 DEF n
    <3> QED BY <2>1, <3>1, <1>5
  <2>2. CASE i # n
    <3>1. i \in Starts(s) /\ i \in 1..Len(s)
      BY <2>2, <1>1, <1>2
    <3>2. j \in Starts(s) /\ j \in 1..Len(s)
      BY <3>1, <1>0, <1>1, <1>2, <1>7 DEF n
    <3>3. Closers(s, j, i) # {}
      BY <3>1, <3>2, <1>7 DEF InOrder
    <3> QED BY <3>1, <3>2, <3>3, <1>3
  <2> QED BY <2>1, <2>2
<1>8. ASSUME NEW i \in Named(t, "delta")
      PROVE  \E j \in Starts(t) :
               j < i /\ Closers(t, j, i) = {} /\ t[j].index = t[i].index /\ t[j].kind = t[i].kind
  <2>1. i \in Named(s, "delta") /\ i \in 1..Len(s)
    BY <1>1, <1>2
  <2>2. PICK j \in Starts(s) :
               j < i /\ Closers(s, j, i) = {} /\ s[j].index = s[i].index /\ s[j].kind = s[i].kind
    BY <2>1 DEF InOrder
  <2> QED BY <2>1, <2>2, <1>0, <1>1, <1>2, <1>3
<1>9. InOrder(t)
  BY <1>1, <1>6, <1>7, <1>8 DEF InOrder
<1> QED BY <1>9 DEF t

(* ... or a delta follows of the block that is open. *)
LEMMA DeltaInOrder ==
  ASSUME NEW s \in Seq(Events), NEW e \in Events, InOrder(s), s # <<>>,
         e.name = "delta", NEW K, K = {e.kind}, NEW b \in Nat,
         e.index + 1 = b, LastOpen(s, b, K)
  PROVE  InOrder(Append(s, e))
<1> DEFINE t == Append(s, e)
           n == Len(s) + 1
<1>0. /\ t \in Seq(Events) /\ Beginning(s, t) /\ \A i \in 1..Len(s) : t[i] = s[i]
      /\ t[n] = e /\ Len(s) \in Nat /\ Len(t) = n
  BY AppendFacts
<1>1. /\ Starts(t) = Starts(s) /\ Named(t, "delta") = Named(s, "delta") \cup {n}
      /\ Named(t, "message_start") = Named(s, "message_start")
  <2>1. Named(t, "block_start") = Named(s, "block_start")
    BY AppendNamed
  <2>2. Named(t, "delta") = Named(s, "delta") \cup {n}
    BY AppendNamed
  <2>3. Named(t, "message_start") = Named(s, "message_start")
    BY AppendNamed
  <2> QED BY <2>1, <2>2, <2>3 DEF Starts
<1>2. Starts(s) \subseteq 1..Len(s) /\ Named(s, "delta") \subseteq 1..Len(s)
  BY NamedFacts DEF Starts
<1>3. /\ \A i \in 1..Len(s) : Before(s, i) = Before(t, i)
      /\ \A i, j \in 1..Len(s) : Closers(s, i, j) = Closers(t, i, j)
  BY <1>0, BeginningFacts
<1>4. PICK o \in Starts(s) : s[o].index = b - 1 /\ s[o].kind \in K
                             /\ Closers(s, o, Len(s)) = {}
  BY DEF LastOpen
<1>5. Closers(t, o, n) = {} /\ o < n /\ t[o].index = e.index /\ t[o].kind = e.kind
  <2>1. o \in 1..Len(s) /\ e.index \in Nat
    BY <1>2, <1>4 DEF Events
  <2>2. Closers(t, o, n) = {}
    BY <2>1, <1>4, AppendClosers
  <2> QED BY <2>1, <2>2, <1>4, <1>0
<1> HIDE DEF t, n
<1>8. ASSUME NEW i \in Named(t, "delta")
      PROVE  \E j \in Starts(t) :
               j < i /\ Closers(t, j, i) = {} /\ t[j].index = t[i].index /\ t[j].kind = t[i].kind
  <2>1. CASE i = n
    BY <2>1, <1>0, <1>1, <1>5
  <2>2. CASE i # n
    <3>1. i \in Named(s, "delta") /\ i \in 1..Len(s)
      BY <2>2, <1>1, <1>2
    <3>2. PICK j \in Starts(s) :
               j < i /\ Closers(s, j, i) = {} /\ s[j].index = s[i].index /\ s[j].kind = s[i].kind
      BY <3>1 DEF InOrder
    <3> QED BY <3>1, <3>2, <1>0, <1>1, <1>2, <1>3
  <2> QED BY <2>1, <2>2
<1>a. \A i \in Starts(s) : t[i].index = Cardinality(Before(t, i))
  BY <1>0, <1>2, <1>3 DEF InOrder
<1>b. \A i, j \in Starts(s) : j < i => Closers(t, j, i) # {}
  BY <1>2, <1>3 DEF InOrder
<1>9. InOrder(t)
  BY <1>1, <1>a, <1>b, <1>8 DEF InOrder
<1> QED BY <1>9 DEF t

(* The events of the Anthropic protocol, as they change the blocks. *)
LEMMA MessageStarts ==
  ASSUME NEW e \in Events, e.name = "message_start"
  PROVE  Blocks(<<e>>, 0, {})
<1> DEFINE t == <<e>>
<1>1. t \in Seq(Events) /\ DOMAIN t = {1} /\ t[1] = e
  OBVIOUS
<1>2. Starts(t) = {} /\ Named(t, "message_start") = {1} /\ Named(t, "delta") = {}
  BY <1>1 DEF Starts, Named
<1>3. Cardinality(Starts(t)) = 0
  BY <1>2, FS_EmptySet
<1> HIDE DEF t
<1>4. InOrder(t) /\ ClosedOnce(t) /\ AllClosed(t)
  BY <1>2 DEF InOrder, ClosedOnce, AllClosed
<1>5. Blocks(t, 0, {})
  BY <1>2, <1>3, <1>4 DEF Blocks
<1> QED BY <1>5 DEF t

(* Before the message starts. *)
LEMMA NothingYet == Blocks(<<>>, 0, {}) /\ Ends(<<>>) = {}
<1>1. Starts(<<>>) = {} /\ Named(<<>>, "delta") = {} /\ Ends(<<>>) = {}
  BY DEF Starts, Named, Ends
<1>2. Cardinality(Starts(<<>>)) = 0
  BY <1>1, FS_EmptySet
<1> QED BY <1>1, <1>2 DEF Blocks, InOrder, ClosedOnce, AllClosed

(* How to show that a block is the open one. *)
LEMMA IsLastOpen ==
  ASSUME NEW s \in Seq(Events), NEW b, NEW K, NEW o \in Starts(s), s[o].index = b - 1,
         s[o].kind \in K, Closers(s, o, Len(s)) = {},
         \A j \in Starts(s) : j # o => Closers(s, j, Len(s)) # {}
  PROVE  LastOpen(s, b, K)
  BY DEF LastOpen

(* A block starts when no other is open. *)
LEMMA BlockStarts ==
  ASSUME NEW s \in Seq(Events), NEW e \in Events, NEW b \in Nat, NEW K,
         Blocks(s, b, {}), s # <<>>, e.name = "block_start", e.index = b, K = {e.kind}
  PROVE  Blocks(Append(s, e), b + 1, K)
<1> DEFINE t == Append(s, e)
           n == Len(s) + 1
<1>0. /\ t \in Seq(Events) /\ Beginning(s, t) /\ \A i \in 1..Len(s) : t[i] = s[i]
      /\ t[n] = e /\ Len(s) \in Nat /\ Len(t) = n
  BY AppendFacts
<1>1. Starts(t) = Starts(s) \cup {n}
  BY AppendNamed DEF Starts
<1>2. Starts(s) \subseteq 1..Len(s) /\ n \notin Starts(s)
  <2>1. Starts(s) \subseteq 1..Len(s)
    BY NamedFacts DEF Starts
  <2>2. n \notin 1..Len(s)
    BY <1>0
  <2> QED BY <2>1, <2>2
<1>3. InOrder(t)
  BY StartInOrder DEF Blocks
<1>4. ASSUME NEW i \in Starts(s) PROVE Closers(t, i, n) = Closers(s, i, Len(s))
  BY <1>2, <1>4, AppendClosers
<1>5. Closers(t, n, n) = {}
  <2>1. \A k \in n..n : k = n
    <3>1. n \in Nat
      BY <1>0
    <3> HIDE DEF n
    <3> QED BY <3>1
  <2> HIDE DEF n, t
  <2> QED BY <1>0, <2>1 DEF Closers
<1>6. Cardinality(Starts(t)) = b + 1
  <2>1. Cardinality(Starts(s)) = b /\ IsFiniteSet(Starts(s))
    BY StartsFinite DEF Blocks
  <2>2. Cardinality(Starts(s) \cup {n}) = Cardinality(Starts(s)) + 1
    BY <2>1, <1>2, FS_AddElement
  <2> QED BY <1>1, <2>1, <2>2
<1>7. \A i \in Starts(s) : t[i].index < b /\ t[i].index \in Nat /\ t[i] = s[i]
  BY <1>0, <1>2, EventAt DEF Blocks
<1> HIDE DEF t, n
<1>8. ClosedOnce(t)
  BY <1>0, <1>1, <1>4, <1>5 DEF ClosedOnce, Blocks
<1>9. \A i \in Starts(t) : t[i].index < b + 1
  <2>1. t[n].index = b
    BY <1>0
  <2> QED BY <2>1, <1>1, <1>7
<1>10. \A i, j \in Starts(t) : t[i].index = t[j].index => i = j
  <2>1. t[n].index = b /\ \A i \in Starts(s) : t[i].index # b
    BY <1>0, <1>7
  <2>2. \A i, j \in Starts(s) : t[i].index = t[j].index => i = j
    BY <1>7 DEF Blocks
  <2> QED BY <2>1, <2>2, <1>1
<1>11. LastOpen(t, b + 1, K)
  <2>0. PICK c : c = b + 1
    OBVIOUS
  <2>a. c - 1 = b
    BY <2>0
  <2>1. n \in Starts(t) /\ Closers(t, n, Len(t)) = {}
    BY <1>0, <1>1, <1>5
  <2>2. \A j \in Starts(t) : j # n => Closers(t, j, Len(t)) # {}
    BY <1>0, <1>1, <1>4 DEF Blocks, AllClosed
  <2>3. t[n].index = c - 1
    BY <1>0, <2>a
  <2>4. t[n].kind \in K
    BY <1>0
  <2>5. LastOpen(t, c, K)
    BY <1>0, <2>1, <2>2, <2>3, <2>4, IsLastOpen, Zenon
  <2> QED BY <2>0, <2>5
<1>12. Blocks(t, b + 1, K)
  BY <1>3, <1>6, <1>8, <1>9, <1>10, <1>11 DEF Blocks
<1> QED BY <1>12 DEF t

(* Events that neither start nor stop a block leave the blocks as they are. *)
LEMMA BlocksKept ==
  ASSUME NEW s \in Seq(Events), NEW e \in Events, NEW b \in Nat, NEW K, Blocks(s, b, K),
         s # <<>>,
         \/ e.name \notin {"message_start", "block_start", "block_stop", "delta"}
         \/ e.name = "delta" /\ K = {e.kind} /\ e.index + 1 = b
  PROVE  Blocks(Append(s, e), b, K)
<1> DEFINE t == Append(s, e)
           n == Len(s) + 1
<1>0. /\ t \in Seq(Events) /\ Beginning(s, t) /\ \A i \in 1..Len(s) : t[i] = s[i]
      /\ t[n] = e /\ Len(s) \in Nat /\ Len(t) = n
  BY AppendFacts
<1>1. Starts(t) = Starts(s)
  BY AppendNamed DEF Starts
<1>2. Starts(s) \subseteq 1..Len(s)
  BY <1>0, NamedFacts DEF Starts
<1>3. InOrder(t)
  <2>1. CASE e.name = "delta"
    BY <2>1, DeltaInOrder DEF Blocks
  <2>2. CASE e.name # "delta"
    BY <2>2, OthersInOrder DEF Blocks
  <2> QED BY <2>1, <2>2
<1>4. ASSUME NEW i \in Starts(s) PROVE Closers(t, i, n) = Closers(s, i, Len(s))
  BY <1>2, <1>4, AppendClosers
<1> HIDE DEF t, n
<1>5. \A i \in Starts(s) : t[i] = s[i]
  BY <1>0, <1>2
<1>6. ClosedOnce(t) /\ (AllClosed(s) => AllClosed(t))
  BY <1>0, <1>1, <1>4 DEF ClosedOnce, AllClosed, Blocks
<1>7. ASSUME LastOpen(s, b, K) PROVE LastOpen(t, b, K)
  <2>1. PICK i \in Starts(s) :
           /\ s[i].index = b - 1 /\ s[i].kind \in K /\ Closers(s, i, Len(s)) = {}
           /\ \A j \in Starts(s) : j # i => Closers(s, j, Len(s)) # {}
    BY <1>7 DEF LastOpen
  <2>2. /\ t[i].index = b - 1 /\ t[i].kind \in K /\ Closers(t, i, Len(t)) = {}
    BY <1>0, <1>4, <1>5, <2>1
  <2>3. \A j \in Starts(t) : j # i => Closers(t, j, Len(t)) # {}
    BY <1>0, <1>1, <1>4, <2>1
  <2> QED BY <1>1, <2>2, <2>3 DEF LastOpen
<1>8. Cardinality(Starts(t)) = b
  BY <1>1 DEF Blocks
<1>9. \A i \in Starts(t) : t[i].index < b
  BY <1>1, <1>5 DEF Blocks
<1>10. \A i, j \in Starts(t) : t[i].index = t[j].index => i = j
  BY <1>1, <1>5 DEF Blocks
<1>11. IF K = {} THEN AllClosed(t) ELSE LastOpen(t, b, K)
  BY <1>6, <1>7 DEF Blocks
<1>12. Blocks(t, b, K)
  BY <1>3, <1>6, <1>8, <1>9, <1>10, <1>11 DEF Blocks
<1> QED BY <1>12 DEF t

(* The open block is closed. *)
LEMMA BlockStops ==
  ASSUME NEW s \in Seq(Events), NEW e \in Events, NEW b \in Nat, NEW K, Blocks(s, b, K),
         s # <<>>, K # {}, e.name = "block_stop", e.index + 1 = b
  PROVE  Blocks(Append(s, e), b, {})
<1> DEFINE t == Append(s, e)
           n == Len(s) + 1
<1>0. /\ t \in Seq(Events) /\ Beginning(s, t) /\ \A i \in 1..Len(s) : t[i] = s[i]
      /\ t[n] = e /\ Len(s) \in Nat /\ Len(t) = n /\ e.index \in Nat
  BY AppendFacts DEF Events
<1>1. Starts(t) = Starts(s)
  BY AppendNamed DEF Starts
<1>2. Starts(s) \subseteq 1..Len(s)
  BY <1>0, NamedFacts DEF Starts
<1>3. InOrder(t)
  BY OthersInOrder DEF Blocks
<1>4. PICK o \in Starts(s) :
        /\ s[o].index = e.index /\ Closers(s, o, Len(s)) = {}
        /\ \A j \in Starts(s) : j # o => Closers(s, j, Len(s)) # {}
  <2>1. LastOpen(s, b, K) /\ b - 1 = e.index
    BY <1>0 DEF Blocks
  <2> QED BY <2>1 DEF LastOpen
<1>5. ASSUME NEW i \in Starts(s), i # o PROVE Closers(t, i, n) = Closers(s, i, Len(s))
  <2>1. s[i].index # e.index
    BY <1>4, <1>5 DEF Blocks
  <2> QED BY <2>1, <1>2, <1>5, AppendClosers
<1>6. Closers(t, o, n) = {n}
  <2>1. o \in 1..Len(s) /\ e.name = "block_stop" /\ e.index = s[o].index
    BY <1>2, <1>4
  <2>2. Closers(t, o, n) = Closers(s, o, Len(s)) \cup {n}
    BY <2>1, AppendClosers
  <2> QED BY <2>2, <1>4
<1> HIDE DEF t, n
<1>7. \A i \in Starts(s) : t[i] = s[i]
  BY <1>0, <1>2
<1>8. ClosedOnce(t)
  BY <1>0, <1>1, <1>5, <1>6 DEF ClosedOnce, Blocks
<1>9. AllClosed(t)
  BY <1>0, <1>1, <1>4, <1>5, <1>6 DEF AllClosed
<1>12. Blocks(t, b, {})
  BY <1>1, <1>3, <1>7, <1>8, <1>9 DEF Blocks
<1> QED BY <1>12 DEF t

(* What the events say of the end of the answer. *)
LEMMA EndsFacts ==
  ASSUME NEW s \in Seq(Events), NEW e \in Events, Ends(s) = {}
  PROVE  Ends(Append(s, e)) =
           IF e.name \in {"done", "message_stop", "error"} THEN {Len(s) + 1} ELSE {}
  BY AppendNamed DEF Ends

----------------------------------------------------------------------------
(* The rewriter *)

Rewriters == [opened : BOOLEAN, kind : Kinds \cup {"none"}, index : Nat, stop : Reasons]
Writings == [r : Rewriters, out : Seq(Events)]

(* Appending and concatenating. *)
LEMMA Extended ==
  ASSUME NEW s \in Seq(Events), NEW out \in Seq(Events), NEW e \in Events, NEW f \in Events
  PROVE  /\ s \o <<>> = s /\ s \o out \in Seq(Events)
         /\ Append(out, e) \in Seq(Events) /\ s \o Append(out, e) = Append(s \o out, e)
         /\ out \o Append(<<>>, e) = Append(out, e)
         /\ out \o Append(<<e>>, f) = Append(Append(out, e), f)
<1>1. /\ s \o <<>> = s /\ s \o out \in Seq(Events)
      /\ Append(out, e) \in Seq(Events)
  OBVIOUS
<1>2. s \o Append(out, e) = Append(s \o out, e)
  OBVIOUS
<1>3. out \o Append(<<>>, e) = Append(out, e)
  OBVIOUS
<1>4. out \o Append(<<e>>, f) = Append(Append(out, e), f)
  <2>1. <<e>> \in Seq(Events) /\ out \o <<e>> = Append(out, e)
    BY AppendIsConcat
  <2>2. out \o Append(<<e>>, f) = Append(out \o <<e>>, f)
    BY <2>1
  <2> QED BY <2>1, <2>2
<1> QED BY <1>1, <1>2, <1>3, <1>4

(* Closing events, one by one. *)
LEMMA Triple ==
  ASSUME NEW out \in Seq(Events), NEW e \in Events, NEW f \in Events, NEW g \in Events
  PROVE  /\ <<e, f, g>> \in Seq(Events)
         /\ out \o <<e, f>> = Append(Append(out, e), f)
         /\ out \o <<e, f, g>> = Append(Append(Append(out, e), f), g)
<1> DEFINE a == out \o <<e, f, g>>
           b == Append(Append(Append(out, e), f), g)
<1>1. <<e, f>> \in Seq(Events) /\ Len(<<e, f>>) = 2 /\ <<e, f>>[1] = e /\ <<e, f>>[2] = f
  OBVIOUS
<1>2. <<e, f, g>> \in Seq(Events) /\ Len(<<e, f, g>>) = 3 /\ <<e, f, g>>[1] = e
      /\ <<e, f, g>>[2] = f /\ <<e, f, g>>[3] = g
  OBVIOUS
<1>3. out \o <<e, f>> = Append(Append(out, e), f)
  <2>1. PICK t \in Seq(Events) : t = <<e, f>>
    BY <1>1
  <2>2. out \o t = Append(Append(out, e), f)
    BY <2>1, <1>1
  <2> QED BY <2>1, <2>2
<1>4. out \o <<e, f, g>> = Append(Append(Append(out, e), f), g)
  <2>1. PICK t \in Seq(Events) : t = <<e, f, g>>
    BY <1>2
  <2>2. out \o t = Append(Append(Append(out, e), f), g)
    BY <2>1, <1>2
  <2> QED BY <2>1, <2>2
<1> QED BY <1>2, <1>3, <1>4

Good(w, s) == w \in Writings /\ InStep(w.r, s \o w.out)

(* A rewriter without a kind has begun no block. *)
LEMMA Unopened ==
  ASSUME NEW r \in Rewriters, r.kind = "none"
  PROVE  Begun(r) = 0 /\ Pending(r) = {}
  BY DEF Begun, Pending

(* One with a kind has that block open. *)
LEMMA Opened ==
  ASSUME NEW r \in Rewriters, r.kind # "none"
  PROVE  Begun(r) = r.index + 1 /\ Pending(r) = {r.kind} /\ Begun(r) \in Nat
<1>1. r.index \in Nat
  BY DEF Rewriters
<1>2. Begun(r) = r.index + 1
  BY DEF Begun
<1>3. Pending(r) = {r.kind}
  BY DEF Pending
<1>4. r.index + 1 \in Nat
  BY <1>1
<1> QED BY <1>2, <1>3, <1>4, Zenon

(* A rewriter that is told to open has the message started. *)
LEMMA OpenWrites ==
  ASSUME NEW s \in Seq(Events), NEW r \in Rewriters, InStep(r, s)
  PROVE  /\ Good(Open(r), s) /\ Open(r).r.opened
         /\ Open(r).r.stop = r.stop
         /\ Tokens(s \o Open(r).out) = Tokens(s)
<1> DEFINE q == [r EXCEPT !.opened = TRUE]
<1>1. q \in Rewriters /\ q.opened /\ q.kind = r.kind /\ q.index = r.index /\ q.stop = r.stop
  BY DEF Rewriters
<1>a. CASE r.opened
  <2>1. q = r
    BY <1>a DEF Rewriters
  <2>2. Open(r) = [r |-> q, out |-> <<>>]
    BY <1>a DEF Open, Wrote
  <2>3. Open(r) \in Writings /\ Open(r).r = r /\ Open(r).out = <<>>
    <3>1. Open(r) = [r |-> r, out |-> <<>>]
      BY <2>1, <2>2
    <3> QED BY <3>1 DEF Writings
  <2>4. s \o <<>> = s
    BY Extended
  <2> QED BY <1>a, <2>3, <2>4 DEF Good
<1>b. CASE ~r.opened
  <2>1. PICK e : e = Event("message_start", "none", 0, 0)
    OBVIOUS
  <2>2. e \in Events /\ e.name = "message_start" /\ e.tokens = 0
    BY <2>1 DEF Event, Events, Names
  <2>3. Open(r) = [r |-> q, out |-> <<e>>]
    BY <1>b, <2>1 DEF Open, Wrote
  <2>4. Open(r) \in Writings /\ Open(r).r = q /\ Open(r).out = <<e>>
    BY <1>1, <2>2, <2>3 DEF Writings
  <2>5. s = <<>> /\ r.kind = "none"
    BY <1>b DEF InStep
  <2>6. s \o <<e>> = <<e>> /\ <<e>> = Append(s, e)
    BY <2>2, <2>5
  <2>7. Ends(<<e>>) = {} /\ Tokens(<<e>>) = Tokens(s)
    <3>1. Ends(s) = {} /\ Tokens(s) = 0
      BY <2>5, NothingYet, TokensOfNone
    <3>2. Tokens(Append(s, e)) = Tokens(s)
      BY <2>2, TokensOfSilent
    <3>3. Ends(Append(s, e)) = {}
      BY <3>1, <2>2, EndsFacts
    <3> QED BY <3>2, <3>3, <2>6, Zenon
  <2>8. Blocks(<<e>>, 0, {})
    BY <2>2, MessageStarts
  <2>9. InStep(q, <<e>>)
    BY <1>1, <2>5, <2>7, <2>8, Unopened DEF InStep
  <2> QED BY <2>4, <2>6, <2>7, <2>9, <1>1 DEF Good
<1> QED BY <1>a, <1>b

(* What SwitchBlock does when a block of another kind is open. *)
LEMMA SwitchedOver ==
  ASSUME NEW w \in Writings, NEW kind \in Kinds, w.r.kind # "none", w.r.kind # kind
  PROVE  \E q \in Rewriters :
           /\ SwitchBlock(w, kind) =
                [r |-> q, out |-> w.out \o Append(<<Event("block_stop", w.r.kind, w.r.index, 0)>>,
                                                Event("block_start", kind, w.r.index + 1, 0))]
           /\ q.kind = kind /\ q.kind # "none" /\ q.index = w.r.index + 1
           /\ (w.r.opened => q.opened) /\ q.stop = w.r.stop
<1>1. PICK p \in Rewriters : p = w.r
  BY DEF Writings
<1>2. p.index \in Nat
  BY DEF Rewriters
<1>3. PICK m \in Nat : m = p.index + 1
  BY <1>2
<1>4. PICK q : q = [p EXCEPT !.kind = kind, !.index = m]
  OBVIOUS
<1>5. SwitchBlock(w, kind) =
        [r |-> q, out |-> w.out \o Append(<<Event("block_stop", w.r.kind, w.r.index, 0)>>,
                                        Event("block_start", kind, w.r.index + 1, 0))]
  BY <1>1, <1>3, <1>4, Zenon DEF SwitchBlock, Wrote
<1>7. /\ q \in Rewriters /\ q.kind = kind /\ q.kind # "none" /\ q.index = m
      /\ (p.opened => q.opened) /\ q.stop = p.stop
  BY <1>4 DEF Rewriters, Kinds
<1> QED BY <1>1, <1>3, <1>5, <1>7, Zenon

(* A block of the wanted kind is open afterwards. *)
LEMMA SwitchWrites ==
  ASSUME NEW s \in Seq(Events), NEW w, Good(w, s), w.r.opened, NEW kind \in Kinds
  PROVE  LET v == SwitchBlock(w, kind)
         IN  /\ Good(v, s) /\ v.r.opened /\ v.r.kind = kind /\ v.r.stop = w.r.stop
             /\ Tokens(s \o v.out) = Tokens(s \o w.out)
<1>0. PICK v : v = SwitchBlock(w, kind)
  OBVIOUS
<1>1. PICK t : t = s \o w.out
  OBVIOUS
<1>2. /\ w \in Writings /\ InStep(w.r, t) /\ t \in Seq(Events) /\ t # <<>> /\ Ends(t) = {}
      /\ w.r \in Rewriters /\ w.out \in Seq(Events)
  BY <1>1, Extended DEF Good, Writings, InStep
<1>a. CASE w.r.kind = kind
  BY <1>a, <1>0 DEF SwitchBlock
<1>b. CASE w.r.kind = "none"
  <2>1. PICK e : e = Event("block_start", kind, w.r.index, 0)
    OBVIOUS
  <2>2. w.r.index = 0
    BY <1>2, <1>b DEF InStep
  <2>3. e \in Events /\ e.name = "block_start" /\ e.kind = kind /\ e.index = 0 /\ e.tokens = 0
    BY <2>1, <2>2 DEF Event, Events, Names, Kinds
  <2> DEFINE q == [w.r EXCEPT !.kind = kind, !.index = w.r.index]
  <2>4. v = [r |-> q, out |-> w.out \o Append(<<>>, e)]
    BY <1>0, <1>b, <2>1 DEF SwitchBlock, Wrote, Kinds
  <2>5. q \in Rewriters /\ q.kind = kind /\ q.kind # "none" /\ q.index = 0 /\ q.opened /\ q.stop = w.r.stop
    BY <1>2, <2>2 DEF Rewriters, Kinds
  <2>6. v \in Writings /\ v.r = q /\ v.out = Append(w.out, e)
    BY <1>2, <2>3, <2>4, <2>5, Extended DEF Writings
  <2>7. s \o v.out = Append(t, e)
    <3>1. s \o Append(w.out, e) = Append(s \o w.out, e)
      BY <1>2, <2>3, Extended
    <3> QED BY <1>1, <2>6, <3>1, Zenon
  <2>8. PICK K : K = {e.kind}
    OBVIOUS
  <2>9. Blocks(t, 0, {})
    BY <1>2, <1>b, Unopened DEF InStep
  <2>10. Blocks(Append(t, e), 1, K)
    BY <1>2, <2>3, <2>8, <2>9, BlockStarts
  <2>11. Begun(q) = 1 /\ Pending(q) = K
    <3>1. q.index + 1 = 1
      BY <2>5
    <3> QED BY <2>5, <2>8, <2>3, <3>1, Opened, Zenon
  <2>12. Ends(Append(t, e)) = {} /\ Append(t, e) # <<>>
    <3>1. Append(t, e) # <<>>
      BY <1>2
    <3>2. Ends(Append(t, e)) = {}
      BY <1>2, <2>3, EndsFacts
    <3> QED BY <3>1, <3>2
  <2>13. Tokens(Append(t, e)) = Tokens(t)
    BY <1>2, <2>3, TokensOfSilent
  <2>14. InStep(q, Append(t, e))
    BY <2>5, <2>10, <2>11, <2>12 DEF InStep
  <2> QED BY <1>0, <1>1, <2>5, <2>6, <2>7, <2>13, <2>14 DEF Good
<1>c. CASE w.r.kind # "none" /\ w.r.kind # kind
  <2>1. PICK e : e = Event("block_start", kind, w.r.index + 1, 0)
    OBVIOUS
  <2>2. PICK d : d = Event("block_stop", w.r.kind, w.r.index, 0)
    OBVIOUS
  <2>3. /\ e \in Events /\ e.name = "block_start" /\ e.kind = kind /\ e.index = w.r.index + 1
        /\ e.tokens = 0
        /\ d \in Events /\ d.name = "block_stop" /\ d.index = w.r.index /\ d.tokens = 0
    BY <1>2, <2>1, <2>2 DEF Event, Events, Names, Kinds, Rewriters
  <2>0. w \in Writings
    BY <1>2
  <2>a. PICK q \in Rewriters :
           /\ SwitchBlock(w, kind) =
                [r |-> q, out |-> w.out \o Append(<<Event("block_stop", w.r.kind, w.r.index, 0)>>,
                                                Event("block_start", kind, w.r.index + 1, 0))]
           /\ q.kind = kind /\ q.kind # "none" /\ q.index = w.r.index + 1
           /\ (w.r.opened => q.opened) /\ q.stop = w.r.stop
    BY <1>c, <2>0, SwitchedOver, Zenon
  <2>4. v = [r |-> q, out |-> w.out \o Append(<<d>>, e)]
    BY <1>0, <2>1, <2>2, <2>a, Zenon
  <2>5. /\ q \in Rewriters /\ q.kind = kind /\ q.kind # "none" /\ q.index = w.r.index + 1 /\ q.opened
        /\ q.stop = w.r.stop /\ w.r.index \in Nat
    <3>1. w.r.index \in Nat
      BY <1>2 DEF Rewriters
    <3> QED BY <2>a, <3>1, Zenon
  <2>6. v \in Writings /\ v.r = q /\ v.out = Append(Append(w.out, d), e)
    BY <1>2, <2>3, <2>4, <2>5, Extended DEF Writings
  <2>7. PICK u \in Seq(Events) : u = Append(t, d)
    <3>1. Append(t, d) \in Seq(Events)
      BY <1>2, <2>3, AppendFacts
    <3> QED BY <3>1
  <2>8. s \o v.out = Append(u, e)
    <3>0. s \o Append(w.out, d) = Append(s \o w.out, d) /\ Append(w.out, d) \in Seq(Events)
      BY <1>2, <2>3, Extended
    <3>1. s \o Append(w.out, d) = u /\ Append(w.out, d) \in Seq(Events)
      BY <1>1, <2>7, <3>0, Zenon
    <3>2. s \o Append(Append(w.out, d), e) = Append(s \o Append(w.out, d), e)
      BY <3>1, <2>3, Extended
    <3>3. v.out = Append(Append(w.out, d), e)
      BY <2>6
    <3> QED BY <3>1, <3>2, <3>3
  <2>9. PICK K : K = Pending(w.r)
    OBVIOUS
  <2>10. PICK b \in Nat : b = Begun(w.r)
    BY <1>2, <1>c, Opened
  <2>11. b = w.r.index + 1 /\ K = {w.r.kind} /\ K # {} /\ Blocks(t, b, K)
    BY <1>2, <1>c, <2>9, <2>10, Opened DEF InStep
  <2>12. Blocks(u, b, {})
    BY <1>2, <2>3, <2>5, <2>7, <2>11, BlockStops
  <2>13. PICK L : L = {e.kind}
    OBVIOUS
  <2>14. Ends(u) = {} /\ u # <<>> /\ Tokens(u) = Tokens(t)
    <3>1. d.name \notin {"done", "message_stop", "error"} /\ d \in Events /\ d.tokens = 0
      BY <2>3
    <3>2. Ends(u) = {}
      BY <1>2, <3>1, <2>7, EndsFacts
    <3>3. u # <<>>
      BY <1>2, <3>1, <2>7, AppendFacts
    <3> QED BY <1>2, <3>1, <3>2, <3>3, <2>7, TokensOfSilent
  <2>15. Blocks(Append(u, e), b + 1, L)
    BY <2>3, <2>11, <2>12, <2>13, <2>14, BlockStarts
  <2>16. Begun(q) = b + 1 /\ Pending(q) = L
    BY <2>3, <2>5, <2>11, <2>13, Opened
  <2>17. Ends(Append(u, e)) = {} /\ Append(u, e) # <<>> /\ Tokens(Append(u, e)) = Tokens(u)
    <3>1. e.name \notin {"done", "message_stop", "error"} /\ e \in Events /\ e.tokens = 0
      BY <2>3
    <3>2. Ends(Append(u, e)) = {}
      BY <3>1, <2>14, EndsFacts
    <3> QED BY <3>1, <3>2, TokensOfSilent, AppendFacts
  <2>18. InStep(q, Append(u, e))
    BY <2>5, <2>15, <2>16, <2>17 DEF InStep
  <2> QED BY <1>0, <1>1, <2>5, <2>6, <2>8, <2>14, <2>17, <2>18 DEF Good
<1> QED BY <1>a, <1>b, <1>c

(* A delta is written into a block of its kind. *)
LEMMA DeltaWrites ==
  ASSUME NEW s \in Seq(Events), NEW w, Good(w, s), w.r.opened, NEW kind \in Kinds, NEW n \in Nat
  PROVE  LET v == WriteDelta(w, kind, n)
         IN  /\ Good(v, s) /\ v.r.opened
             /\ (n > 0 \/ w.r.kind # "none") => v.r.kind # "none"
             /\ Tokens(s \o v.out) = Tokens(s \o w.out) + n
             /\ Tokens(s \o w.out) \in Nat
<1>0. PICK v : v = WriteDelta(w, kind, n)
  OBVIOUS
<1>1. w \in Writings /\ w.out \in Seq(Events)
  BY DEF Good, Writings
<1>2. Tokens(s \o w.out) \in Nat
  <2>1. s \o w.out \in Seq(Events)
    BY <1>1, ConcatProperties
  <2> QED BY <2>1, TokensType
<1>a. CASE n = 0
  BY <1>0, <1>2, <1>a DEF WriteDelta
<1>b. CASE n # 0
  <2>1. PICK x : x = SwitchBlock(w, kind)
    OBVIOUS
  <2>2. Good(x, s) /\ x.r.opened /\ x.r.kind = kind /\ Tokens(s \o x.out) = Tokens(s \o w.out)
    BY <2>1, SwitchWrites
  <2>3. PICK e : e = Event("delta", kind, x.r.index, n)
    OBVIOUS
  <2>4. v = [r |-> x.r, out |-> Append(x.out, e)]
    BY <1>0, <1>b, <2>1, <2>3 DEF WriteDelta, Wrote
  <2>5. PICK t : t = s \o x.out
    OBVIOUS
  <2>6. /\ x \in Writings /\ InStep(x.r, t) /\ t \in Seq(Events) /\ t # <<>> /\ Ends(t) = {}
        /\ x.r \in Rewriters /\ x.out \in Seq(Events) /\ x.r.index \in Nat
    BY <2>2, <2>5, Extended DEF Good, Writings, InStep, Rewriters
  <2>7. /\ e \in Events /\ e.name = "delta" /\ e.kind = kind /\ e.index = x.r.index /\ e.tokens = n
    BY <2>3, <2>6 DEF Event, Events, Names, Kinds
  <2>8. v \in Writings /\ v.r = x.r /\ v.out = Append(x.out, e)
    BY <2>4, <2>6, <2>7, Extended DEF Writings
  <2>9. s \o v.out = Append(t, e)
    <3>1. s \o Append(x.out, e) = Append(s \o x.out, e)
      BY <2>6, <2>7, Extended
    <3> QED BY <2>5, <2>8, <3>1, Zenon
  <2>10. kind # "none"
    BY DEF Kinds
  <2>11. PICK K : K = Pending(x.r)
    OBVIOUS
  <2>12. PICK b \in Nat : b = Begun(x.r)
    BY <2>2, <2>6, <2>10, Opened
  <2>13. b = x.r.index + 1 /\ K = {kind} /\ Blocks(t, b, K)
    BY <2>2, <2>6, <2>10, <2>11, <2>12, Opened DEF InStep
  <2>14. Blocks(Append(t, e), b, K)
    <3>1. K = {e.kind} /\ e.index + 1 = b
      BY <2>7, <2>13
    <3> QED BY <2>6, <2>7, <2>13, <3>1, BlocksKept
  <2>15. Ends(Append(t, e)) = {} /\ Append(t, e) # <<>>
    <3>1. e.name \notin {"done", "message_stop", "error"}
      BY <2>7
    <3> QED BY <2>6, <2>7, <3>1, EndsFacts, AppendFacts
  <2>16. Tokens(Append(t, e)) = Tokens(t) + n
    BY <2>6, <2>7, TokensOfAppend
  <2>17. InStep(x.r, Append(t, e))
    BY <2>2, <2>6, <2>11, <2>12, <2>14, <2>15, Zenon DEF InStep
  <2> QED BY <1>0, <1>2, <2>2, <2>5, <2>8, <2>9, <2>10, <2>16, <2>17 DEF Good
<1> QED BY <1>a, <1>b

Pieces == [text : Nat, thinking : Nat, tool : Nat,
           end : {"none", "stop", "length", "tool_calls", "done"}]

(* What a chunk becomes keeps the answer in step with the rewriter. *)
LEMMA RewriteWrites ==
  ASSUME NEW s \in Seq(Events), NEW r \in Rewriters, InStep(r, s), s # <<>> => r.kind # "none",
         NEW chunk \in Pieces
  PROVE  LET w == Rewrite(r, chunk)
         IN  /\ Good(w, s)
             /\ s \o w.out # <<>> => w.r.kind # "none"
             /\ Tokens(s \o w.out) = Tokens(s) + chunk.text + chunk.thinking
<1>0. PICK w : w = Rewrite(r, chunk)
  OBVIOUS
<1>1. PICK told : told = IF chunk.end \in {"none", "done"} THEN r
                         ELSE [r EXCEPT !.stop = StopReason(chunk.end)]
  OBVIOUS
<1>2. told \in Rewriters /\ told.kind = r.kind /\ told.index = r.index /\ told.opened = r.opened
  <2>1. StopReason(chunk.end) \in Reasons
    BY DEF StopReason, Reasons
  <2> QED BY <1>1, <2>1 DEF Rewriters
<1>3. InStep(told, s)
  <2>1. Begun(told) = Begun(r) /\ Pending(told) = Pending(r)
    BY <1>2, Zenon DEF Begun, Pending
  <2> QED BY <1>2, <2>1, Zenon DEF InStep
<1>4. chunk.text \in Nat /\ chunk.thinking \in Nat
  BY DEF Pieces
<1>5. Tokens(s) \in Nat
  BY TokensType
<1>a. CASE chunk.text + chunk.thinking = 0
  <2>1. w = [r |-> told, out |-> <<>>]
    BY <1>0, <1>1, <1>a DEF Rewrite, Wrote
  <2>2. w \in Writings /\ w.r = told /\ w.out = <<>>
    BY <1>2, <2>1 DEF Writings
  <2>3. s \o w.out = s
    BY <2>2, Extended
  <2>4. Good(w, s)
    BY <1>3, <2>2, <2>3, Zenon DEF Good
  <2>5. Tokens(s \o w.out) = Tokens(s) + chunk.text + chunk.thinking
    BY <1>a, <1>4, <1>5, <2>3
  <2> QED BY <1>0, <1>2, <2>2, <2>3, <2>4, <2>5, Zenon
<1>b. CASE chunk.text + chunk.thinking # 0
  <2>1. PICK x : x = Open(told)
    OBVIOUS
  <2>2. Good(x, s) /\ x.r.opened /\ Tokens(s \o x.out) = Tokens(s)
    BY <1>2, <1>3, <2>1, OpenWrites
  <2>3. PICK y : y = WriteDelta(x, "thinking", chunk.thinking)
    OBVIOUS
  <2>4. "thinking" \in Kinds /\ "text" \in Kinds
    BY DEF Kinds
  <2>5. /\ Good(y, s) /\ y.r.opened /\ (chunk.thinking > 0 => y.r.kind # "none")
        /\ Tokens(s \o y.out) = Tokens(s \o x.out) + chunk.thinking
    BY <1>4, <2>2, <2>3, <2>4, DeltaWrites
  <2>6. w = WriteDelta(y, "text", chunk.text)
    BY <1>0, <1>1, <1>b, <2>1, <2>3, Zenon DEF Rewrite
  <2>7. /\ Good(w, s) /\ (chunk.text > 0 \/ y.r.kind # "none" => w.r.kind # "none")
        /\ Tokens(s \o w.out) = Tokens(s \o y.out) + chunk.text
    BY <1>4, <2>4, <2>5, <2>6, DeltaWrites
  <2>8. w.r.kind # "none"
    <3>1. chunk.text > 0 \/ chunk.thinking > 0
      BY <1>b, <1>4
    <3> QED BY <2>5, <2>7, <3>1
  <2>9. Tokens(s \o w.out) = Tokens(s) + chunk.text + chunk.thinking
    BY <1>4, <1>5, <2>2, <2>5, <2>7
  <2> QED BY <1>0, <2>7, <2>8, <2>9, Zenon
<1> QED BY <1>a, <1>b

(* Closing brings the message to its end. *)
LEMMA FinishCloses ==
  ASSUME NEW s \in Seq(Events), NEW r \in Rewriters, InStep(r, s)
  PROVE  LET t == s \o Finish(r).out
         IN  /\ Finish(r).out \in Seq(Events) /\ t \in Seq(Events)
             /\ Closed(t) /\ t[Len(t) - 1].kind = r.stop
             /\ Tokens(t) = Tokens(s)
<1>1. PICK x : x = Open(r)
  OBVIOUS
<1>2. Good(x, s) /\ x.r.opened /\ Tokens(s \o x.out) = Tokens(s) /\ x.r.stop = r.stop
  BY <1>1, OpenWrites
<1>3. PICK w : w = SwitchBlock(x, "text")
  OBVIOUS
<1>4. /\ Good(w, s) /\ w.r.opened /\ w.r.kind = "text" /\ w.r.stop = r.stop
      /\ Tokens(s \o w.out) = Tokens(s)
  <2>1. "text" \in Kinds
    BY DEF Kinds
  <2> QED BY <1>2, <1>3, <2>1, SwitchWrites
<1>5. PICK t : t = s \o w.out
  OBVIOUS
<1>6. /\ InStep(w.r, t) /\ t \in Seq(Events) /\ t # <<>> /\ Ends(t) = {}
      /\ w.r \in Rewriters /\ w.out \in Seq(Events) /\ w.r.index \in Nat /\ w.r.stop \in Reasons
  BY <1>4, <1>5, Extended DEF Good, Writings, InStep, Rewriters
<1>7. PICK d : d = Event("block_stop", "text", w.r.index, 0)
  OBVIOUS
<1>8. PICK e : e = Event("message_delta", w.r.stop, 0, 0)
  OBVIOUS
<1>9. PICK f : f = Event("message_stop", "none", 0, 0)
  OBVIOUS
<1>10. d \in Events /\ d.name = "block_stop" /\ d.index = w.r.index /\ d.tokens = 0
  BY <1>6, <1>7 DEF Event, Events, Names, Kinds
<1>11. e \in Events /\ e.name = "message_delta" /\ e.kind = r.stop /\ e.tokens = 0
  BY <1>4, <1>6, <1>8 DEF Event, Events, Names
<1>12. f \in Events /\ f.name = "message_stop" /\ f.tokens = 0
  BY <1>9 DEF Event, Events, Names
<1>13. Finish(r).out = w.out \o <<d, e, f>>
  BY <1>1, <1>3, <1>7, <1>8, <1>9 DEF Finish, Wrote
<1>14. PICK t1 \in Seq(Events) : t1 = Append(t, d)
  BY <1>6, <1>10, AppendFacts
<1>15. PICK t2 \in Seq(Events) : t2 = Append(t1, e)
  BY <1>11, <1>14, AppendFacts
<1>16. PICK t3 \in Seq(Events) : t3 = Append(t2, f)
  BY <1>12, <1>15, AppendFacts
<1>17. Finish(r).out \in Seq(Events) /\ s \o Finish(r).out = t3
  <2>0. d \in Events /\ e \in Events /\ f \in Events
    BY <1>10, <1>11, <1>12
  <2>o. PICK o \in Seq(Events) : o = w.out
    BY <1>6
  <2>1. PICK o1 \in Seq(Events) : o1 = Append(o, d)
    BY <2>0, AppendFacts
  <2>2. PICK o2 \in Seq(Events) : o2 = Append(o1, e)
    BY <1>11, AppendFacts
  <2>3. PICK o3 \in Seq(Events) : o3 = Append(o2, f)
    BY <1>12, AppendFacts
  <2>4. Finish(r).out = o3
    <3>1. o \o <<d, e, f>> = Append(Append(Append(o, d), e), f)
      BY <2>0, Triple
    <3> QED BY <1>13, <2>o, <2>1, <2>2, <2>3, <3>1, Zenon
  <2>5. s \o o1 = t1
    <3>1. s \o Append(o, d) = Append(s \o o, d)
      BY <2>0, Extended
    <3> QED BY <1>5, <1>14, <2>o, <2>1, <3>1, Zenon
  <2>6. s \o o2 = t2
    <3>1. s \o Append(o1, e) = Append(s \o o1, e)
      BY <2>0, Extended
    <3> QED BY <1>15, <2>2, <2>5, <3>1, Zenon
  <2>7. s \o o3 = t3
    <3>1. s \o Append(o2, f) = Append(s \o o2, f)
      BY <2>0, Extended
    <3> QED BY <1>16, <2>3, <2>6, <3>1, Zenon
  <2> QED BY <2>4, <2>7
<1>18. PICK b \in Nat : b = Begun(w.r)
  BY <1>4, <1>6, Opened
<1>19. PICK K : K = Pending(w.r)
  OBVIOUS
<1>20. b = w.r.index + 1 /\ K = {"text"} /\ K # {} /\ Blocks(t, b, K)
  BY <1>4, <1>6, <1>18, <1>19, Opened DEF InStep
<1>21. Blocks(t1, b, {}) /\ t1 # <<>> /\ Ends(t1) = {} /\ Tokens(t1) = Tokens(t)
  <2>1. d.name \notin {"done", "message_stop", "error"}
    BY <1>10
  <2>2. Blocks(t1, b, {})
    BY <1>6, <1>10, <1>14, <1>20, BlockStops
  <2>3. t1 # <<>>
    BY <1>6, <1>10, <1>14, AppendFacts
  <2>4. Ends(t1) = {}
    BY <1>6, <1>10, <1>14, <2>1, EndsFacts
  <2>5. Tokens(t1) = Tokens(t)
    BY <1>6, <1>10, <1>14, TokensOfSilent
  <2> QED BY <2>2, <2>3, <2>4, <2>5
<1>22. Blocks(t2, b, {}) /\ t2 # <<>> /\ Ends(t2) = {} /\ Tokens(t2) = Tokens(t1)
       /\ t2[Len(t2)].kind = r.stop
  <2>1. /\ e.name \notin {"done", "message_stop", "error"}
        /\ e.name \notin {"message_start", "block_start", "block_stop", "delta"}
    BY <1>11
  <2>2. Blocks(t2, b, {})
    BY <1>11, <1>15, <1>21, <2>1, BlocksKept
  <2>3. t2[Len(t2)] = e
    BY <1>11, <1>15, AppendFacts
  <2>4. t2 # <<>>
    BY <1>11, <1>15, AppendFacts
  <2>5. Ends(t2) = {}
    BY <1>11, <1>15, <1>21, <2>1, EndsFacts
  <2>6. Tokens(t2) = Tokens(t1)
    BY <1>11, <1>15, TokensOfSilent
  <2>7. t2[Len(t2)].kind = r.stop
    BY <1>11, <2>3
  <2> QED BY <2>2, <2>4, <2>5, <2>6, <2>7
<1>23. Blocks(t3, b, {}) /\ t3 # <<>> /\ Ends(t3) = {Len(t3)} /\ Tokens(t3) = Tokens(t2)
       /\ t3[Len(t3) - 1].kind = r.stop
  <2>1. /\ f.name \in {"done", "message_stop", "error"}
        /\ f.name \notin {"message_start", "block_start", "block_stop", "delta"}
    BY <1>12
  <2>2. Blocks(t3, b, {})
    BY <1>12, <1>16, <1>22, <2>1, BlocksKept
  <2>3. Len(t3) = Len(t2) + 1 /\ Len(t2) \in 1..Len(t2) /\ \A i \in 1..Len(t2) : t3[i] = t2[i]
    BY <1>12, <1>16, <1>22, AppendFacts
  <2>4. t3[Len(t3) - 1] = t2[Len(t2)]
    BY <2>3
  <2>5. Ends(t3) = {Len(t3)}
    BY <1>12, <1>16, <1>22, <2>1, <2>3, EndsFacts
  <2>6. t3 # <<>>
    BY <1>12, <1>16, AppendFacts
  <2>7. Tokens(t3) = Tokens(t2)
    BY <1>12, <1>16, TokensOfSilent
  <2> QED BY <1>22, <2>2, <2>4, <2>5, <2>6, <2>7
<1>24. Closed(t3)
  BY <1>23 DEF Closed, Blocks
<1> QED BY <1>4, <1>5, <1>17, <1>21, <1>22, <1>23, <1>24, Zenon

----------------------------------------------------------------------------
(* Lines and what they become *)

Leeway == {2 * n : n \in Sizes} \cup {0}

(* The lines a site can send. *)
LEMMA LineFacts ==
  ASSUME NEW line \in Possible
  PROVE  /\ line \in Pieces /\ open # "ended"
         /\ line.end # "none" => line.text = 0 /\ line.thinking = 0 /\ line.tool = 0
         /\ StreamDelta(line) \in Nat
         /\ \E size \in Leeway : StreamDelta(line) <= size
<1>1. /\ open # "ended"
      /\ line \in Deltas \cup {Blank} \cup Finishing \cup {Ending}
  BY DEF Possible
<1>2. Sizes \subseteq Nat /\ 0 \in Leeway
  BY StreamAssumption DEF Leeway
<1>a. CASE line \in Deltas
  <2>1. PICK n \in Sizes : line \in {Line(n, 0, 0, "none"), Line(0, n, 0, "none"),
                                     Line(0, 0, n, "none"), Line(n, n, 0, "none")}
    BY <1>a DEF Deltas
  <2>2. n \in Nat /\ 2 * n \in Leeway
    BY <1>2 DEF Leeway
  <2>3. line \in Pieces /\ line.end = "none"
    BY <2>1, <2>2 DEF Line, Pieces
  <2>4. StreamDelta(line) \in Nat /\ StreamDelta(line) <= 2 * n
    BY <2>1, <2>2 DEF Line, StreamDelta
  <2> QED BY <1>1, <2>2, <2>3, <2>4
<1>b. CASE line \in {Blank} \cup Finishing \cup {Ending}
  <2>1. line.text = 0 /\ line.thinking = 0 /\ line.tool = 0 /\ line \in Pieces
    BY <1>b DEF Blank, Finishing, Ending, Line, Pieces
  <2>2. StreamDelta(line) = 0
    BY <2>1 DEF StreamDelta
  <2> QED BY <1>1, <1>2, <2>1, <2>2
<1> QED BY <1>1, <1>a, <1>b

(* What is left of a line when it is converted: one chunk or none. *)
LEMMA ChunkFacts ==
  ASSUME NEW line \in Possible
  PROVE  /\ Metered(line) \in Nat /\ Metered(line) <= StreamDelta(line)
         /\ line.end # "none" => Metered(line) = 0
         /\ \/ Chunks(line) = <<>> /\ Metered(line) = 0 /\ (line.end = "done" => UseAnthropic)
            \/ \E c \in Pieces :
                 /\ Chunks(line) = <<c>> /\ Metered(line) = StreamDelta(c)
                 /\ c.end # "none" => Metered(line) = 0
                 /\ c.end = "done" <=> line.end = "done" /\ ~UseAnthropic
<1>1. line \in Pieces /\ (line.end # "none" => line.text = 0 /\ line.thinking = 0 /\ line.tool = 0)
  BY LineFacts
<1>2. line.text \in Nat /\ line.thinking \in Nat /\ line.tool \in Nat
  BY <1>1 DEF Pieces
<1>a. CASE ~UseAnthropic
  <2>1. Chunks(line) = <<line>>
    BY <1>a DEF Chunks
  <2>2. Metered(line) = StreamDelta(line)
    BY <2>1 DEF Metered
  <2>3. StreamDelta(line) \in Nat /\ (line.end # "none" => StreamDelta(line) = 0)
    BY <1>1, <1>2 DEF StreamDelta
  <2> QED BY <1>a, <1>1, <2>1, <2>2, <2>3
<1>b. CASE UseAnthropic
  <2>1. Chunks(line) = Converted(line)
    BY <1>b DEF Chunks
  <2>a. CASE line.text > 0
    <3>1. PICK c : c = Line(line.text, 0, 0, "none")
      OBVIOUS
    <3>2. Chunks(line) = <<c>>
      BY <2>1, <2>a, <3>1 DEF Converted
    <3>3. c \in Pieces /\ c.text = line.text /\ c.thinking = 0 /\ c.tool = 0 /\ c.end = "none"
      BY <1>2, <3>1 DEF Line, Pieces
    <3>4. Metered(line) = StreamDelta(c)
      BY <3>2 DEF Metered
    <3>5. StreamDelta(c) = line.text /\ line.text <= StreamDelta(line)
      BY <1>2, <3>3 DEF StreamDelta
    <3>6. line.end = "none"
      BY <1>1, <1>2, <2>a
    <3> QED BY <1>2, <3>2, <3>3, <3>4, <3>5, <3>6
  <2>b. CASE ~(line.text > 0) /\ line.end \in {"stop", "length", "tool_calls"}
    <3>1. PICK c : c = Line(0, 0, 0, IF line.end = "length" THEN "length" ELSE "stop")
      OBVIOUS
    <3>2. Chunks(line) = <<c>>
      BY <2>1, <2>b, <3>1 DEF Converted
    <3>3. c \in Pieces /\ c.text = 0 /\ c.thinking = 0 /\ c.tool = 0 /\ c.end \in {"length", "stop"}
      BY <3>1 DEF Line, Pieces
    <3>4. Metered(line) = StreamDelta(c)
      BY <3>2 DEF Metered
    <3>5. StreamDelta(c) = 0 /\ 0 <= StreamDelta(line)
      BY <1>2, <3>3 DEF StreamDelta
    <3> QED BY <2>b, <3>2, <3>3, <3>4, <3>5
  <2>c. CASE ~(line.text > 0) /\ line.end \notin {"stop", "length", "tool_calls"}
    <3>1. Chunks(line) = <<>>
      BY <2>1, <2>c DEF Converted
    <3>2. Metered(line) = 0 /\ 0 <= StreamDelta(line)
      BY <1>2, <3>1 DEF Metered, StreamDelta
    <3> QED BY <1>b, <3>1, <3>2
  <2> QED BY <2>a, <2>b, <2>c
<1> QED BY <1>a, <1>b

(* What a line becomes for a caller of /v1/messages ... *)
LEMMA MessagesEmitted ==
  ASSUME NEW line \in Possible, endpoint = "messages", sent \in Seq(Events), rewriter \in Rewriters,
         InStep(rewriter, sent), sent # <<>> => rewriter.kind # "none"
  PROVE  LET w == Emitted(line)
         IN  /\ Good(w, sent)
             /\ sent \o w.out # <<>> => w.r.kind # "none"
             /\ Tokens(sent \o w.out) <= Tokens(sent) + Metered(line)
             /\ Tokens(sent \o w.out) \in Nat /\ Tokens(sent) \in Nat
<1>0. PICK w : w = Emitted(line)
  OBVIOUS
<1>1. Tokens(sent) \in Nat /\ Metered(line) \in Nat
  BY TokensType, ChunkFacts
<1>a. CASE Chunks(line) = <<>>
  <2>1. w = [r |-> rewriter, out |-> <<>>]
    BY <1>0, <1>a DEF Emitted, Wrote
  <2>2. w \in Writings /\ w.r = rewriter /\ w.out = <<>>
    BY <2>1 DEF Writings
  <2>3. sent \o w.out = sent
    BY <2>2
  <2> QED BY <1>0, <1>1, <2>2, <2>3 DEF Good
<1>b. CASE Chunks(line) # <<>>
  <2>1. PICK c \in Pieces : Chunks(line) = <<c>> /\ Metered(line) = StreamDelta(c)
    BY <1>b, ChunkFacts
  <2>2. w = Rewrite(rewriter, c)
    BY <1>0, <1>b, <2>1 DEF Emitted
  <2>3. /\ Good(w, sent)
        /\ sent \o w.out # <<>> => w.r.kind # "none"
        /\ Tokens(sent \o w.out) = Tokens(sent) + c.text + c.thinking
    BY <2>2, RewriteWrites
  <2>4. c.text \in Nat /\ c.thinking \in Nat /\ c.tool \in Nat
    BY DEF Pieces
  <2>5. Metered(line) = c.text + c.thinking + c.tool
    BY <2>1 DEF StreamDelta
  <2>6. Tokens(sent \o w.out) <= Tokens(sent) + Metered(line) /\ Tokens(sent \o w.out) \in Nat
    BY <1>1, <2>3, <2>4, <2>5
  <2> QED BY <1>0, <1>1, <2>3, <2>6, Zenon
<1> QED BY <1>a, <1>b

(* ... and for a caller of the other endpoints. *)
LEMMA OthersEmitted ==
  ASSUME NEW line \in Possible, endpoint # "messages"
  PROVE  LET w == Emitted(line)
         IN  /\ w.r = rewriter
             /\ \/ w.out = <<>> /\ Metered(line) = 0 /\ (line.end = "done" => UseAnthropic)
                \/ \E p \in Events :
                     /\ w.out = <<p>> /\ p.tokens = Metered(line)
                     /\ p.name \in {"line", "finish", "done"}
                     /\ p.name = "done" <=> line.end = "done" /\ ~UseAnthropic
<1>0. PICK w : w = Emitted(line)
  OBVIOUS
<1>a. CASE Chunks(line) = <<>>
  <2>1. w = [r |-> rewriter, out |-> <<>>]
    BY <1>0, <1>a DEF Emitted, Wrote
  <2>2. Metered(line) = 0 /\ (line.end = "done" => UseAnthropic)
    <3>1. \A c \in Pieces : <<c>> # <<>>
      OBVIOUS
    <3> QED BY <1>a, <3>1, ChunkFacts
  <2> QED BY <1>0, <2>1, <2>2
<1>b. CASE Chunks(line) # <<>>
  <2>1. PICK c \in Pieces :
          /\ Chunks(line) = <<c>> /\ Metered(line) = StreamDelta(c)
          /\ c.end # "none" => Metered(line) = 0
          /\ c.end = "done" <=> line.end = "done" /\ ~UseAnthropic
    BY <1>b, ChunkFacts
  <2>2. PICK p : p = PassedOn(c)
    OBVIOUS
  <2>3. w = [r |-> rewriter, out |-> <<p>>]
    BY <1>0, <1>b, <2>1, <2>2 DEF Emitted, Wrote
  <2>4. StreamDelta(c) \in Nat
    BY <2>1, ChunkFacts
  <2>5. /\ p \in Events /\ p.name \in {"line", "finish", "done"} /\ p.tokens = Metered(line)
        /\ p.name = "done" <=> c.end = "done"
    <3>1. CASE c.end = "done"
      BY <2>1, <2>2, <3>1 DEF PassedOn, Event, Events, Names
    <3>2. CASE c.end = "none"
      BY <2>1, <2>2, <2>4, <3>2 DEF PassedOn, Event, Events, Names
    <3>3. CASE c.end \notin {"done", "none"}
      <4>1. c.end \in Reasons
        BY <3>3 DEF Pieces, Reasons
      <4> QED BY <2>1, <2>2, <3>3, <4>1 DEF PassedOn, Event, Events, Names
    <3> QED BY <3>1, <3>2, <3>3
  <2> QED BY <1>0, <2>1, <2>3, <2>5
<1> QED BY <1>a, <1>b

\* The event before the last gives a limit as its reason.
ToldOfLimit(s) == s[Len(s) - 1].kind \in {"max_tokens", "length", "incomplete"}

\* The answer while it is piped.
Underway ==
  IF endpoint = "messages"
  THEN InStep(rewriter, sent) /\ (sent # <<>> => rewriter.kind # "none")
  ELSE Passed(sent) /\ Ends(sent) = IF open = "ended" /\ ~UseAnthropic THEN {Len(sent)} ELSE {}

\* The counter covers what was sent; only for /v1/messages, or a caller who left
\* in the middle of a line, does it count more.
Measured ==
  /\ Delivered <= counted
  /\ endpoint # "messages" /\ result # "gone" => counted = Delivered

TypeOK ==
  /\ endpoint \in {"chat", "responses", "messages"} /\ limit \in Nat
  /\ pc \in {"send", "piping", "returned", "answered"}
  /\ site \in {"openai", "anthropic"} /\ open \in {"open", "finished", "ended"}
  /\ counted \in Nat /\ rewriter \in Rewriters /\ sent \in Seq(Events)
  /\ result \in {"none", "ok", "capped", "gone", "broken", "shortfall"}
  /\ booked \in Nat \cup {-1}

(* Lines passed on, and one more. *)
LEMMA PassedAppend ==
  ASSUME NEW s \in Seq(Events), NEW e \in Events, Passed(s), e.name \in {"line", "finish", "done"}
  PROVE  Passed(Append(s, e))
<1> DEFINE t == Append(s, e)
<1>1. /\ DOMAIN t = 1..(Len(s) + 1) /\ t[Len(s) + 1] = e /\ \A i \in 1..Len(s) : t[i] = s[i]
      /\ Len(s) \in Nat /\ DOMAIN s = 1..Len(s)
  OBVIOUS
<1> HIDE DEF t
<1>2. \A i \in 1..(Len(s) + 1) : i = Len(s) + 1 \/ i \in 1..Len(s)
  BY <1>1
<1>3. Passed(t)
  BY <1>1, <1>2 DEF Passed
<1> QED BY <1>3 DEF t

(* Nothing is passed on at first. *)
LEMMA PassedNothing == Passed(<<>>)
  BY DEF Passed

(* Lines passed on are closed with a finish that names the limit and [DONE]. *)
LEMMA OthersTruncated ==
  ASSUME NEW s \in Seq(Events), endpoint \in {"chat", "responses"}, Passed(s), Ends(s) = {}
  PROVE  LET t == s \o Truncation
         IN  /\ t \in Seq(Events) /\ Passed(t) /\ Ends(t) = {Len(t)} /\ ToldOfLimit(t)
             /\ Tokens(t) = Tokens(s)
<1>1. PICK e : e = Event("finish", IF endpoint = "chat" THEN "length" ELSE "incomplete", 0, 0)
  OBVIOUS
<1>2. PICK f : f = Event("done", "none", 0, 0)
  OBVIOUS
<1>3. Truncation = <<e, f>>
  BY <1>1, <1>2 DEF Truncation
<1>4. e \in Events /\ e.name = "finish" /\ e.kind \in {"length", "incomplete"} /\ e.tokens = 0
  BY <1>1 DEF Event, Events, Names, Reasons
<1>5. f \in Events /\ f.name = "done" /\ f.tokens = 0
  BY <1>2 DEF Event, Events, Names
<1>6. PICK t1 \in Seq(Events) : t1 = Append(s, e)
  BY <1>4, AppendFacts
<1>7. PICK t2 \in Seq(Events) : t2 = Append(t1, f)
  BY <1>5, AppendFacts
<1>8. s \o Truncation = t2
  BY <1>3, <1>4, <1>5, <1>6, <1>7, Triple
<1>9. Passed(t2) /\ Ends(t1) = {} /\ Ends(t2) = {Len(t2)} /\ Tokens(t2) = Tokens(s)
  <2>1. Passed(t1) /\ Passed(t2)
    BY <1>4, <1>5, <1>6, <1>7, PassedAppend
  <2>2. Ends(t1) = {}
    <3>1. e.name \notin {"done", "message_stop", "error"}
      BY <1>4
    <3> QED BY <1>4, <1>6, <3>1, EndsFacts
  <2>3. Ends(t2) = {Len(t1) + 1}
    <3>1. f.name \in {"done", "message_stop", "error"}
      BY <1>5
    <3> QED BY <1>5, <1>7, <2>2, <3>1, EndsFacts
  <2>4. Len(t2) = Len(t1) + 1
    BY <1>5, <1>7, AppendFacts
  <2>5. Tokens(t2) = Tokens(t1) /\ Tokens(t1) = Tokens(s)
    BY <1>4, <1>5, <1>6, <1>7, TokensOfSilent
  <2> QED BY <2>1, <2>2, <2>3, <2>4, <2>5
<1>10. ToldOfLimit(t2)
  <2>1. Len(t2) = Len(t1) + 1 /\ Len(t1) = Len(s) + 1 /\ Len(s) \in Nat /\ t1[Len(t1)] = e
        /\ \A i \in 1..Len(t1) : t2[i] = t1[i]
    BY <1>4, <1>5, <1>6, <1>7, AppendFacts
  <2>2. t2[Len(t2) - 1] = e
    BY <2>1
  <2> QED BY <2>2, <1>4 DEF ToldOfLimit
<1> QED BY <1>8, <1>9, <1>10, Zenon

(* finishTruncatedMessages closes block 0: right when no other was begun. *)
LEMMA MessagesTruncated ==
  ASSUME endpoint = "messages", rewriter \in Rewriters, sent \in Seq(Events),
         InStep(rewriter, sent), rewriter.kind # "none", sent # <<>>
  PROVE  LET t == sent \o Truncation
         IN  /\ t \in Seq(Events) /\ t # <<>> /\ InOrder(t) /\ Ends(t) = {Len(t)}
             /\ Tokens(t) = Tokens(sent)
             /\ rewriter.index = 0 => ClosedOnce(t) /\ AllClosed(t)
<1>1. PICK d : d = Event("block_stop", "text", 0, 0)
  OBVIOUS
<1>2. PICK e : e = Event("message_delta", "max_tokens", 0, 0)
  OBVIOUS
<1>3. PICK f : f = Event("message_stop", "none", 0, 0)
  OBVIOUS
<1>4. Truncation = <<d, e, f>>
  BY <1>1, <1>2, <1>3 DEF Truncation
<1>5. d \in Events /\ d.name = "block_stop" /\ d.index = 0 /\ d.tokens = 0
  BY <1>1 DEF Event, Events, Names, Kinds
<1>6. e \in Events /\ e.name = "message_delta" /\ e.tokens = 0
  BY <1>2 DEF Event, Events, Names, Reasons
<1>7. f \in Events /\ f.name = "message_stop" /\ f.tokens = 0
  BY <1>3 DEF Event, Events, Names
<1>8. PICK t1 \in Seq(Events) : t1 = Append(sent, d)
  BY <1>5, AppendFacts
<1>9. PICK t2 \in Seq(Events) : t2 = Append(t1, e)
  BY <1>6, AppendFacts
<1>10. PICK t3 \in Seq(Events) : t3 = Append(t2, f)
  BY <1>7, AppendFacts
<1>11. sent \o Truncation = t3
  <2>1. sent \o <<d, e, f>> = Append(Append(Append(sent, d), e), f)
    BY <1>5, <1>6, <1>7, Triple
  <2> QED BY <1>4, <1>8, <1>9, <1>10, <2>1, Zenon
<1>a. /\ d.name \notin {"done", "message_stop", "error"}
      /\ d.name \notin {"message_start", "block_start", "delta"}
  BY <1>5
<1>b. /\ e.name \notin {"done", "message_stop", "error"}
      /\ e.name \notin {"message_start", "block_start", "block_stop", "delta"}
  BY <1>6
<1>c. /\ f.name \in {"done", "message_stop", "error"}
      /\ f.name \notin {"message_start", "block_start", "block_stop", "delta"}
  BY <1>7
<1>12. t1 # <<>> /\ t2 # <<>> /\ t3 # <<>> /\ Len(t3) = Len(t2) + 1
  BY <1>5, <1>6, <1>7, <1>8, <1>9, <1>10, AppendFacts
<1>13. InOrder(t3)
  <2>1. InOrder(sent)
    BY DEF InStep, Blocks
  <2>2. InOrder(t1)
    BY <2>1, <1>5, <1>8, <1>a, OthersInOrder
  <2>3. InOrder(t2)
    BY <2>2, <1>6, <1>9, <1>12, <1>b, OthersInOrder
  <2> QED BY <2>3, <1>7, <1>10, <1>12, <1>c, OthersInOrder
<1>14. Ends(t3) = {Len(t3)}
  <2>1. Ends(sent) = {}
    BY DEF InStep
  <2>2. Ends(t1) = {}
    BY <2>1, <1>5, <1>8, <1>a, EndsFacts
  <2>3. Ends(t2) = {}
    BY <2>2, <1>6, <1>9, <1>b, EndsFacts
  <2> QED BY <2>3, <1>7, <1>10, <1>12, <1>c, EndsFacts
<1>15. Tokens(t3) = Tokens(sent)
  <2>1. Tokens(t1) = Tokens(sent)
    BY <1>5, <1>8, TokensOfSilent
  <2>2. Tokens(t2) = Tokens(t1)
    BY <1>6, <1>9, TokensOfSilent
  <2>3. Tokens(t3) = Tokens(t2)
    BY <1>7, <1>10, TokensOfSilent
  <2> QED BY <2>1, <2>2, <2>3
<1>16. ASSUME rewriter.index = 0
       PROVE  ClosedOnce(t3) /\ AllClosed(t3)
  <2>1. PICK K : K = Pending(rewriter)
    OBVIOUS
  <2>2. Begun(rewriter) = rewriter.index + 1 /\ Pending(rewriter) = {rewriter.kind}
    BY Opened
  <2>3. rewriter.index + 1 = 1
    BY <1>16
  <2>4. Blocks(sent, 1, K) /\ K # {}
    BY <2>1, <2>2, <2>3 DEF InStep
  <2>5. Blocks(t1, 1, {})
    BY <2>4, <1>5, <1>8, BlockStops
  <2>6. Blocks(t2, 1, {})
    BY <2>5, <1>6, <1>9, <1>12, <1>b, BlocksKept
  <2>7. Blocks(t3, 1, {})
    BY <2>6, <1>7, <1>10, <1>12, <1>c, BlocksKept
  <2> QED BY <2>7 DEF Blocks
<1> QED BY <1>11, <1>12, <1>13, <1>14, <1>15, <1>16, Zenon

\* The answer with the events of a line.
Going(r, t, n) ==
  /\ r \in Rewriters /\ t \in Seq(Events) /\ Tokens(t) \in Nat /\ Tokens(t) <= n
  /\ endpoint = "messages" => InStep(r, t) /\ (t # <<>> => r.kind # "none")
  /\ endpoint # "messages" => Passed(t) /\ Tokens(t) = n

(* One line more: the answer with it is as much under way as without. *)
LEMMA LineEmitted ==
  ASSUME TypeOK, Underway, Measured, result # "gone", NEW line \in Possible,
         NEW w, w = Emitted(line), NEW t, t = sent \o w.out
  PROVE  /\ Going(w.r, t, counted + Metered(line)) /\ w.out \in Seq(Events)
         /\ Ends(t) = IF endpoint # "messages" /\ line.end = "done" /\ ~UseAnthropic
                      THEN {Len(t)} ELSE {}
         /\ endpoint # "messages" => Len(w.out) <= 1 /\ Ends(sent) = {}
<1>1. open # "ended" /\ Metered(line) \in Nat
  BY LineFacts, ChunkFacts
<1>2. counted \in Nat /\ sent \in Seq(Events) /\ rewriter \in Rewriters
  BY DEF TypeOK
<1>3. Tokens(sent) \in Nat /\ Tokens(sent) <= counted
      /\ (endpoint # "messages" => Tokens(sent) = counted)
  BY <1>2, TokensType DEF Measured, Delivered
<1>a. CASE endpoint = "messages"
  <2>1. InStep(rewriter, sent) /\ (sent # <<>> => rewriter.kind # "none")
    BY <1>a DEF Underway
  <2>2. /\ Good(w, sent) /\ (t # <<>> => w.r.kind # "none")
        /\ Tokens(t) <= Tokens(sent) + Metered(line) /\ Tokens(t) \in Nat
    BY <1>a, <1>2, <2>1, MessagesEmitted
  <2>3. w \in Writings /\ InStep(w.r, t)
    BY <2>2 DEF Good
  <2>4. w.r \in Rewriters /\ w.out \in Seq(Events)
    BY <2>3 DEF Writings
  <2>5. t \in Seq(Events)
    BY <1>2, <2>4, ConcatProperties
  <2>6. Ends(t) = {}
    BY <2>3 DEF InStep
  <2>7. Tokens(t) <= counted + Metered(line)
    BY <1>1, <1>2, <1>3, <2>2
  <2> QED BY <1>a, <2>2, <2>3, <2>4, <2>5, <2>6, <2>7 DEF Going
<1>b. CASE endpoint # "messages"
  <2>1. Passed(sent) /\ Ends(sent) = {}
    BY <1>b, <1>1 DEF Underway
  <2>2. w.r = rewriter
    BY <1>b, OthersEmitted
  <2>a. CASE w.out = <<>> /\ Metered(line) = 0 /\ (line.end = "done" => UseAnthropic)
    <3>1. t = sent /\ w.out \in Seq(Events) /\ Len(w.out) <= 1
      BY <1>2, <2>a
    <3>2. counted + Metered(line) = counted
      BY <1>2, <2>a
    <3> QED BY <1>2, <1>3, <1>b, <2>1, <2>2, <2>a, <3>1, <3>2, Zenon DEF Going
  <2>b. ASSUME NEW p \in Events, w.out = <<p>>, p.tokens = Metered(line),
               p.name \in {"line", "finish", "done"},
               p.name = "done" <=> line.end = "done" /\ ~UseAnthropic
        PROVE  /\ Going(w.r, t, counted + Metered(line)) /\ w.out \in Seq(Events)
               /\ Ends(t) = IF line.end = "done" /\ ~UseAnthropic THEN {Len(t)} ELSE {}
               /\ Len(w.out) <= 1
    <3>1. t = Append(sent, p) /\ w.out \in Seq(Events) /\ Len(w.out) <= 1
      BY <1>2, <2>b
    <3>2. t \in Seq(Events) /\ Len(t) = Len(sent) + 1
      BY <1>2, <3>1, AppendFacts
    <3>3. Passed(t)
      BY <1>2, <2>1, <2>b, <3>1, PassedAppend
    <3>4. Tokens(t) = counted + Metered(line)
      BY <1>2, <1>3, <1>b, <2>b, <3>1, TokensOfAppend
    <3>5. Ends(t) = IF p.name = "done" THEN {Len(t)} ELSE {}
      BY <1>2, <2>1, <2>b, <3>1, <3>2, EndsFacts
    <3>6. counted + Metered(line) \in Nat
      BY <1>1, <1>2
    <3>7. Going(w.r, t, counted + Metered(line))
      BY <1>2, <1>b, <2>2, <3>2, <3>3, <3>4, <3>6 DEF Going
    <3> QED BY <2>b, <3>1, <3>5, <3>7
  <2>3. \/ w.out = <<>> /\ Metered(line) = 0 /\ (line.end = "done" => UseAnthropic)
        \/ \E p \in Events :
             /\ w.out = <<p>> /\ p.tokens = Metered(line)
             /\ p.name \in {"line", "finish", "done"}
             /\ p.name = "done" <=> line.end = "done" /\ ~UseAnthropic
    BY <1>b, OthersEmitted
  <2> QED BY <1>b, <2>1, <2>3, <2>a, <2>b
<1> QED BY <1>a, <1>b

----------------------------------------------------------------------------
(* The invariant, and that every action keeps it *)

(* An answer past the hard cap is closed and says so. *)
LEMMA CappedCloses ==
  ASSUME TypeOK, NEW r, NEW t, NEW n, Going(r, t, n), Ends(t) = {}, NEW u, u = t \o Capped(r)
  PROVE  /\ u \in Seq(Events) /\ ToldOfLimit(u) /\ Tokens(u) = Tokens(t)
         /\ IF endpoint = "messages" THEN Closed(u) ELSE Passed(u) /\ Ends(u) = {Len(u)}
<1>a. CASE endpoint = "messages"
  <2>1. PICK q : q = [r EXCEPT !.stop = "max_tokens"]
    OBVIOUS
  <2>2. r \in Rewriters /\ t \in Seq(Events) /\ InStep(r, t)
    BY <1>a DEF Going
  <2>3. q \in Rewriters /\ q.kind = r.kind /\ q.index = r.index /\ q.opened = r.opened
        /\ q.stop = "max_tokens"
    BY <2>1, <2>2 DEF Rewriters, Reasons
  <2>4. InStep(q, t)
    <3>1. Begun(q) = Begun(r) /\ Pending(q) = Pending(r)
      BY <2>3, Zenon DEF Begun, Pending
    <3> QED BY <2>2, <2>3, <3>1, Zenon DEF InStep
  <2>5. u = t \o Finish(q).out
    BY <1>a, <2>1 DEF Capped
  <2>6. u \in Seq(Events) /\ Closed(u) /\ u[Len(u) - 1].kind = "max_tokens" /\ Tokens(u) = Tokens(t)
    BY <2>2, <2>3, <2>4, <2>5, FinishCloses
  <2> QED BY <1>a, <2>6 DEF ToldOfLimit
<1>b. CASE endpoint # "messages"
  <2>1. endpoint \in {"chat", "responses"}
    BY <1>b DEF TypeOK
  <2>2. t \in Seq(Events) /\ Passed(t)
    BY <1>b DEF Going
  <2>3. u = t \o Truncation
    BY <1>b DEF Capped
  <2> QED BY <1>b, <2>1, <2>2, <2>3, OthersTruncated
<1> QED BY <1>a, <1>b

(* A line is never longer than the leeway. *)
LEMMA SizeOfLine ==
  ASSUME NEW line \in Possible
  PROVE  \E size \in Leeway : size \in Nat /\ Metered(line) <= size
<1>1. PICK size \in Leeway : StreamDelta(line) <= size
  BY LineFacts
<1>2. size \in Nat
  <2>1. \A m \in Sizes : m \in Nat
    BY StreamAssumption
  <2>2. \A m \in Sizes : 2 * m \in Nat
    BY <2>1
  <2> QED BY <2>2 DEF Leeway
<1>3. Metered(line) \in Nat /\ Metered(line) <= StreamDelta(line) /\ StreamDelta(line) \in Nat
  BY ChunkFacts, LineFacts
<1> QED BY <1>1, <1>2, <1>3

(* What is counted, against what was sent. *)
WithinALine ==
  \E size \in Leeway :
    /\ result = "gone" /\ endpoint # "messages" => counted <= Delivered + size
    /\ OutputHardCap > 0 => counted <= OutputHardCap + size

CountOK ==
  /\ booked >= 0 <=> pc = "answered"
  /\ pc = "answered" => booked = counted
  /\ pc \in {"send", "piping"} => result \in {"none", "shortfall"}
  /\ pc = "piping" => Measured /\ ~OverCap(counted)
  /\ pc \in {"returned", "answered"} => result # "none" /\ Measured /\ WithinALine

(* What was sent, by how the stream returned. *)
\* The stream came to its end ...
Ended ==
  IF endpoint = "messages" THEN Closed(sent)
  ELSE Passed(sent) /\ Ends(sent) \subseteq {Len(sent)} /\ (open = "ended" => Ends(sent) # {})

\* ... or passed the hard cap ...
CutAtLimit ==
  /\ ToldOfLimit(sent)
  /\ IF endpoint = "messages" THEN Closed(sent) ELSE Passed(sent) /\ Ends(sent) = {Len(sent)}

\* ... or its caller left ...
BrokenOff ==
  /\ IF endpoint = "messages" THEN InOrder(sent) /\ ClosedOnce(sent) ELSE Passed(sent)
  /\ Ends(sent) = {}

\* ... or no account was left for a shortfall.  Then a 503 is all that is sent, or
\* the answer is closed, in which block 0 is taken for the open one.
Shortened ==
  \/ Len(sent) = 1 /\ sent[1].name = "error"
  \/ endpoint # "messages" /\ Passed(sent) /\ Ends(sent) = {Len(sent)}
  \/ /\ endpoint = "messages" /\ sent # <<>> /\ InOrder(sent) /\ Ends(sent) = {Len(sent)}
     /\ rewriter.index = 0 => ClosedOnce(sent) /\ AllClosed(sent)

SentOK ==
  /\ pc = "send" => sent = <<>>
  /\ pc = "piping" => Underway
  /\ pc \in {"returned", "answered"} =>
       /\ result = "ok" => Ended
       /\ result = "capped" => CutAtLimit
       /\ result = "gone" => BrokenOff
       /\ result = "broken" => Underway
  /\ pc = "returned" /\ result = "shortfall" => Underway /\ open # "ended"
  /\ pc = "answered" /\ result = "shortfall" => Shortened

StreamInv == TypeOK /\ CountOK /\ SentOK

(* The hard cap is a number. *)
LEMMA CapType ==
  ASSUME TypeOK PROVE OutputHardCap \in Nat
<1>1. limit \in Nat
  BY DEF TypeOK
<1>2. limit \div 4 \in Nat
  BY <1>1
<1> QED BY <1>1, <1>2 DEF OutputHardCap

(* The invariant holds at first ... *)
LEMMA InitInv == Init => StreamInv
<1> SUFFICES ASSUME Init PROVE StreamInv
  OBVIOUS
<1>1. NewRewriter \in Rewriters
  BY DEF NewRewriter, Rewriters, Reasons
<1>2. <<>> \in Seq(Events) /\ limit \in Nat
  BY StreamAssumption DEF Init
<1>3. TypeOK
  BY <1>1, <1>2 DEF Init, TypeOK
<1>4. CountOK
  BY DEF Init, CountOK
<1>5. SentOK
  BY DEF Init, SentOK
<1> QED BY <1>3, <1>4, <1>5 DEF StreamInv

(* ... a call that is answered begins an attempt ... *)
LEMMA SendStep ==
  ASSUME StreamInv, NEW s \in {"openai", "anthropic"}, Send(s)
  PROVE  StreamInv'
<1>0. TypeOK /\ CountOK /\ SentOK
  BY DEF StreamInv
<1>1. NewRewriter \in Rewriters /\ NewRewriter.kind = "none" /\ NewRewriter.index = 0
      /\ ~NewRewriter.opened
  BY DEF NewRewriter, Rewriters, Reasons
<1>2. sent = <<>> /\ sent' = <<>>
  BY <1>0 DEF Send, SentOK
<1>3. TypeOK'
  BY <1>0, <1>1 DEF Send, TypeOK, request
<1>4. Underway'
  <2>1. Begun(NewRewriter) = 0 /\ Pending(NewRewriter) = {}
    BY <1>1, Unopened
  <2>2. InStep(NewRewriter, <<>>)
    BY <1>1, <2>1, NothingYet, Zenon DEF InStep
  <2>3. Passed(<<>>) /\ Ends(<<>>) = {}
    BY PassedNothing, NothingYet
  <2> QED BY <1>2, <2>2, <2>3 DEF Send, Underway
<1>5. CountOK'
  <2>1. Tokens(<<>>) = 0
    BY TokensOfNone
  <2>2. Measured'
    BY <1>2, <2>1 DEF Send, Measured, Delivered
  <2>3. ~OverCap(counted)'
    <3>1. OutputHardCap' = OutputHardCap /\ OutputHardCap \in Nat /\ counted' = 0
      BY <1>0, CapType DEF Send, OutputHardCap, request
    <3> QED BY <3>1 DEF OverCap
  <2> QED BY <1>0, <2>2, <2>3 DEF Send, CountOK
<1>6. SentOK'
  BY <1>4 DEF Send, SentOK
<1> QED BY <1>3, <1>5, <1>6 DEF StreamInv

(* The count stays within a line of the cap. *)
LEMMA CountGrows ==
  ASSUME TypeOK, ~OverCap(counted), NEW line \in Possible
  PROVE  /\ counted + Metered(line) \in Nat
         /\ \E size \in Leeway :
              /\ size \in Nat /\ Metered(line) <= size
              /\ OutputHardCap > 0 => counted + Metered(line) <= OutputHardCap + size
<1>1. counted \in Nat /\ OutputHardCap \in Nat /\ Metered(line) \in Nat
  BY CapType, ChunkFacts DEF TypeOK
<1>2. PICK size \in Leeway : size \in Nat /\ Metered(line) <= size
  BY SizeOfLine
<1>3. OutputHardCap > 0 => counted <= OutputHardCap
  BY <1>1 DEF OverCap
<1> QED BY <1>1, <1>2, <1>3

(* ... each line read keeps it ... *)
LEMMA ReadLineStep ==
  ASSUME StreamInv, NEW line \in Possible, ReadLine(line)
  PROVE  StreamInv'
<1>0. TypeOK /\ CountOK /\ SentOK /\ pc = "piping"
  BY DEF StreamInv, ReadLine
<1>1. Underway /\ Measured /\ ~OverCap(counted) /\ result \in {"none", "shortfall"} /\ booked = -1
  BY <1>0 DEF CountOK, SentOK, TypeOK
<1>2. PICK w : w = Emitted(line)
  OBVIOUS
<1>3. PICK t : t = sent \o w.out
  OBVIOUS
<1>4. PICK n : n = counted + Metered(line)
  OBVIOUS
<1>5. /\ Going(w.r, t, n) /\ w.out \in Seq(Events)
      /\ Ends(t) = IF endpoint # "messages" /\ line.end = "done" /\ ~UseAnthropic
                   THEN {Len(t)} ELSE {}
  <2>1. result # "gone"
    BY <1>1
  <2> QED BY <1>0, <1>1, <1>2, <1>3, <1>4, <2>1, LineEmitted
<1>6. /\ n \in Nat
      /\ \E size \in Leeway : OutputHardCap > 0 => n <= OutputHardCap + size
  BY <1>0, <1>1, <1>4, CountGrows
<1>7. /\ counted' = n /\ rewriter' = w.r /\ endpoint' = endpoint /\ limit' = limit
      /\ site' = site /\ booked' = booked
      /\ open' = IF line.end = "none" THEN open ELSE IF line.end = "done" THEN "ended" ELSE "finished"
      /\ IF OverCap(n)
         THEN sent' = t \o Capped(w.r) /\ pc' = "returned" /\ result' = "capped"
         ELSE sent' = t /\ pc' = pc /\ result' = result
  BY <1>2, <1>3, <1>4 DEF ReadLine, Returns, request
<1>8. OutputHardCap' = OutputHardCap
  BY <1>7 DEF OutputHardCap
<1>9. w.r \in Rewriters /\ t \in Seq(Events) /\ Tokens(t) \in Nat /\ Tokens(t) <= n
      /\ (endpoint # "messages" => Tokens(t) = n)
  BY <1>5 DEF Going
<1>10. open' \in {"open", "finished", "ended"} /\ open # "ended"
  <2>1. open # "ended"
    BY LineFacts
  <2> QED BY <2>1, <1>0, <1>7 DEF TypeOK
<1>a. CASE ~OverCap(n)
  <2>1. sent' = t /\ pc' = "piping" /\ result' = result
    BY <1>0, <1>7, <1>a
  <2>2. TypeOK'
    BY <1>0, <1>6, <1>7, <1>9, <1>10, <2>1 DEF TypeOK
  <2>3. CountOK'
    <3>1. Measured'
      BY <1>7, <1>9, <2>1 DEF Measured, Delivered
    <3>2. ~OverCap(counted)'
      BY <1>7, <1>8, <1>a DEF OverCap
    <3> QED BY <1>1, <1>7, <2>1, <3>1, <3>2 DEF CountOK
  <2>4. Underway'
    <3>1. CASE endpoint = "messages"
      BY <1>5, <1>7, <2>1, <3>1 DEF Going, Underway
    <3>2. CASE endpoint # "messages"
      <4>1. Passed(t)
        BY <1>5, <3>2 DEF Going
      <4>2. UseAnthropic' <=> UseAnthropic
        BY <1>7 DEF UseAnthropic
      <4>3. open' = "ended" <=> line.end = "done"
        BY <1>7, <1>10
      <4>4. Ends(t) = IF open' = "ended" /\ ~UseAnthropic' THEN {Len(t)} ELSE {}
        BY <1>5, <3>2, <4>2, <4>3
      <4> QED BY <1>7, <2>1, <3>2, <4>1, <4>4 DEF Underway
    <3> QED BY <3>1, <3>2
  <2>5. SentOK'
    BY <2>1, <2>4 DEF SentOK
  <2> QED BY <2>2, <2>3, <2>5 DEF StreamInv
<1>b. CASE OverCap(n)
  <2>1. PICK u : u = t \o Capped(w.r)
    OBVIOUS
  <2>2. sent' = u /\ pc' = "returned" /\ result' = "capped"
    BY <1>7, <1>b, <2>1
  <2>3. line.end # "done"
    <3>1. SUFFICES ASSUME line.end = "done" PROVE FALSE
      OBVIOUS
    <3>2. Metered(line) = 0
      BY <3>1, ChunkFacts
    <3>3. n = counted
      BY <1>0, <1>4, <3>2 DEF TypeOK
    <3> QED BY <1>1, <1>b, <3>3
  <2>4. Ends(t) = {}
    BY <1>5, <2>3
  <2>5. /\ u \in Seq(Events) /\ ToldOfLimit(u) /\ Tokens(u) = Tokens(t)
        /\ IF endpoint = "messages" THEN Closed(u) ELSE Passed(u) /\ Ends(u) = {Len(u)}
    BY <1>0, <1>5, <2>1, <2>4, CappedCloses
  <2>6. TypeOK'
    BY <1>0, <1>6, <1>7, <1>9, <1>10, <2>2, <2>5 DEF TypeOK
  <2>7. CountOK'
    <3>1. Measured'
      BY <1>7, <1>9, <2>2, <2>5 DEF Measured, Delivered
    <3>2. WithinALine'
      BY <1>6, <1>7, <1>8, <2>2 DEF WithinALine
    <3> QED BY <1>1, <1>7, <2>2, <3>1, <3>2 DEF CountOK
  <2>8. SentOK'
    BY <1>7, <2>2, <2>5 DEF SentOK, CutAtLimit
  <2> QED BY <2>6, <2>7, <2>8 DEF StreamInv
<1> QED BY <1>a, <1>b

(* ... also when the caller leaves in the middle of one ... *)
LEMMA CallerGoneStep ==
  ASSUME StreamInv, NEW line \in Possible, CallerGone(line)
  PROVE  StreamInv'
<1>0. TypeOK /\ CountOK /\ SentOK /\ pc = "piping"
  BY DEF StreamInv, CallerGone
<1>1. Underway /\ Measured /\ ~OverCap(counted) /\ result \in {"none", "shortfall"} /\ booked = -1
  BY <1>0 DEF CountOK, SentOK, TypeOK
<1>2. PICK w : w = Emitted(line)
  OBVIOUS
<1>3. PICK t : t = sent \o w.out
  OBVIOUS
<1>4. PICK n : n = counted + Metered(line)
  OBVIOUS
<1>5. /\ Going(w.r, t, n) /\ w.out \in Seq(Events)
      /\ Ends(t) = IF endpoint # "messages" /\ line.end = "done" /\ ~UseAnthropic
                   THEN {Len(t)} ELSE {}
      /\ endpoint # "messages" => Len(w.out) <= 1 /\ Ends(sent) = {}
  <2>1. result # "gone"
    BY <1>1
  <2> QED BY <1>0, <1>1, <1>2, <1>3, <1>4, <2>1, LineEmitted
<1>6. PICK size \in Leeway : /\ size \in Nat /\ Metered(line) <= size
                             /\ OutputHardCap > 0 => n <= OutputHardCap + size
  BY <1>0, <1>1, <1>4, CountGrows
<1>7. /\ counted' = n /\ rewriter' = w.r /\ endpoint' = endpoint /\ limit' = limit
      /\ site' = site /\ booked' = booked /\ open' = open
      /\ pc' = "returned" /\ result' = "gone"
  BY <1>2, <1>4 DEF CallerGone, Returns, request
<1>8. PICK i \in 0..(Len(w.out) - 1) : sent' = sent \o SubSeq(w.out, 1, i)
  BY <1>2 DEF CallerGone
<1>9. w.r \in Rewriters /\ t \in Seq(Events) /\ Tokens(t) \in Nat /\ Tokens(t) <= n
      /\ (endpoint # "messages" => Tokens(t) = n) /\ n \in Nat
  <2>1. n \in Nat
    BY <1>0, <1>1, <1>4, CountGrows
  <2> QED BY <2>1, <1>5 DEF Going
<1>10. PICK p : p = SubSeq(w.out, 1, i)
  OBVIOUS
<1>11. sent' = sent \o p /\ p \in Seq(Events) /\ Len(p) = i /\ \A j \in 1..i : p[j] = w.out[j]
  BY <1>5, <1>8, <1>10
<1>12. sent \in Seq(Events) /\ Len(sent) \in Nat
  BY <1>0 DEF TypeOK
<1>13. sent' \in Seq(Events) /\ Beginning(sent', t)
  <2>1. PICK o \in Seq(Events) : o = w.out
    BY <1>5
  <2>2. i \in Nat /\ i <= Len(o) /\ Len(o) \in Nat
    BY <1>8, <2>1
  <2>3. PICK q \in Seq(Events) : q = sent \o p
    BY <1>11, <1>12, ConcatProperties
  <2>4. Len(q) = Len(sent) + i /\ \A j \in 1..(Len(sent) + i) :
            q[j] = IF j <= Len(sent) THEN sent[j] ELSE p[j - Len(sent)]
    BY <1>11, <1>12, <2>3, ConcatProperties
  <2>5. Len(t) = Len(sent) + Len(o) /\ \A j \in 1..(Len(sent) + Len(o)) :
            t[j] = IF j <= Len(sent) THEN sent[j] ELSE o[j - Len(sent)]
    BY <1>3, <1>12, <2>1, ConcatProperties
  <2>6. ASSUME NEW j \in 1..Len(q) PROVE q[j] = t[j]
    <3>1. j \in 1..(Len(sent) + i) /\ j \in 1..(Len(sent) + Len(o))
      BY <1>12, <2>2, <2>4
    <3>2. CASE j <= Len(sent)
      BY <3>1, <3>2, <2>4, <2>5
    <3>3. CASE ~(j <= Len(sent))
      <4>1. j - Len(sent) \in 1..i
        BY <1>12, <2>2, <3>1, <3>3
      <4>2. p[j - Len(sent)] = o[j - Len(sent)]
        BY <1>11, <2>1, <4>1
      <4> QED BY <3>1, <3>3, <2>4, <2>5, <4>2
    <3> QED BY <3>2, <3>3
  <2>7. Len(q) <= Len(t)
    BY <1>12, <2>2, <2>4, <2>5
  <2> QED BY <1>11, <2>3, <2>6, <2>7 DEF Beginning
<1>14. TypeOK'
  BY <1>0, <1>7, <1>9, <1>13 DEF TypeOK
<1>15. OutputHardCap' = OutputHardCap
  BY <1>7 DEF OutputHardCap
<1>16. Tokens(sent') \in Nat /\ Tokens(sent') <= n
  <2>1. Tokens(sent') \in Nat /\ Tokens(sent') <= Tokens(t)
    BY <1>9, <1>13, TokensOfBeginning
  <2> QED BY <2>1, <1>9
<1>17. ASSUME endpoint # "messages"
       PROVE  sent' = sent /\ Passed(sent) /\ Ends(sent) = {} /\ n <= Tokens(sent) + size
  <2>1. Len(w.out) <= 1 /\ Len(w.out) \in Nat /\ Ends(sent) = {}
    BY <1>5, <1>17
  <2>2. i = 0
    BY <2>1
  <2>3. p = <<>>
    BY <1>11, <2>2
  <2>4. sent' = sent
    BY <1>11, <1>12, <2>3
  <2>5. Passed(sent)
    BY <1>1, <1>17 DEF Underway
  <2>6. counted = Tokens(sent) /\ counted \in Nat /\ Metered(line) \in Nat
    BY <1>0, <1>1, <1>17, ChunkFacts DEF Measured, Delivered, TypeOK
  <2>7. n <= Tokens(sent) + size
    BY <1>4, <1>6, <2>6
  <2> QED BY <2>1, <2>4, <2>5, <2>7
<1>18. CountOK'
  <2>1. Measured'
    BY <1>7, <1>16 DEF Measured, Delivered
  <2>2. WithinALine'
    <3>1. endpoint # "messages" => n <= Tokens(sent') + size
      BY <1>17
    <3> QED BY <1>6, <1>7, <1>15, <3>1 DEF WithinALine, Delivered
  <2> QED BY <1>1, <1>7, <2>1, <2>2 DEF CountOK
<1>19. BrokenOff'
  <2>1. CASE endpoint = "messages"
    <3>1. InOrder(t) /\ ClosedOnce(t) /\ Ends(t) = {}
      BY <1>5, <2>1 DEF Going, InStep, Blocks
    <3>2. InOrder(sent') /\ ClosedOnce(sent') /\ Ends(sent') = {}
      BY <1>9, <1>13, <3>1, BeginningInOrder
    <3> QED BY <1>7, <2>1, <3>2 DEF BrokenOff
  <2>2. CASE endpoint # "messages"
    BY <1>7, <1>17, <2>2 DEF BrokenOff
  <2> QED BY <2>1, <2>2
<1>20. SentOK'
  BY <1>7, <1>19 DEF SentOK
<1> QED BY <1>14, <1>18, <1>20 DEF StreamInv

(* A stream that returns without sending more has been counted as it was. *)
LEMMA CountedAsBefore ==
  ASSUME TypeOK, CountOK, pc = "piping",
         endpoint' = endpoint, limit' = limit, counted' = counted, booked' = booked,
         pc' = "returned", result' \in {"ok", "broken", "shortfall"},
         Tokens(sent') = Tokens(sent)
  PROVE  CountOK'
<1>1. Measured /\ ~OverCap(counted) /\ result \in {"none", "shortfall"} /\ booked = -1
      /\ counted \in Nat /\ OutputHardCap \in Nat
  BY CapType DEF CountOK, TypeOK
<1>2. OutputHardCap' = OutputHardCap
  BY DEF OutputHardCap
<1>3. Measured'
  BY <1>1 DEF Measured, Delivered
<1>4. 0 \in Leeway /\ (OutputHardCap > 0 => counted <= OutputHardCap + 0)
  BY <1>1 DEF OverCap, Leeway
<1>5. WithinALine'
  BY <1>2, <1>4 DEF WithinALine
<1> QED BY <1>1, <1>3, <1>5 DEF CountOK

(* ... the stream returns with an error event of the site ... *)
LEMMA ShortfallStep ==
  ASSUME StreamInv, Shortfall
  PROVE  StreamInv'
<1>0. TypeOK /\ CountOK /\ SentOK
  BY DEF StreamInv
<1>1. /\ pc = "piping" /\ open # "ended" /\ pc' = "returned" /\ result' = "shortfall"
      /\ endpoint' = endpoint /\ limit' = limit /\ site' = site /\ open' = open
      /\ counted' = counted /\ rewriter' = rewriter /\ sent' = sent /\ booked' = booked
  BY DEF Shortfall, Returns, request
<1>2. TypeOK'
  BY <1>0, <1>1 DEF TypeOK
<1>3. CountOK'
  BY <1>0, <1>1, CountedAsBefore
<1>4. Underway'
  BY <1>0, <1>1 DEF SentOK, Underway, UseAnthropic
<1>5. SentOK'
  BY <1>1, <1>4 DEF SentOK
<1> QED BY <1>2, <1>3, <1>5 DEF StreamInv

(* ... breaks off ... *)
LEMMA ReadFailsStep ==
  ASSUME StreamInv, ReadFails
  PROVE  StreamInv'
<1>0. TypeOK /\ CountOK /\ SentOK
  BY DEF StreamInv
<1>1. /\ pc = "piping" /\ pc' = "returned" /\ result' = "broken"
      /\ endpoint' = endpoint /\ limit' = limit /\ site' = site /\ open' = open
      /\ counted' = counted /\ rewriter' = rewriter /\ sent' = sent /\ booked' = booked
  BY DEF ReadFails, Returns, request
<1>2. TypeOK'
  BY <1>0, <1>1 DEF TypeOK
<1>3. CountOK'
  BY <1>0, <1>1, CountedAsBefore
<1>4. Underway'
  BY <1>0, <1>1 DEF SentOK, Underway, UseAnthropic
<1>5. SentOK'
  BY <1>1, <1>4 DEF SentOK
<1> QED BY <1>2, <1>3, <1>5 DEF StreamInv

(* ... or ends ... *)
LEMMA EndOfStreamStep ==
  ASSUME StreamInv, EndOfStream
  PROVE  StreamInv'
<1>0. TypeOK /\ CountOK /\ SentOK
  BY DEF StreamInv
<1>1. /\ pc = "piping" /\ pc' = "returned" /\ result' = "ok"
      /\ endpoint' = endpoint /\ limit' = limit /\ site' = site /\ open' = open
      /\ counted' = counted /\ rewriter' = rewriter /\ sent' = sent \o Closing /\ booked' = booked
  BY DEF EndOfStream, Returns, request
<1>2. sent \in Seq(Events) /\ rewriter \in Rewriters
  BY <1>0 DEF TypeOK
<1>3. Underway
  BY <1>0, <1>1 DEF SentOK
<1>4. sent' \in Seq(Events) /\ Tokens(sent') = Tokens(sent) /\ Ended'
  <2>1. CASE endpoint = "messages"
    <3>1. sent' = sent \o Finish(rewriter).out
      BY <1>1, <2>1 DEF Closing
    <3>2. InStep(rewriter, sent)
      BY <1>3, <2>1 DEF Underway
    <3>3. sent' \in Seq(Events) /\ Tokens(sent') = Tokens(sent) /\ Closed(sent')
      BY <1>2, <3>1, <3>2, FinishCloses
    <3> QED BY <1>1, <2>1, <3>3 DEF Ended
  <2>2. CASE endpoint # "messages" /\ UseAnthropic
    <3>1. PICK f : f = Event("done", "none", 0, 0)
      OBVIOUS
    <3>2. f \in Events /\ f.name = "done" /\ f.tokens = 0
      BY <3>1 DEF Event, Events, Names
    <3>3. sent' = Append(sent, f)
      BY <1>1, <1>2, <2>2, <3>1, <3>2 DEF Closing
    <3>4. Passed(sent) /\ Ends(sent) = {}
      BY <1>3, <2>2 DEF Underway
    <3>5. Passed(sent')
      BY <1>2, <3>2, <3>3, <3>4, PassedAppend
    <3>6. Ends(sent') = {Len(sent')} /\ sent' \in Seq(Events)
      <4>1. f.name \in {"done", "message_stop", "error"}
        BY <3>2
      <4>2. Ends(sent') = {Len(sent) + 1}
        BY <1>2, <3>2, <3>3, <3>4, <4>1, EndsFacts
      <4> QED BY <1>2, <3>2, <3>3, <4>2, AppendFacts
    <3>7. Tokens(sent') = Tokens(sent)
      BY <1>2, <3>2, <3>3, TokensOfSilent
    <3> QED BY <1>1, <2>2, <3>5, <3>6, <3>7 DEF Ended
  <2>3. CASE endpoint # "messages" /\ ~UseAnthropic
    <3>1. sent' = sent
      BY <1>1, <1>2, <2>3 DEF Closing
    <3>2. Passed(sent) /\ Ends(sent) = IF open = "ended" THEN {Len(sent)} ELSE {}
      BY <1>3, <2>3 DEF Underway
    <3> QED BY <1>1, <1>2, <2>3, <3>1, <3>2 DEF Ended
  <2> QED BY <2>1, <2>2, <2>3
<1>5. TypeOK'
  BY <1>0, <1>1, <1>4 DEF TypeOK
<1>6. CountOK'
  BY <1>0, <1>1, <1>4, CountedAsBefore
<1>7. SentOK'
  BY <1>1, <1>4 DEF SentOK
<1> QED BY <1>5, <1>6, <1>7 DEF StreamInv

(* ... another account starts over an answer of which nothing was sent ... *)
LEMMA RetryStep ==
  ASSUME StreamInv, Retry
  PROVE  StreamInv'
<1>0. TypeOK /\ CountOK /\ SentOK
  BY DEF StreamInv
<1>1. /\ pc = "returned" /\ result = "shortfall" /\ sent = <<>> /\ pc' = "send"
      /\ endpoint' = endpoint /\ limit' = limit /\ site' = site /\ open' = open /\ result' = result
      /\ counted' = counted /\ rewriter' = rewriter /\ sent' = sent /\ booked' = booked
  BY DEF Retry, started, request
<1>2. TypeOK'
  BY <1>0, <1>1 DEF TypeOK
<1>3. CountOK'
  BY <1>0, <1>1 DEF CountOK
<1>4. SentOK'
  BY <1>1 DEF SentOK
<1> QED BY <1>2, <1>3, <1>4 DEF StreamInv

(* What is booked is what was counted. *)
LEMMA BookedAsCounted ==
  ASSUME TypeOK, CountOK, pc = "returned",
         endpoint' = endpoint, limit' = limit, counted' = counted, booked' = counted,
         pc' = "answered", result' = result, Tokens(sent') = Tokens(sent)
  PROVE  CountOK'
<1>1. Measured /\ WithinALine /\ counted \in Nat /\ result # "none"
  BY DEF CountOK, TypeOK
<1>2. OutputHardCap' = OutputHardCap
  BY DEF OutputHardCap
<1>3. Measured' /\ WithinALine'
  BY <1>1, <1>2 DEF Measured, WithinALine, Delivered
<1> QED BY <1>1, <1>3 DEF CountOK

(* ... the answer is booked ... *)
LEMMA BookStep ==
  ASSUME StreamInv, Book
  PROVE  StreamInv'
<1>0. TypeOK /\ CountOK /\ SentOK
  BY DEF StreamInv
<1>1. /\ pc = "returned" /\ result # "shortfall" /\ pc' = "answered" /\ booked' = counted
      /\ endpoint' = endpoint /\ limit' = limit /\ site' = site /\ open' = open /\ result' = result
      /\ counted' = counted /\ rewriter' = rewriter /\ sent' = sent
  BY DEF Book, request
<1>2. TypeOK'
  BY <1>0, <1>1 DEF TypeOK
<1>3. CountOK'
  BY <1>0, <1>1, BookedAsCounted
<1>4. /\ Underway => Underway'
      /\ Ended => Ended'
      /\ CutAtLimit => CutAtLimit'
      /\ BrokenOff => BrokenOff'
  BY <1>1 DEF Underway, UseAnthropic, Ended, CutAtLimit, BrokenOff
<1>5. SentOK'
  BY <1>0, <1>1, <1>4 DEF SentOK
<1> QED BY <1>2, <1>3, <1>5 DEF StreamInv

(* ... or cut short ... *)
LEMMA CutShortStep ==
  ASSUME StreamInv, CutShort
  PROVE  StreamInv'
<1>0. TypeOK /\ CountOK /\ SentOK
  BY DEF StreamInv
<1>1. /\ pc = "returned" /\ result = "shortfall" /\ pc' = "answered" /\ booked' = counted
      /\ endpoint' = endpoint /\ limit' = limit /\ site' = site /\ open' = open /\ result' = result
      /\ counted' = counted /\ rewriter' = rewriter
      /\ sent' = IF started THEN sent \o Truncation ELSE <<Event("error", "none", 0, 0)>>
  BY DEF CutShort, request
<1>2. sent \in Seq(Events) /\ rewriter \in Rewriters
  BY <1>0 DEF TypeOK
<1>3. Underway /\ open # "ended"
  BY <1>0, <1>1 DEF SentOK
<1>4. sent' \in Seq(Events) /\ Tokens(sent') = Tokens(sent) /\ Shortened'
  <2>1. CASE sent = <<>>
    <3>1. PICK f : f = Event("error", "none", 0, 0)
      OBVIOUS
    <3>2. f \in Events /\ f.name = "error" /\ f.tokens = 0
      BY <3>1 DEF Event, Events, Names
    <3>3. sent' = <<f>> /\ <<f>> = Append(sent, f)
      BY <1>1, <2>1, <3>1 DEF started
    <3>4. Tokens(sent') = Tokens(sent)
      BY <1>2, <3>2, <3>3, TokensOfSilent
    <3>5. sent' \in Seq(Events) /\ Len(sent') = 1 /\ sent'[1].name = "error"
      BY <3>2, <3>3
    <3> QED BY <3>4, <3>5 DEF Shortened
  <2>2. CASE sent # <<>> /\ endpoint = "messages"
    <3>1. sent' = sent \o Truncation
      BY <1>1, <2>2 DEF started
    <3>2. InStep(rewriter, sent) /\ rewriter.kind # "none"
      BY <1>3, <2>2 DEF Underway
    <3>3. /\ sent' \in Seq(Events) /\ sent' # <<>> /\ InOrder(sent') /\ Ends(sent') = {Len(sent')}
          /\ Tokens(sent') = Tokens(sent)
          /\ rewriter.index = 0 => ClosedOnce(sent') /\ AllClosed(sent')
      BY <1>2, <2>2, <3>1, <3>2, MessagesTruncated
    <3> QED BY <1>1, <2>2, <3>3 DEF Shortened
  <2>3. CASE sent # <<>> /\ endpoint # "messages"
    <3>1. sent' = sent \o Truncation
      BY <1>1, <2>3 DEF started
    <3>2. Passed(sent) /\ Ends(sent) = {} /\ endpoint \in {"chat", "responses"}
      BY <1>0, <1>3, <2>3 DEF Underway, TypeOK
    <3>3. /\ sent' \in Seq(Events) /\ Passed(sent') /\ Ends(sent') = {Len(sent')}
          /\ Tokens(sent') = Tokens(sent)
      BY <1>2, <3>1, <3>2, OthersTruncated
    <3> QED BY <1>1, <2>3, <3>3 DEF Shortened
  <2> QED BY <2>1, <2>2, <2>3
<1>5. TypeOK'
  BY <1>0, <1>1, <1>4 DEF TypeOK
<1>6. CountOK'
  BY <1>0, <1>1, <1>4, BookedAsCounted
<1>7. SentOK'
  BY <1>1, <1>4 DEF SentOK
<1> QED BY <1>5, <1>6, <1>7 DEF StreamInv

(* ... and nothing happens. *)
LEMMA StutterStep ==
  ASSUME StreamInv, UNCHANGED vars
  PROVE  StreamInv'
<1>1. TypeOK'
  BY DEF StreamInv, vars, TypeOK
<1>2. CountOK'
  BY DEF StreamInv, vars, CountOK, Measured, WithinALine, OverCap, OutputHardCap, Delivered
<1>3. SentOK'
  BY DEF StreamInv, vars, SentOK, Underway, UseAnthropic, Ended, CutAtLimit, BrokenOff, Shortened
<1> QED BY <1>1, <1>2, <1>3 DEF StreamInv

(* The invariant: while a stream is piped, what was sent is in step with the
   rewriter that writes it, and when it has returned it is closed, cut or broken
   off as the way of returning tells; what is counted covers it all the while. *)
THEOREM AnswersStayInStep == Spec => []StreamInv
<1>1. StreamInv /\ [Next]_vars => StreamInv'
  BY SendStep, ReadLineStep, CallerGoneStep, ShortfallStep, ReadFailsStep, EndOfStreamStep,
     RetryStep, CutShortStep, BookStep, StutterStep DEF Next
<1> QED BY <1>1, InitInv, PTL DEF Spec

(* A set without two different members. *)
LEMMA AtMostOne ==
  ASSUME NEW S, \A k, l \in S : k = l
  PROVE  Cardinality(S) <= 1
<1>1. CASE S = {}
  BY <1>1, FS_EmptySet
<1>2. CASE S # {}
  <2>1. PICK x \in S : TRUE
    BY <1>2
  <2>2. S = {x}
    BY <2>1
  <2> QED BY <2>2, FS_Singleton
<1> QED BY <1>1, <1>2

(* BookedAsDelivered follows from the invariant. *)
LEMMA BookedFromInv ==
  ASSUME StreamInv
  PROVE  BookedAsDelivered
<1> SUFFICES ASSUME booked >= 0
             PROVE  /\ endpoint # "messages" /\ result # "gone" => booked = Delivered
                    /\ Delivered <= booked
                    /\ \E size \in {2 * n : n \in Sizes} \cup {0} :
                         /\ result = "gone" /\ endpoint # "messages" => booked <= Delivered + size
                         /\ OutputHardCap > 0 => booked <= OutputHardCap + size
  BY DEF BookedAsDelivered
<1>1. booked = counted /\ Measured /\ WithinALine
  BY DEF StreamInv, CountOK
<1> QED BY <1>1 DEF Measured, WithinALine, Leeway

(* What is booked for an answer is what its caller was sent, over every change
   of account and whichever way the stream returns, and overruns the hard cap by
   less than a line (pipeStream, tokenizer.Counter). *)
THEOREM WhatIsBookedWasDelivered == Spec => []BookedAsDelivered
  BY AnswersStayInStep, BookedFromInv, PTL

OnlyAnError == Len(sent) = 1 /\ sent[1].name = "error"

(* An answer that is a 503 has no blocks. *)
LEMMA OnlyAnErrorIsSent ==
  ASSUME TypeOK, OnlyAnError
  PROVE  Ends(sent) = {Len(sent)} /\ Starts(sent) = {} /\ Named(sent, "delta") = {}
<1>1. sent \in Seq(Events) /\ DOMAIN sent = 1..1 /\ Len(sent) = 1 /\ sent[1].name = "error"
  <2>1. sent \in Seq(Events) /\ Len(sent) = 1 /\ sent[1].name = "error"
    BY DEF OnlyAnError, TypeOK
  <2> QED BY <2>1, EventAt
<1>2. \A i \in 1..1 : i = 1
  OBVIOUS
<1> QED BY <1>1, <1>2 DEF Ends, Starts, Named

(* What the invariant says of the answer, whatever the way it came about. *)
LEMMA AnswerSoFar ==
  ASSUME StreamInv
  PROVE  /\ Ends(sent) \subseteq {Len(sent)}
         /\ \/ OnlyAnError
            \/ endpoint # "messages" /\ Passed(sent)
            \/ /\ endpoint = "messages" /\ InOrder(sent)
               /\ ~ClosedTheWrongBlock => ClosedOnce(sent)
               /\ Ends(sent) # {} /\ ~ClosedTheWrongBlock => AllClosed(sent)
<1>0. TypeOK /\ CountOK /\ SentOK
  BY DEF StreamInv
<1>u. ASSUME Underway
      PROVE  /\ Ends(sent) \subseteq {Len(sent)}
             /\ \/ endpoint # "messages" /\ Passed(sent)
                \/ endpoint = "messages" /\ InOrder(sent) /\ ClosedOnce(sent) /\ Ends(sent) = {}
  BY <1>u DEF Underway, InStep, Blocks
<1>a. CASE pc = "send"
  <2>1. sent = <<>>
    BY <1>0, <1>a DEF SentOK
  <2>2. Ends(sent) = {} /\ InOrder(sent) /\ ClosedOnce(sent) /\ Passed(sent)
    BY <2>1, NothingYet, PassedNothing DEF Blocks
  <2> QED BY <2>2
<1>b. CASE pc = "piping"
  BY <1>0, <1>b, <1>u DEF SentOK
<1>c. CASE pc \in {"returned", "answered"}
  <2>0. result \in {"ok", "capped", "gone", "broken", "shortfall"}
    BY <1>0, <1>c DEF TypeOK, CountOK
  <2>1. CASE result = "ok"
    BY <1>0, <1>c, <2>1 DEF SentOK, Ended, Closed
  <2>2. CASE result = "capped"
    BY <1>0, <1>c, <2>2 DEF SentOK, CutAtLimit, Closed
  <2>3. CASE result = "gone"
    BY <1>0, <1>c, <2>3 DEF SentOK, BrokenOff
  <2>4. CASE result = "broken"
    BY <1>0, <1>c, <1>u, <2>4 DEF SentOK
  <2>5. CASE result = "shortfall" /\ pc = "returned"
    BY <1>0, <1>u, <2>5 DEF SentOK
  <2>6. CASE result = "shortfall" /\ pc = "answered"
    <3>1. Shortened
      BY <1>0, <2>6 DEF SentOK
    <3>2. rewriter.index = 0 \/ (endpoint = "messages" => ClosedTheWrongBlock)
      <4>1. rewriter.index \in Nat
        BY <1>0 DEF TypeOK, Rewriters
      <4> QED BY <2>6, <4>1 DEF ClosedTheWrongBlock
    <3>3. CASE OnlyAnError
      BY <1>0, <3>3, OnlyAnErrorIsSent
    <3>4. CASE ~OnlyAnError
      BY <3>1, <3>2, <3>4 DEF Shortened, OnlyAnError
    <3> QED BY <3>3, <3>4
  <2> QED BY <1>c, <2>0, <2>1, <2>2, <2>3, <2>4, <2>5, <2>6
<1> QED BY <1>0, <1>a, <1>b, <1>c DEF TypeOK

(* An answer brought to an end has one. *)
LEMMA AnswerEnded ==
  ASSUME StreamInv, pc = "answered",
         result \in {"capped", "shortfall"} \/ (result = "ok" /\ open = "ended")
  PROVE  Ends(sent) # {}
<1>0. TypeOK /\ SentOK
  BY DEF StreamInv
<1>1. CASE result = "capped"
  BY <1>0, <1>1 DEF SentOK, CutAtLimit, Closed
<1>2. CASE result = "ok" /\ open = "ended"
  BY <1>0, <1>2 DEF SentOK, Ended, Closed
<1>3. CASE result = "shortfall"
  <2>1. Shortened
    BY <1>0, <1>3 DEF SentOK
  <2>2. CASE OnlyAnError
    BY <1>0, <2>2, OnlyAnErrorIsSent
  <2>3. CASE ~OnlyAnError
    BY <2>1, <2>3 DEF Shortened, OnlyAnError
  <2> QED BY <2>2, <2>3
<1> QED BY <1>1, <1>2, <1>3

(* AnswersAreWhole follows from the invariant. *)
LEMMA WholeFromInv ==
  ASSUME StreamInv
  PROVE  AnswersAreWhole
<1>0. TypeOK /\ sent \in Seq(Events)
  BY DEF StreamInv, TypeOK
<1>1. \A name : At(name) = Named(sent, name)
  BY DEF At, Named
<1>2. \A i, j : Stops(i, j) = Closers(sent, i, j)
  BY DEF Stops, Closers
<1>3. PICK starts : starts = At("block_start")
  OBVIOUS
<1>4. PICK ends : ends = At("done") \cup At("message_stop") \cup At("error")
  OBVIOUS
<1>5. starts = Starts(sent) /\ ends = Ends(sent)
  BY <1>1, <1>3, <1>4 DEF Starts, Ends
<1>6. At("message_stop") \subseteq ends /\ starts \subseteq DOMAIN sent /\ At("delta") \subseteq DOMAIN sent
  BY <1>3, <1>4 DEF At
<1>7. endpoint = "messages" /\ sent # <<>> /\ sent[1].name # "error" => At("message_start") = {1}
  BY <1>1, AnswerSoFar DEF InOrder, OnlyAnError
<1>8. \/ starts = {} /\ At("delta") = {}
      \/ /\ InOrder(sent)
         /\ ~ClosedTheWrongBlock => ClosedOnce(sent)
         /\ ends # {} /\ ~ClosedTheWrongBlock => AllClosed(sent)
  <2>1. CASE OnlyAnError
    BY <1>0, <1>1, <1>5, <2>1, OnlyAnErrorIsSent
  <2>2. CASE Passed(sent)
    BY <1>3, <2>2 DEF Passed, At
  <2>3. CASE ~OnlyAnError /\ ~Passed(sent)
    BY <1>5, <2>3, AnswerSoFar
  <2> QED BY <2>1, <2>2, <2>3
<1>9. ASSUME NEW i \in starts
      PROVE  /\ sent[i].index = Cardinality({j \in starts : j < i})
             /\ \A j \in starts : j < i => Stops(j, i) # {}
             /\ ~ClosedTheWrongBlock => Cardinality(Stops(i, Len(sent))) <= 1
             /\ At("message_stop") # {} /\ ~ClosedTheWrongBlock => Stops(i, Len(sent)) # {}
  <2>1. /\ InOrder(sent)
        /\ ~ClosedTheWrongBlock => ClosedOnce(sent)
        /\ ends # {} /\ ~ClosedTheWrongBlock => AllClosed(sent)
    BY <1>8, <1>9
  <2>2. sent[i].index = Cardinality({j \in starts : j < i})
    BY <1>5, <2>1 DEF InOrder, Before
  <2>3. \A j \in starts : j < i => Stops(j, i) # {}
    BY <1>2, <1>5, <2>1 DEF InOrder
  <2>4. ASSUME ~ClosedTheWrongBlock PROVE Cardinality(Stops(i, Len(sent))) <= 1
    BY <1>2, <1>5, <2>1, <2>4, AtMostOne DEF ClosedOnce
  <2>5. ASSUME At("message_stop") # {}, ~ClosedTheWrongBlock PROVE Stops(i, Len(sent)) # {}
    BY <1>2, <1>5, <1>6, <2>1, <2>5 DEF AllClosed
  <2> QED BY <2>2, <2>3, <2>4, <2>5
<1>10. ASSUME NEW i \in At("delta")
       PROVE  \E j \in starts :
                /\ j < i /\ Stops(j, i) = {}
                /\ sent[j].index = sent[i].index /\ sent[j].kind = sent[i].kind
  <2>1. InOrder(sent) /\ i \in Named(sent, "delta")
    BY <1>1, <1>8, <1>10
  <2>2. PICK j \in Starts(sent) :
           j < i /\ Closers(sent, j, i) = {} /\ sent[j].index = sent[i].index /\ sent[j].kind = sent[i].kind
    BY <2>1 DEF InOrder
  <2> QED BY <1>2, <1>5, <2>2
<1>11. ends \subseteq {Len(sent)}
  BY <1>5, AnswerSoFar
<1>12. pc = "answered" /\ (result \in {"capped", "shortfall"} \/ (result = "ok" /\ open = "ended")) =>
         ends # {}
  BY <1>5, AnswerEnded
<1>13. pc = "answered" /\ result = "capped" =>
         sent[Len(sent) - 1].kind \in {"max_tokens", "length", "incomplete"}
  BY DEF StreamInv, SentOK, CutAtLimit, ToldOfLimit
<1> HIDE DEF At, Stops
<1> QED
  BY <1>3, <1>4, <1>7, <1>9, <1>10, <1>11, <1>12, <1>13, Zenon DEF AnswersAreWhole

(* Whatever the sites send, wherever they break off and however often the
   account is changed, every caller is sent one whole answer, but for the case that
   is named (pipeStream, anthropicOutputRewriter, the closing functions). *)
THEOREM EveryAnswerIsWhole == Spec => []AnswersAreWhole
  BY AnswersStayInStep, WholeFromInv, PTL
=============================================================================
