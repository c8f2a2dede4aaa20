------------------------------ MODULE Balancer ------------------------------
(***************************************************************************)
(* balancer.Balancer and its use by the gateway: which upstream APIs of an *)
(* account a call may try (Candidates), in which order (Order and          *)
(* preferDeclaredModel), and how the outcome of an attempt changes what    *)
(* later calls see (adjustInflight, ReportSuccess, ReportFailure).         *)
(*                                                                         *)
(* Reports run under Store.Mutate.  Candidates and the sort read the same  *)
(* providers without a lock, one after the other: reports of other calls   *)
(* may come between the two.  A sort itself is one step here.              *)
(***************************************************************************)
EXTENDS Naturals, SequencesExt

CONSTANTS
  Call,              \* calls that may run at the same time
  Configs,           \* the accounts' upstream APIs, in the order of the file
  FailureThreshold,  \* failures in a row before a cooldown (3 in the code)
  MaxFactor,         \* the longest cooldown, in units of the first (6)
  CursorSize         \* bound: a number of turns every pool size divides

Strategies ==
  {"weighted-random", "round-robin", "least-latency", "least-inflight", "priority"}

Upstream ==
  [enabled: BOOLEAN, models: {"declared", "any", "other"}, priority: Nat, weight: Nat,
   score: Nat]  \* latencyScore, which changes slowly and is fixed here

ASSUME BalancerAssumption ==
  /\ Configs \subseteq Seq(Upstream)
  /\ FailureThreshold \in Nat \ {0} /\ MaxFactor \in Nat \ {0}
  /\ CursorSize \in Nat \ {0}
  /\ \A upstreams \in Configs : \A n \in 1..Len(upstreams) : CursorSize % n = 0
  /\ IsFiniteSet(Call) /\ Call # {}

VARIABLES
  config,    \* the providers: a member of Configs
  inflight,  \* Provider.Inflight
  failures,  \* Provider.ConsecutiveFailures
  cooling,   \* CooldownUntil: units of cooldown left
  cursor,    \* Balancer.cursor, one for all accounts
  call,      \* what every call is about to do
  tries,     \* attempts at a provider since it began to cool down
  turn       \* whose turn it was at the last move of the cursor, since a round
             \* robin over all as one group; or 0

vars == <<config, inflight, failures, cooling, cursor, call, tries, turn>>
health == <<inflight, failures, cooling>>

Provider == DOMAIN config

Idle == [at |-> "idle"]

\* Beyond this many failures in a row another one changes nothing.
MaxFailures == FailureThreshold + MaxFactor - 1

-----------------------------------------------------------------------------
(* Order *)

Supports(p) == config[p].models # "other"

\* Pools are sets: the order of the file is that of the numbers.
\* Faulty variant: cooldowns are forgotten.
AllCandidates == {p \in Provider : config[p].enabled /\ Supports(p)}

Candidates == {p \in Provider : config[p].enabled /\ cooling[p] = 0 /\ Supports(p)}

\* sort.SliceStable of a part of the file
StableSort(group, Before(_, _)) ==
  {list \in SetToSeqs(group) :
     \A i, j \in DOMAIN list : i < j =>
       \/ Before(list[i], list[j])
       \/ ~Before(list[j], list[i]) /\ list[i] < list[j]}

\* weightedShuffle draws in proportion to the weights: one without weight is
\* only drawn when the random number is 0 and it is first, or by rounding when
\* it is last.
Drawable(left) ==
  {p \in left : \/ config[p].weight > 0
                \/ \A q \in left : p <= q
                \/ \A q \in left : q <= p}

Shuffles(group) ==
  {list \in SetToSeqs(group) :
     \A i \in DOMAIN list : list[i] \in Drawable(group \ {list[j] : j \in 1..(i - 1)})}

Place(p, group) == Cardinality({q \in group : q < p})

Rotations(group, offset) ==
  {list \in SetToSeqs(group) :
     \A i \in DOMAIN list : Place(list[i], group) = (offset + i - 1) % Cardinality(group)}

\* Faulty variant: a heavier one is preferred to a less busy one.
HeavierFirst(p, q) ==
  \/ config[p].weight > config[q].weight
  \/ config[p].weight = config[q].weight /\ inflight[p] < inflight[q]

FewerInflight(p, q) ==
  \/ inflight[p] < inflight[q]
  \/ inflight[p] = inflight[q] /\ config[p].weight > config[q].weight

\* sortGroup, with the value of the cursor at that moment.
SortGroup(group, strategy, at) ==
  CASE strategy = "round-robin" -> Rotations(group, at)
    [] strategy = "least-inflight" -> StableSort(group, FewerInflight)
    [] strategy = "least-latency" ->
         StableSort(group, LAMBDA p, q : config[p].score < config[q].score)
    [] strategy = "priority" ->
         StableSort(group, LAMBDA p, q : config[p].weight > config[q].weight)
    [] OTHER -> Shuffles(group)

Priorities(pool) == {config[p].priority : p \in pool}

Group(pool, priority) == {p \in pool : config[p].priority = priority}

Above(pool, priority) == {p \in pool : config[p].priority > priority}

\* The groups of equal priority follow one another, highest first, each of them
\* sorted; round robin takes the next value of the cursor for each.
Order(pool, strategy) ==
  {list \in SetToSeqs(pool) :
     \A priority \in Priorities(pool) :
       LET group == Group(pool, priority)
           above == Above(pool, priority)
           first == Cardinality(above)
           at == (cursor + Cardinality(Priorities(above))) % CursorSize
       IN SubSeq(list, first + 1, first + Cardinality(group)) \in SortGroup(group, strategy, at)}

\* Faulty variant: nothing moves the cursor.
CursorKept(pool, strategy) == cursor

\* Only round robin moves the cursor, once for every group.  (The sorts of other
\* accounts move it as well: SortElsewhere.)
CursorAfter(pool, strategy) ==
  IF Cardinality(pool) <= 1 \/ strategy # "round-robin" THEN cursor
  ELSE (cursor + Cardinality(Priorities(pool))) % CursorSize

\* Those that declare the model come first, those that take any are for the
\* case that all of them fail.
Declares(p) == config[p].models = "declared"

Earlier(list, p, q) == \E i, j \in DOMAIN list : i < j /\ list[i] = p /\ list[j] = q

PreferDeclaredModel(list) ==
  {preferred \in SetToSeqs(ToSet(list)) :
     \A i, j \in DOMAIN preferred : i < j =>
       \/ Declares(preferred[i]) /\ ~Declares(preferred[j])
       \/ /\ Declares(preferred[i]) <=> Declares(preferred[j])
          /\ Earlier(list, preferred[i], preferred[j])}

-----------------------------------------------------------------------------
(* Calls *)

Filter(c) ==
  /\ call[c] = Idle
  /\ Candidates # {}
  /\ call' = [call EXCEPT ![c] = [at |-> "filtered", pool |-> Candidates]]
  /\ UNCHANGED <<config, health, cursor, tries, turn>>

OverAll(pool) == pool = Provider /\ Cardinality(Priorities(pool)) = 1

\* The upstream API after the one whose turn it was.
NextTurn == IF turn = 0 THEN 0 ELSE (turn % Len(config)) + 1

\* A server has one Balancer: a group of another account's upstream APIs that
\* is sorted by round robin takes a value of the same cursor.
SortElsewhere ==
  /\ cursor' = (cursor + 1) % CursorSize
  /\ turn' = NextTurn
  /\ UNCHANGED <<config, health, call, tries>>

\* The administrator may change the strategy at any time (SetStrategy).
Sort(c) ==
  /\ call[c].at = "filtered"
  /\ \E strategy \in Strategies :
       LET pool == call[c].pool IN
       /\ cursor' = CursorAfter(pool, strategy)
       /\ \E list \in Order(pool, strategy) :
            /\ \E preferred \in PreferDeclaredModel(list) :
                 call' = [call EXCEPT ![c] = [at |-> "ordered", by |-> strategy,
                                              list |-> preferred]]
            /\ turn' = IF strategy # "round-robin" \/ Cardinality(pool) <= 1 THEN turn
                       ELSE IF OverAll(pool) THEN list[1] ELSE 0
  /\ UNCHANGED <<config, health, tries>>

\* The next attempt of a call, counted in.
Send(c) ==
  /\ call[c].at = "ordered"
  /\ LET p == Head(call[c].list) IN
     /\ inflight' = [inflight EXCEPT ![p] = @ + 1]
     /\ tries' = IF cooling[p] > 0 THEN [tries EXCEPT ![p] = @ + 1] ELSE tries
     /\ call' = [call EXCEPT ![c] = [at |-> "sent", provider |-> p, left |-> Tail(call[c].list)]]
  /\ UNCHANGED <<config, failures, cooling, cursor, turn>>

\* ... and out.
Return(c) ==
  /\ call[c].at = "sent"
  /\ inflight' = [inflight EXCEPT ![call[c].provider] = @ - 1]
  /\ call' = [call EXCEPT ![c].at = "returned"]
  /\ UNCHANGED <<config, failures, cooling, cursor, tries, turn>>

ReportSuccess(c) ==
  /\ call[c].at = "returned"
  /\ LET p == call[c].provider IN
     /\ failures' = [failures EXCEPT ![p] = 0]
     /\ cooling' = [cooling EXCEPT ![p] = 0]
     /\ tries' = [tries EXCEPT ![p] = 0]
  /\ call' = [call EXCEPT ![c] = Idle]
  /\ UNCHANGED <<config, inflight, cursor, turn>>

\* The cooldown after that many failures in a row.
Cooldown(n) ==
  LET factor == (n + 1) - FailureThreshold IN IF factor > MaxFactor THEN MaxFactor ELSE factor

Failed(p) ==
  LET n == failures[p] + 1 IN
  /\ failures' = [failures EXCEPT ![p] = IF n > MaxFailures THEN MaxFailures ELSE n]
  /\ cooling' = IF n >= FailureThreshold THEN [cooling EXCEPT ![p] = Cooldown(n)] ELSE cooling

\* After a failure the call goes on with the next candidate or gives up.
ReportFailure(c) ==
  /\ call[c].at = "returned"
  /\ Failed(call[c].provider)
  /\ \/ call' = [call EXCEPT ![c] = Idle]
     \/ /\ call[c].left # <<>>
        /\ call' = [call EXCEPT ![c] = [at |-> "ordered", list |-> call[c].left]]
  /\ UNCHANGED <<config, inflight, cursor, tries, turn>>

\* One unit of cooldown goes by.
Tick ==
  /\ \E p \in Provider : cooling[p] > 0
  /\ cooling' = [p \in Provider |-> IF cooling[p] > 0 THEN cooling[p] - 1 ELSE 0]
  /\ tries' = [p \in Provider |-> IF cooling[p] <= 1 THEN 0 ELSE tries[p]]
  /\ UNCHANGED <<config, inflight, failures, cursor, call, turn>>

-----------------------------------------------------------------------------
Init ==
  /\ config \in Configs
  /\ inflight = [p \in Provider |-> 0]
  /\ failures = [p \in Provider |-> 0]
  /\ cooling = [p \in Provider |-> 0]
  /\ cursor = 0
  /\ call = [c \in Call |-> Idle]
  /\ tries = [p \in Provider |-> 0]
  /\ turn = 0

Next ==
  \/ \E c \in Call : \/ Filter(c) \/ Sort(c) \/ Send(c) \/ Return(c)
                     \/ ReportSuccess(c) \/ ReportFailure(c)
  \/ SortElsewhere
  \/ Tick

Spec == Init /\ [][Next]_vars

-----------------------------------------------------------------------------
(* Properties *)

\* Whether p may come before q in a list, as README (strategies) and the
\* comments on preferDeclaredModel and Order say: who declares the model, then
\* the priority, then the strategy; equals stay in the order of the file.
MayPrecede(p, q, strategy) ==
  LET P == config[p]
      Q == config[q]
      \* less, equal or greater in what the strategy compares
      Ranks(a, b) == a < b \/ (a = b /\ p < q)
  IN \/ P.models = "declared" /\ Q.models # "declared"
     \/ P.models = Q.models /\ P.priority > Q.priority
     \/ /\ P.models = Q.models /\ P.priority = Q.priority
        /\ CASE strategy = "least-inflight" ->
                  \/ inflight[p] < inflight[q]
                  \/ inflight[p] = inflight[q] /\ Ranks(Q.weight, P.weight)
             [] strategy = "least-latency" -> Ranks(P.score, Q.score)
             [] strategy = "priority" -> Ranks(Q.weight, P.weight)
             [] OTHER -> TRUE

\* Every candidate of a call is in its list exactly once, and in the right
\* place by the numbers the sort has read, whatever other calls report between
\* the filter and the sort.
ListsAreRight ==
  [][\A c \in Call : call[c].at = "filtered" /\ call'[c].at = "ordered" =>
       LET list == call'[c].list IN
       /\ Len(list) = Cardinality(call[c].pool)
       /\ ToSet(list) = call[c].pool
       /\ \A i, j \in 1..Len(list) : i < j => MayPrecede(list[i], list[j], call'[c].by)]_vars

\* An upstream API that cools down is left alone: only calls that had chosen
\* it before still try it, each of them once, and the one whose failure began
\* the cooldown does not.  (README: upstream APIs that failed cool down.)
CoolingIsLeftAlone ==
  \A p \in Provider : tries[p] <= Cardinality(Call) - 1

\* Under round robin, calls that choose from all upstream APIs of an account, of
\* one priority, begin with the one whose turn it is, in the order of the file
\* (before those that declare the model are put first).
\* The cursor belongs to all accounts: every sort of another one uses up a turn
\* here, so strict turns within an account are only taken while it alone is in
\* use, and calls that alternate with those of another account may begin with
\* the same upstream API each time.  (So may calls over several priorities, of
\* which each moves the cursor.)
TakesTurns ==
  [][\A c \in Call :
       /\ call[c].at = "filtered" /\ call'[c].at = "ordered"
       /\ call'[c].by = "round-robin" /\ Cardinality(call[c].pool) > 1 /\ OverAll(call[c].pool)
       /\ turn # 0
       => turn' = NextTurn]_vars
=============================================================================
