------------------------------- MODULE Gateway -------------------------------
(***************************************************************************)
(* Inference requests (internal/gateway/chat.go): handleInference with the *)
(* calls it makes, composed with the allocator (module Allocation).        *)
(*                                                                         *)
(* A request is a sequence of critical sections of Store.mu and of the     *)
(* limiter's mutex, with calls to upstream sites in between; each is one   *)
(* action here, and requests interleave between any two of them.  What     *)
(* upstream answers, how a balance refresh ends and how the load balancer  *)
(* sorts an account's providers are left open.  Money is seen through      *)
(* Account.Usable() only (modules Account and BalanceRefresh), and a rate  *)
(* limit through the number of hits of the present minute (RateLimiter).   *)
(***************************************************************************)
EXTENDS Naturals, FiniteSets

CONSTANTS
  Account,            \* account ids, all in the one group TheGroup
  Key,                \* gateway keys, not limited to a group
  TheGroup, Model, AnyModel, None,
  Declares,           \* [Account -> SUBSET Model]
  Provider,           \* upstream APIs
  Owner,              \* [Provider -> Account]
  Limited,            \* accounts with a rate limit,
  AccountLimit,       \* and that limit
  MaxRetries,         \* settings.maxRetries
  MaxAccountAttempts, \* maxAccountAttempts
  Quota,              \* quotaTokens of every key
  MaxTokens,          \* tokens one call may be booked with
  Request             \* requests under way at one time

ASSUME GatewayAssumption ==
  /\ Account \subseteq Nat /\ IsFiniteSet(Account) /\ Key \subseteq Nat /\ IsFiniteSet(Key)
  /\ IsFiniteSet(Provider) /\ IsFiniteSet(Request)
  /\ Owner \in [Provider -> Account]
  /\ Limited \subseteq Account
  /\ {AccountLimit, MaxRetries, Quota, MaxTokens} \subseteq Nat
  /\ MaxAccountAttempts \in Nat \ {0}
  /\ None \notin Account \cup Key \cup Provider \cup {TheGroup}
  /\ Declares \in [Account -> SUBSET Model] /\ AnyModel \notin Model

VARIABLES
  accounts, usable, keys, binding, load,  \* as in module Allocation
  cooling,   \* providers on cooldown
  inflight,  \* Provider.Inflight
  hits,      \* hits of the present minute in an account's bucket
  over,      \* calls let on past the limit since the bucket has been full: a history variable
  spent,     \* APIKey.Stats.TotalTokens
  req        \* the requests

dataVars == <<accounts, usable, keys, binding, load, cooling, inflight, hits, over, spent>>
vars == <<accounts, usable, keys, binding, load, cooling, inflight, hits, over, spent, req>>

ProvidersOf(a) == {p \in Provider : Owner[p] = a}

Alloc == INSTANCE Allocation WITH
  Group <- {TheGroup},
  AccountGroup <- [a \in Account |-> TheGroup],
  Providers <- [a \in Account |-> Cardinality(ProvidersOf(a))],
  Unlimited <- {}, Balances <- {0},
  groups <- {TheGroup}, enabledGroups <- {TheGroup}, goneGroups <- {},
  goneAccounts <- Account \ accounts,
  balance <- [a \in Account |-> 0],
  up <- [a \in Account |-> IF a \in accounts
                           THEN Cardinality(ProvidersOf(a) \ cooling) ELSE 0],
  keyGroup <- [k \in Key |-> None]

\* How an attempt may end: served; the client left; any failure that another
\* provider may make good; one that ends the request; a stream that broke; the
\* upstream account being short of money, reported by a status that is not
\* retryable, by one that is, in the body (or before the first byte of a
\* stream), or in the middle of a stream.
Outcomes == {"ok", "gone", "retry", "fatal", "broken",
             "short", "shortRetry", "shortBody", "shortMid"}
Shortfalls == {"short", "shortRetry", "shortBody", "shortMid"}

\* Outcomes whose tokens are booked.
Metered == {"ok", "broken", "shortBody", "shortMid"}

Stages == {"idle", "limit", "assign", "refresh", "hit", "order",
           "send", "sent", "report", "short", "record"}

NoRequest == [pc |-> "idle", key |-> None, model |-> AnyModel, pick |-> None, acc |-> None,
              tries |-> 0, switches |-> 0, cands |-> {}, left |-> 0, prov |-> None,
              out |-> "ok"]

TypeOK ==
  /\ accounts \subseteq Account /\ keys \subseteq Key
  /\ usable \in [Account -> BOOLEAN]
  /\ binding \in [Key -> Account \cup {None}]
  /\ load \in [Account -> Nat]
  /\ cooling \subseteq {p \in Provider : Owner[p] \in accounts}
  /\ inflight \in [Provider -> 0..Cardinality(Request)]
  /\ hits \in [Account -> 0..AccountLimit]
  /\ over \in [Account -> Nat]
  /\ spent \in [Key -> Nat]
  /\ req \in [Request ->
       [pc : Stages, key : Key \cup {None}, model : Model \cup {AnyModel},
        pick : Account \cup {None}, acc : Account \cup {None},
        tries : 0..MaxAccountAttempts, switches : 0..MaxAccountAttempts,
        cands : SUBSET Provider, left : 0..MaxRetries + 1, prov : Provider \cup {None},
        out : Outcomes]]

----------------------------------------------------------------------------
(* Admission: ValidateKey and the key's rate limit *)

\* Faulty variant: the quota is off by one.
KeyWithinQuota(k) == k \in keys /\ spent[k] <= Quota

\* APIKey.State; an expired or disabled key is like a deleted one.
KeyActive(k) == k \in keys /\ spent[k] < Quota

Arrive(r, k, m) ==
  /\ req[r].pc = "idle" /\ KeyActive(k)
  /\ req' = [req EXCEPT ![r] = [NoRequest EXCEPT !.pc = "limit", !.key = k, !.model = m]]
  /\ UNCHANGED dataVars

\* Limiter.Allow: a request over the limit is booked as a failure.
PassKeyLimit(r) ==
  /\ req[r].pc = "limit"
  /\ \/ req' = [req EXCEPT ![r].pc = "assign"]
     \/ req' = [req EXCEPT ![r].pc = "record", ![r].out = "fatal"]
  /\ UNCHANGED dataVars

----------------------------------------------------------------------------
(* AuthenticateForModel, on admission and again whenever an upstream account *)
(* turns out to be short of money (switchAccount)                            *)

\* Faulty variant: the gate is off by one.
BarredTooLate == {a \in Limited : AccountLimit > 0 /\ hits[a] > AccountLimit}

\* accountGate: Peek, which records nothing
Barred == {a \in Limited : AccountLimit > 0 /\ hits[a] >= AccountLimit}

Switching(r) == req[r].switches > 0

\* No account can be had: a new request is answered without being booked; a
\* switch falls back on what is left of the old candidates, if the upstream's
\* status is retryable, or gives up.
NoAccount(r) ==
  [req EXCEPT ![r] =
     IF ~Switching(r) THEN NoRequest
     ELSE IF req[r].out = "shortRetry" /\ req[r].left > 0
     THEN [@ EXCEPT !.pc = "send", !.tries = 0, !.pick = None, !.out = "ok"]
     ELSE [@ EXCEPT !.pc = "record"]]

\* assignSession, one critical section.  Whether the balance of the account is
\* due for a refresh is left open.
Assign(r) ==
  LET q == req[r]
      served == Alloc!Served(q.key, q.model, Barred)
  IN  /\ q.pc = "assign"
      /\ UNCHANGED <<accounts, usable, cooling, inflight, hits, over, spent>>
      /\ \/ /\ ~KeyActive(q.key)
            /\ req' = NoAccount(r)
            /\ UNCHANGED <<keys, binding, load>>
         \/ /\ KeyActive(q.key) /\ accounts = {}
            /\ req' = [req EXCEPT ![r].pc = "hit", ![r].pick = None]
            /\ UNCHANGED <<keys, binding, load>>
         \/ /\ KeyActive(q.key) /\ accounts # {}
            /\ Alloc!AssignAccount(q.key, q.model, Barred)
            /\ \/ served = {} /\ req' = NoAccount(r)
               \/ \E a \in served, due \in {"refresh", "hit"} :
                    req' = [req EXCEPT ![r].pc = due, ![r].pick = a]

\* RefreshForRequest: the account counts as usable (also when the wait times
\* out), as unusable, or the client is gone.
Refresh(r) ==
  LET tried == req[r].tries + 1
  IN  /\ req[r].pc = "refresh"
      /\ \/ req' = [req EXCEPT ![r].pc = "hit"]
         \/ /\ tried < MaxAccountAttempts
            /\ req' = [req EXCEPT ![r].pc = "assign", ![r].tries = tried]
         \/ req' = NoAccount(r)
      /\ UNCHANGED dataVars

\* recordAccountHit: an Allow over the limit records nothing, and the request
\* goes on all the same.
RecordHit(r) ==
  LET a == req[r].pick
  IN  /\ req[r].pc = "hit"
      /\ IF a \in Limited \cap accounts /\ AccountLimit > 0
         THEN IF hits[a] < AccountLimit
              THEN hits' = [hits EXCEPT ![a] = @ + 1] /\ over' = over
              ELSE over' = [over EXCEPT ![a] = @ + 1] /\ hits' = hits
         ELSE UNCHANGED <<hits, over>>
      /\ req' = [req EXCEPT ![r].pc = "order"]
      /\ UNCHANGED <<accounts, usable, keys, binding, load, cooling, inflight, spent>>

Least(m, n) == IF m < n THEN m ELSE n

\* Faulty variant: a switch keeps the old candidates.
KeepCandidates(r) == IF Switching(r) THEN req[r].cands ELSE
  IF req[r].pick \in accounts THEN ProvidersOf(req[r].pick) \ cooling ELSE {}

\* orderedProviders for the account picked, as a set.  Every API of an account
\* has the account's models, which the allocator has already looked at.
Candidates(r) ==
  IF req[r].pick \in accounts THEN ProvidersOf(req[r].pick) \ cooling ELSE {}

\* The session, its candidates and the number of attempts are replaced
\* together, or not at all.
Order(r) ==
  LET cands == Candidates(r)
      tries == Least(IF MaxRetries < 1 THEN 1 ELSE MaxRetries, Cardinality(cands))
  IN  /\ req[r].pc = "order"
      /\ req' = IF cands = {} THEN NoAccount(r)
                ELSE IF req[r].out = "shortMid"
                THEN [req EXCEPT ![r].pc = "record", ![r].acc = req[r].pick]
                ELSE [req EXCEPT ![r] = [@ EXCEPT !.pc = "send", !.acc = req[r].pick,
                                                  !.cands = cands, !.left = tries,
                                                  !.tries = 0, !.pick = None, !.out = "ok"]]
      /\ UNCHANGED dataVars

----------------------------------------------------------------------------
(* The attempts *)

Exists(p) == Owner[p] \in accounts

\* adjustInflight(+1) on the next candidate.
Send(r, p) ==
  /\ req[r].pc = "send" /\ p \in req[r].cands
  /\ inflight' = IF Exists(p) THEN [inflight EXCEPT ![p] = @ + 1] ELSE inflight
  /\ req' = [req EXCEPT ![r] = [req[r] EXCEPT !.pc = "sent", !.prov = p, !.left = @ - 1,
                                              !.cands = @ \ {p}]]
  /\ UNCHANGED <<accounts, usable, keys, binding, load, cooling, hits, over, spent>>

\* Faulty variant: the client leaving is not counted down.
AnswerUnlessGone(r, out) ==
  LET p == req[r].prov
  IN  /\ req[r].pc = "sent"
      /\ inflight' = IF Exists(p) /\ out # "gone" /\ inflight[p] > 0
                     THEN [inflight EXCEPT ![p] = @ - 1] ELSE inflight
      /\ req' = [req EXCEPT ![r].pc = "report", ![r].out = out]
      /\ UNCHANGED <<accounts, usable, keys, binding, load, cooling, hits, over, spent>>

\* Upstream has answered, or failed to: adjustInflight(-1).
Answer(r, out) ==
  LET p == req[r].prov
  IN  /\ req[r].pc = "sent"
      /\ inflight' = IF Exists(p) /\ inflight[p] > 0
                     THEN [inflight EXCEPT ![p] = @ - 1] ELSE inflight
      /\ req' = [req EXCEPT ![r].pc = "report", ![r].out = out]
      /\ UNCHANGED <<accounts, usable, keys, binding, load, cooling, hits, over, spent>>

\* Where the request goes after the attempt.
Continue(r) ==
  LET q == [req[r] EXCEPT !.prov = None]
  IN  CASE q.out \in Shortfalls -> [q EXCEPT !.pc = "short"]
        [] q.out = "gone"       -> NoRequest
        [] q.out = "retry" /\ q.left > 0 -> [q EXCEPT !.pc = "send", !.out = "ok"]
        [] OTHER                -> [q EXCEPT !.pc = "record"]

\* reportSuccess lifts a cooldown, reportFailure may start one.
Report(r) ==
  LET p == req[r].prov
  IN  /\ req[r].pc = "report"
      /\ \/ /\ req[r].out = "ok"
            /\ cooling' = cooling \ {p}
         \/ /\ req[r].out # "ok"
            /\ cooling' = cooling \/ (Exists(p) /\ cooling' = cooling \cup {p})
      /\ req' = [req EXCEPT ![r] = Continue(r)]
      /\ UNCHANGED <<accounts, usable, keys, binding, load, inflight, hits, over, spent>>

\* Faulty variant: switches are not counted.
SwitchUncounted(r) ==
  /\ req[r].pc = "short"
  /\ req' = [req EXCEPT ![r] = [@ EXCEPT !.pc = "assign", !.tries = 0, !.switches = 1]]
  /\ UNCHANGED dataVars

\* refreshAfterUpstreamShortfall, whose verdict is not looked at, and
\* switchAccount up to its AuthenticateForModel.  The account is left for this
\* request only and not suspended, unless the refresh finds its balance too low
\* (MoneyMoves): the next request may be given the same account again.
Switch(r) ==
  /\ req[r].pc = "short"
  /\ req' = IF req[r].switches >= MaxAccountAttempts
            THEN NoAccount(r)
            ELSE [req EXCEPT ![r] = [req[r] EXCEPT !.pc = "assign", !.tries = 0,
                                                   !.switches = @ + 1]]
  /\ UNCHANGED dataVars

----------------------------------------------------------------------------
(* Booking: recordKeyUsage *)

\* The account that is charged is the one the key is bound to by now.
BilledAccount(r) ==
  IF req[r].key \in keys /\ binding[req[r].key] \in accounts
  THEN binding[req[r].key] ELSE None

\* A charge may exhaust the account, which takes it out of the pool.
Record(r) ==
  LET q == req[r]
      a == BilledAccount(r)
  IN  /\ q.pc = "record"
      /\ \E n \in IF q.key \in keys /\ q.out \in Metered THEN 0..MaxTokens ELSE {0} :
           spent' = [spent EXCEPT ![q.key] = @ + n]
      /\ \/ usable' = usable
         \/ q.out = "ok" /\ a # None /\ usable' = [usable EXCEPT ![a] = FALSE]
      /\ req' = [req EXCEPT ![r] = NoRequest]
      /\ UNCHANGED <<accounts, keys, binding, load, cooling, inflight, hits, over>>

----------------------------------------------------------------------------
(* What goes on besides *)

\* Refreshes, the sweep and the administrator's switch.
MoneyMoves(a) ==
  /\ a \in accounts
  /\ usable' = [usable EXCEPT ![a] = ~@]
  /\ UNCHANGED <<accounts, keys, binding, load, cooling, inflight, hits, over, spent, req>>

CooldownEnds(p) ==
  /\ p \in cooling
  /\ cooling' = cooling \ {p}
  /\ UNCHANGED <<accounts, usable, keys, binding, load, inflight, hits, over, spent, req>>

\* A hit grows a minute old.
HitExpires(a) ==
  /\ hits[a] > 0
  /\ hits' = [hits EXCEPT ![a] = @ - 1]
  /\ over' = [over EXCEPT ![a] = 0]
  /\ UNCHANGED <<accounts, usable, keys, binding, load, cooling, inflight, spent, req>>

\* RemoveAccounts takes the account's providers, and their counters, along.
RemoveAccount(a) ==
  /\ a \in accounts
  /\ accounts' = accounts \ {a}
  /\ usable' = [usable EXCEPT ![a] = FALSE]
  /\ cooling' = cooling \ ProvidersOf(a)
  /\ inflight' = [p \in Provider |-> IF Owner[p] = a THEN 0 ELSE inflight[p]]
  /\ keys' = keys
  /\ binding' = [k \in Key |-> IF binding[k] = a THEN None ELSE binding[k]]
  /\ load' = [b \in Account |-> Cardinality({k \in Key : binding'[k] = b})]
  /\ UNCHANGED <<hits, over, spent, req>>

\* Faulty variant: the load index is not rebuilt.
RemoveKeyOnly(k) ==
  /\ k \in keys
  /\ keys' = keys \ {k}
  /\ binding' = [binding EXCEPT ![k] = None]
  /\ UNCHANGED <<accounts, usable, load, cooling, inflight, hits, over, spent, req>>

RemoveKey(k) ==
  /\ k \in keys
  /\ keys' = keys \ {k}
  /\ binding' = [binding EXCEPT ![k] = None]
  /\ load' = [b \in Account |-> Cardinality({j \in Key : binding'[j] = b})]
  /\ UNCHANGED <<accounts, usable, cooling, inflight, hits, over, spent, req>>

\* The administrator moves a key to another account (handleKeyPatch).
MoveKey(k, a) ==
  /\ k \in keys /\ a \in accounts \ {binding[k]}
  /\ binding' = [binding EXCEPT ![k] = a]
  /\ load' = [b \in Account |-> Cardinality({j \in Key : binding'[j] = b})]
  /\ UNCHANGED <<accounts, usable, keys, cooling, inflight, hits, over, spent, req>>

----------------------------------------------------------------------------

\* Any data file in which all is well, with the keys bound or not.
Init ==
  /\ accounts = Account /\ keys = Key
  /\ usable = [a \in Account |-> TRUE]
  /\ binding \in [Key -> Account \cup {None}]
  /\ load = [a \in Account |-> Cardinality({k \in Key : binding[k] = a})]
  /\ cooling = {}
  /\ inflight = [p \in Provider |-> 0]
  /\ hits = [a \in Account |-> 0]
  /\ over = [a \in Account |-> 0]
  /\ spent = [k \in Key |-> 0]
  /\ req = [r \in Request |-> NoRequest]

Proceed(r) ==
  \/ PassKeyLimit(r) \/ Assign(r) \/ Refresh(r) \/ RecordHit(r) \/ Order(r)
  \/ \E p \in Provider : Send(r, p)
  \/ \E out \in Outcomes : Answer(r, out)
  \/ Report(r) \/ Switch(r) \/ Record(r)

Next ==
  \/ \E r \in Request, k \in Key, m \in Model : Arrive(r, k, m)
  \/ \E r \in Request : Proceed(r)
  \/ \E a \in Account : MoneyMoves(a) \/ HitExpires(a) \/ RemoveAccount(a)
  \/ \E p \in Provider : CooldownEnds(p)
  \/ \E k \in Key : RemoveKey(k) \/ \E a \in Account : MoveKey(k, a)

\* A request's goroutine keeps running: waits for a refresh end by a timer,
\* calls to upstream sites by a timeout.
Spec == Init /\ [][Next]_vars /\ \A r \in Request : WF_vars(Proceed(r))

----------------------------------------------------------------------------
(* Properties *)

(* The in-flight counter the least_inflight strategy goes by is exact: every
   way out of an attempt counts it down once, a failure, a broken stream or a
   client that left, also when accounts come and go meanwhile. *)
InflightExact ==
  \A p \in Provider :
    Exists(p) => inflight[p] = Cardinality({r \in Request : req[r].pc = "sent" /\ req[r].prov = p})

(* Session, candidates and attempts left are in step, however often a request
   is moved to another account: it only tries upstreams of its own account,
   and candidates[index] stays in range (handleInference, switchAccount). *)
AttemptsWithinSession ==
  \A r \in Request :
    LET q == req[r]
    IN  /\ q.pc \in {"send", "sent", "report"} =>
             q.cands \cup ({q.prov} \ {None}) \subseteq ProvidersOf(q.acc)
        /\ q.pc = "send" => q.left \in 1..Cardinality(q.cands)

(* Quotas are checked before a call and booked after it.  What a key can run
   over its quota is bounded by the calls it has under way. *)
QuotaOvershootBounded ==
  \A k \in Key : Quota > 0 => spent[k] < Quota + Cardinality(Request) * MaxTokens

(* An account's limit is probed when the account is chosen (Peek) and booked
   later (Allow, whose verdict is not looked at), maybe after a refresh.  What
   an account takes beyond its limit, until its bucket has room again, is less
   than the requests under way: each passes a full bucket once at most, however
   often it is moved to another account, and the one that filled it does not. *)
AccountLimitOvershootBounded ==
  \A a \in Account : over[a] > 0 => over[a] < Cardinality(Request)

(* Every step of the gateway is a step of the allocator, or leaves what the
   allocator sees alone: Allocation's theorems hold of the running gateway. *)
AllocatorSteps == [][Alloc!Next]_(Alloc!vars)

(* Every request is answered, although a shortfall starts the attempts over
   (index = -1) and a stale balance the choice of an account. *)
RequestsEnd == \A r \in Request : req[r].pc # "idle" ~> req[r].pc = "idle"

(* chat.go:1179 books a call by the rates of its account.  The code charges
   the account the key is bound to when the call is booked, which is not the
   one that served it when that one was borrowed or the key moved since. *)
BilledAccountServed ==
  \A r \in Request :
    req[r].pc = "record" /\ req[r].out = "ok" => BilledAccount(r) \in {None, req[r].acc}
=============================================================================
