----------------------------- MODULE Allocation -----------------------------
(***************************************************************************)
(* How gateway keys are bound to upstream accounts (internal/store:        *)
(* allocate.go, account.go, store.go; internal/admin: keys.go, groups.go,  *)
(* accounts.go).                                                           *)
(*                                                                         *)
(* The state is the part of store.Data that the allocator reads and        *)
(* writes.  Every action is one critical section of Store.mu: a handler    *)
(* that goes through Store.Update ends with reindex, so the load index is  *)
(* recomputed; the request path goes through Store.Mutate, which does not  *)
(* reindex, so AssignAccountGated maintains the index by hand.             *)
(*                                                                         *)
(* The allocator sees an account's money through Usable(), Unlimited() and *)
(* Balance only; module Account says how these come about.  Here they      *)
(* change by AccountChanges and ProviderChanges, the steps of the other    *)
(* components.                                                             *)
(***************************************************************************)
EXTENDS Naturals, FiniteSets

CONSTANTS
  Account,       \* account ids; their order is the order of CreatedAt
  Key,           \* gateway key ids; their order is the order in a batch
  Group,         \* user group ids
  Model,         \* model names
  AnyModel,      \* the empty model name: a request not bound to a model
  None,          \* the empty id
  AccountGroup,  \* [Account -> Group], immutable once the account is created
  Declares,      \* [Account -> SUBSET Model], {} accepts every model
  Providers,     \* [Account -> Nat], how many upstream APIs were created
  Unlimited,     \* the accounts without any balance to watch
  Limited,       \* the accounts with a per-minute request limit
  Balances       \* balances an account may show

ASSUME IdsAssumption ==
  /\ Account \subseteq Nat /\ IsFiniteSet(Account)
  /\ Key \subseteq Nat /\ IsFiniteSet(Key)
  /\ None \notin Account /\ None \notin Group
  /\ AnyModel \notin Model

ASSUME ConfigAssumption ==
  /\ AccountGroup \in [Account -> Group]
  /\ Declares \in [Account -> SUBSET Model]
  /\ Providers \in [Account -> Nat]
  /\ Unlimited \subseteq Account
  /\ Limited \subseteq Account
  /\ Balances \subseteq Nat

VARIABLES
  groups,        \* existing groups
  enabledGroups, \* those with Enabled = true
  goneGroups,    \* deleted groups: requests under way may still name them
  accounts,      \* existing accounts
  goneAccounts,  \* deleted accounts
  usable,        \* Account.Usable(), per account
  balance,       \* Account.Balance, per account
  up,            \* upstream APIs of the account that are not cooling down
  keys,          \* existing gateway keys
  keyGroup,      \* APIKey.GroupID
  binding,       \* APIKey.AccountID, the sticky binding
  load           \* the accountKeyLoad index

groupVars == <<groups, enabledGroups, goneGroups>>
accountVars == <<accounts, goneAccounts, usable, balance, up>>
keyVars == <<keys, keyGroup, binding, load>>
vars == <<groups, enabledGroups, goneGroups,
          accounts, goneAccounts, usable, balance, up,
          keys, keyGroup, binding, load>>

TypeOK ==
  /\ groups \subseteq Group
  /\ enabledGroups \subseteq groups
  /\ goneGroups \subseteq Group \ groups
  /\ accounts \subseteq Account
  /\ goneAccounts \subseteq Account \ accounts
  /\ usable \in [Account -> BOOLEAN]
  /\ balance \in [Account -> Balances]
  /\ up \in [Account -> Nat]
  /\ \A a \in Account : up[a] <= Providers[a]
  /\ keys \subseteq Key
  /\ keyGroup \in [Key -> Group \cup {None}]
  /\ binding \in [Key -> Account \cup {None}]
  /\ load \in [Account -> Nat]

----------------------------------------------------------------------------
(* The indexes and the pool of candidates *)

\* The keys of K that b binds to account a.
BoundKeys(K, b, a) == {k \in K : b[k] = a}

\* reindex: accountKeyLoad, counted over the whole of Data.Keys.
Reindexed(K, b) == [a \in Account |-> Cardinality(BoundKeys(K, b, a))]

GroupEnabled(g) == g \in enabledGroups

Accepts(a, m) == m = AnyModel \/ Declares[a] = {} \/ m \in Declares[a]

\* healthyProvidersForModel: every API of an account has the account's models.
Healthy(a, m) == IF Accepts(a, m) THEN up[a] ELSE 0

AccountDeclaresModel(a, m) == m \in Declares[a] /\ up[a] > 0

InGroup(a, g) == g = None \/ AccountGroup[a] = g

\* UsableAccountsGated; barred is what the gate turns away.
UsableAccounts(g, m, barred) ==
  {a \in accounts : /\ InGroup(a, g)
                    /\ GroupEnabled(AccountGroup[a])
                    /\ usable[a]
                    /\ Healthy(a, m) > 0
                    /\ a \notin barred}

\* Faulty variant: without the fallback to accounts that accept everything.
PoolWithoutFallback(g, m, barred) ==
  {a \in UsableAccounts(g, m, barred) : AccountDeclaresModel(a, m)}

\* accountPoolGated: accounts that declare the model shut out those that
\* merely accept everything.
Pool(g, m, barred) ==
  LET eligible == UsableAccounts(g, m, barred)
      explicit == {a \in eligible : AccountDeclaresModel(a, m)}
  IN  IF explicit # {} THEN explicit ELSE eligible

\* sortAccountPool's comparator under the loads ld.  The pressures ld/healthy
\* are compared by cross-multiplication.
Precedes(a, b, m, ld) ==
  LET left == ld[a] * Healthy(b, m)
      right == ld[b] * Healthy(a, m)
  IN  \/ left < right
      \/ left = right /\ ld[a] < ld[b]
      \/ /\ left = right /\ ld[a] = ld[b]
         /\ \/ a \in Unlimited /\ b \notin Unlimited
            \/ /\ a \in Unlimited <=> b \in Unlimited
               /\ balance[a] > balance[b] \/ (balance[a] = balance[b] /\ a < b)

\* pickFromPool: a is what sorting the pool puts first.
IsPick(a, pool, m, ld) ==
  a \in pool /\ \A b \in pool \ {a} : Precedes(a, b, m, ld)

SameGroup(a, g) == a \in accounts /\ InGroup(a, g)

----------------------------------------------------------------------------
(* The request path: AssignAccountGated under Store.Mutate *)

Sticky(k, m, barred) ==
  /\ SameGroup(binding[k], keyGroup[k])
  /\ binding[k] \in Pool(keyGroup[k], m, barred)

\* The bound account is in working order.
HealthyBinding(k) ==
  LET a == binding[k]
  IN  /\ SameGroup(a, keyGroup[k])
      /\ GroupEnabled(AccountGroup[a])
      /\ usable[a]
      /\ up[a] > 0

\* Faulty variant: a rate limited account is not told from a broken one.
BorrowsForModelOnly(k, m, barred) ==
  ~Sticky(k, m, barred) /\ HealthyBinding(k) /\ m # AnyModel

\* The bound account works but is not for this request: another is borrowed.
Borrows(k, m, barred) ==
  /\ ~Sticky(k, m, barred)
  /\ HealthyBinding(k)
  /\ m # AnyModel \/ binding[k] \in barred

\* Faulty variant: the index forgets to let go of a key.
KeepLoad(ld, a) == ld

\* detachKeyAccount on the index.
Detach(ld, a) ==
  IF a # None /\ ld[a] > 0 THEN [ld EXCEPT ![a] = @ - 1] ELSE ld

Attach(ld, a) == [ld EXCEPT ![a] = @ + 1]

\* The account a request for model m gets; empty: none can take it.
Served(k, m, barred) ==
  IF Sticky(k, m, barred)
  THEN {binding[k]}
  ELSE LET pool == Pool(keyGroup[k], m, barred)
           ld == IF Borrows(k, m, barred) THEN load ELSE Detach(load, binding[k])
       IN  {a \in pool : IsPick(a, pool, m, ld)}

\* The request is served without touching the binding.
KeepBinding(k, m, barred) ==
  /\ Sticky(k, m, barred) \/ Borrows(k, m, barred)
  /\ UNCHANGED vars

\* The binding is given up, and replaced when some account can take the key.
Rebind(k, m, barred) ==
  /\ ~Sticky(k, m, barred) /\ ~Borrows(k, m, barred)
  /\ LET freed == Detach(load, binding[k])
     IN  \/ /\ Pool(keyGroup[k], m, barred) = {}
            /\ binding' = [binding EXCEPT ![k] = None]
            /\ load' = freed
         \/ \E a \in Served(k, m, barred) :
              /\ binding' = [binding EXCEPT ![k] = a]
              /\ load' = Attach(freed, a)
  /\ UNCHANGED <<groupVars, accountVars, keys, keyGroup>>

AssignAccount(k, m, barred) ==
  /\ k \in keys
  /\ KeepBinding(k, m, barred) \/ Rebind(k, m, barred)

----------------------------------------------------------------------------
(* Administration of keys: Store.Update, which ends with reindex *)

\* A handler that looked a group up before taking the lock may meet one that
\* has been deleted since.
KnownGroups == groups \cup goneGroups
KnownAccounts == accounts \cup goneAccounts

\* Faulty variant: the keys of a batch do not see one another.
LoadAtStart(ks, b, k) == load

\* The loads the batch ks has built up when it comes to key k.
LoadBefore(ks, b, k) ==
  [a \in Account |-> load[a] + Cardinality({j \in ks : j < k /\ b[j] = a})]

\* handleKeyBulk, and the POST of handleKeyCollection for a single key: the
\* keys are appended with the template's group g and account t, then assigned
\* one after the other, each seeing the load of those before it.
CreateKeys(ks, g, t) ==
  /\ ks # {} /\ ks \cap keys = {}
  /\ keys' = keys \cup ks
  /\ keyGroup' = [k \in Key |-> IF k \in ks THEN g ELSE keyGroup[k]]
  /\ LET pool == Pool(g, AnyModel, {})
         keep == SameGroup(t, g) /\ t \in pool
     IN  \E b \in [ks -> Account \cup {None}] :
           /\ \A k \in ks :
                \/ keep /\ b[k] = t
                \/ ~keep /\ pool = {} /\ b[k] = None
                \/ ~keep /\ IsPick(b[k], pool, AnyModel, LoadBefore(ks, b, k))
           /\ binding' = [k \in Key |-> IF k \in ks THEN b[k] ELSE binding[k]]
  /\ load' = Reindexed(keys', binding')
  /\ UNCHANGED <<groupVars, accountVars>>

\* handleKeyPatch writes whatever group and account it is given: neither is
\* looked up, and leaving a field empty leaves it alone.
PatchKey(k, g, a) ==
  /\ k \in keys
  /\ keyGroup' = [keyGroup EXCEPT ![k] = g]
  /\ binding' = [binding EXCEPT ![k] = a]
  /\ load' = Reindexed(keys, binding')
  /\ UNCHANGED <<groupVars, accountVars, keys>>

RemoveKeys(ks) ==
  /\ ks # {}
  /\ keys' = keys \ ks
  /\ keyGroup' = [k \in Key |-> IF k \in ks THEN None ELSE keyGroup[k]]
  /\ binding' = [k \in Key |-> IF k \in ks THEN None ELSE binding[k]]
  /\ load' = Reindexed(keys', binding')
  /\ UNCHANGED <<groupVars, accountVars>>

----------------------------------------------------------------------------
(* Administration of accounts and groups *)

\* createAccount.  An account none of whose API keys was accepted exists with
\* no provider until a second Update removes it.
CreateAccount(a, u, bal) ==
  /\ a \notin KnownAccounts
  /\ \A b \in KnownAccounts : b < a
  /\ AccountGroup[a] \in KnownGroups
  /\ accounts' = accounts \cup {a}
  /\ usable' = [usable EXCEPT ![a] = u]
  /\ balance' = [balance EXCEPT ![a] = bal]
  /\ up' = [up EXCEPT ![a] = Providers[a]]
  /\ load' = Reindexed(keys, binding)
  /\ UNCHANGED <<groupVars, goneAccounts, keys, keyGroup, binding>>

\* Faulty variant: keys keep pointing at the removed accounts.
StillBound(gone) == binding

\* What RemoveAccounts leaves of the bindings.
Unbound(gone) == [k \in Key |-> IF binding[k] \in gone THEN None ELSE binding[k]]

RemoveAccounts(dropped) ==
  /\ dropped # {} /\ dropped \subseteq accounts
  /\ accounts' = accounts \ dropped
  /\ goneAccounts' = goneAccounts \cup dropped
  /\ usable' = [a \in Account |-> usable[a] /\ a \notin dropped]
  /\ up' = [a \in Account |-> IF a \in dropped THEN 0 ELSE up[a]]
  /\ binding' = Unbound(dropped)
  /\ load' = Reindexed(keys, binding')
  /\ UNCHANGED <<groupVars, balance, keys, keyGroup>>

CreateGroup(g, on) ==
  /\ g \notin KnownGroups
  /\ groups' = groups \cup {g}
  /\ enabledGroups' = IF on THEN enabledGroups \cup {g} ELSE enabledGroups
  /\ load' = Reindexed(keys, binding)
  /\ UNCHANGED <<goneGroups, accountVars, keys, keyGroup, binding>>

\* handleGroupEnable: a disabled group takes its whole pool offline.
EnableGroup(g, on) ==
  /\ g \in groups
  /\ enabledGroups' = IF on THEN enabledGroups \cup {g} ELSE enabledGroups \ {g}
  /\ load' = Reindexed(keys, binding)
  /\ UNCHANGED <<groups, goneGroups, accountVars, keys, keyGroup, binding>>

\* RemoveGroups: the group's accounts go with it, and keys limited to the
\* group are freed of the limit.
RemoveGroup(g) ==
  LET dropped == {a \in accounts : AccountGroup[a] = g}
  IN  /\ g \in KnownGroups
      /\ groups' = groups \ {g}
      /\ enabledGroups' = enabledGroups \ {g}
      /\ goneGroups' = goneGroups \cup {g}
      /\ accounts' = accounts \ dropped
      /\ goneAccounts' = goneAccounts \cup dropped
      /\ usable' = [a \in Account |-> usable[a] /\ a \notin dropped]
      /\ up' = [a \in Account |-> IF a \in dropped THEN 0 ELSE up[a]]
      /\ keyGroup' = [k \in Key |-> IF keyGroup[k] = g THEN None ELSE keyGroup[k]]
      /\ binding' = Unbound(dropped)
      /\ load' = Reindexed(keys, binding')
      /\ UNCHANGED <<balance, keys>>

----------------------------------------------------------------------------
(* Steps of the other components *)

\* Billing, balance refresh, suspension and the administrator's switch.  They
\* run under Store.Mutate or Store.Update and touch neither keys nor groups;
\* an Update's reindex recomputes the same load.
AccountChanges(a, u, bal) ==
  /\ a \in accounts
  /\ usable' = [usable EXCEPT ![a] = u]
  /\ balance' = [balance EXCEPT ![a] = bal]
  /\ UNCHANGED <<groupVars, accounts, goneAccounts, up, keyVars>>

\* ReportFailure puts an upstream API on cooldown; time or ReportSuccess
\* brings it back.
ProviderChanges(a) ==
  /\ a \in accounts
  /\ \E n \in 0..Providers[a] :
       /\ n + 1 = up[a] \/ n = up[a] + 1
       /\ up' = [up EXCEPT ![a] = n]
  /\ UNCHANGED <<groupVars, accounts, goneAccounts, usable, balance, keyVars>>

----------------------------------------------------------------------------

\* An empty data file.
Init ==
  /\ groups = {} /\ enabledGroups = {} /\ goneGroups = {}
  /\ accounts = {} /\ goneAccounts = {}
  /\ usable = [a \in Account |-> FALSE]
  /\ balance \in {[a \in Account |-> v] : v \in Balances}
  /\ up = [a \in Account |-> 0]
  /\ keys = {}
  /\ keyGroup = [k \in Key |-> None]
  /\ binding = [k \in Key |-> None]
  /\ load = [a \in Account |-> 0]

\* The values an account's money may take: an unlimited account's never move.
BalancesOf(a) == IF a \in Unlimited THEN {balance[a]} ELSE Balances

Next ==
  \/ \E k \in Key, m \in Model \cup {AnyModel}, barred \in SUBSET Limited :
       AssignAccount(k, m, barred)
  \/ \E ks \in SUBSET Key, g \in KnownGroups \cup {None},
        t \in KnownAccounts \cup {None} : CreateKeys(ks, g, t)
  \/ \E k \in Key : \E g \in KnownGroups \cup {keyGroup[k]},
        a \in KnownAccounts \cup {binding[k]} : PatchKey(k, g, a)
  \/ \E ks \in SUBSET Key : RemoveKeys(ks)
  \/ \E a \in Account, u \in BOOLEAN : \E bal \in BalancesOf(a) : CreateAccount(a, u, bal)
  \/ \E dropped \in SUBSET Account : RemoveAccounts(dropped)
  \/ \E g \in Group, on \in BOOLEAN : CreateGroup(g, on) \/ EnableGroup(g, on)
  \/ \E g \in Group : RemoveGroup(g)
  \/ \E a \in Account, u \in BOOLEAN : \E bal \in BalancesOf(a) : AccountChanges(a, u, bal)
  \/ \E a \in Account : ProviderChanges(a)

Spec == Init /\ [][Next]_vars

----------------------------------------------------------------------------
(* Properties *)

(* The incrementally maintained load index equals a recount of the bindings,
   whatever mixture of Mutate (detach, attach) and Update (reindex) led here.
   A drift would silently skew every later placement. *)
LoadIndexExact == load = Reindexed(keys, binding)

(* AssignAccountGated is total and deterministic: a request is turned away
   only when no account can take it, and otherwise gets exactly one account,
   which is eligible for it; the comparator never leaves a tie. *)
AssignmentDecided ==
  \A k \in keys, m \in Model \cup {AnyModel}, barred \in SUBSET Limited :
    LET eligible == UsableAccounts(keyGroup[k], m, barred)
        served == Served(k, m, barred)
    IN  /\ served \subseteq eligible
        /\ Cardinality(served) = IF eligible = {} THEN 0 ELSE 1

(* No request moves a key off an account that is in working order: an account
   that is rate limited, or does not carry the requested model, is only
   replaced for this one request (allocate.go:168-172). *)
HealthyBindingsStay ==
  [][\A k \in keys :
       HealthyBinding(k) /\ binding'[k] # binding[k] =>
         \A m \in Model \cup {AnyModel}, barred \in SUBSET Limited :
           ~AssignAccount(k, m, barred)]_vars

(* A removed account or group leaves nothing behind: no key bound to it, no
   account in it, no key limited to it (RemoveAccounts, RemoveGroups). *)
RemovalCascades ==
  [][/\ \A a \in accounts \ accounts' : \A k \in Key : binding'[k] # a
     /\ \A g \in groups \ groups' :
          /\ \A a \in accounts' : AccountGroup[a] # g
          /\ \A k \in Key : keyGroup'[k] # g]_vars

(* A batch of keys created at once is spread evenly: no account of the pool
   takes a key while, counting that key, it carries more keys per working
   upstream than some other account of the pool ends up with. *)
BatchSpreadEvenly ==
  [][\A g \in Group \cup {None} :
       keys' \ keys # {} /\ CreateKeys(keys' \ keys, g, None) =>
         \A a, b \in Pool(g, AnyModel, {}) :
           load'[a] > load[a] => (load'[a] - 1) * up[b] <= load'[b] * up[a]]_vars
=============================================================================
