------------------------- MODULE BalanceRefreshProofs -------------------------
(***************************************************************************)
(* Theorems about BalanceRefresh, for any number of accounts, requests,    *)
(* calls and batches, and for every configuration of the accounts.  The    *)
(* money rules are about one account at a time: MoneyMoves lists what any  *)
(* step may make of an account, and the lemmas after it say what that      *)
(* entails.                                                                *)
(***************************************************************************)
EXTENDS BalanceRefresh, TLAPS

----------------------------------------------------------------------------
(* The money rules *)

\* What a step other than the administrator's switch-on may make of x.
MoneyStep(c, x, y) ==
  \/ y = x
  \/ y = SuspendIfExhausted(c, x)
  \/ y = ApplyFailure(x)
  \/ \E read \in Nat : y = ApplyBalance(c, x, read)
  \/ \E cost \in Nat : y = Charge(c, x, cost)
  \/ y = Suspend([x EXCEPT !.enabled = FALSE], "admin")

(* The floor of an account is a natural number. *)
LEMMA FloorType ==
  ASSUME NEW c \in Config
  PROVE  BalanceFloor(c) \in Nat
BY SafetyLineAssumption DEF Config, BalanceFloor, Larger, EstimatedCallCost

(* Suspending keeps the type of an account, its balance and its check. *)
LEMMA SuspendType ==
  ASSUME NEW x \in AccountState, NEW why \in {"floor", "admin"}
  PROVE  /\ Suspend(x, why) \in AccountState
         /\ Suspend(x, why).balance = x.balance /\ Suspend(x, why).check = x.check
         /\ Suspend(x, why).enabled = x.enabled
         /\ Suspend(x, why).suspend = IF x.suspend # "no" THEN x.suspend ELSE why
BY DEF Suspend, Suspended, AccountState

(* So does suspending on the condition that the account has run out. *)
LEMMA SuspendIfExhaustedType ==
  ASSUME NEW c \in Config, NEW x \in AccountState
  PROVE  SuspendIfExhausted(c, x) \in AccountState
BY SuspendType DEF SuspendIfExhausted

(* And switching an account on. *)
LEMMA ResumeType ==
  ASSUME NEW x \in AccountState
  PROVE  /\ Resume(x) \in AccountState
         /\ Resume(x).suspend = "no" /\ Resume(x).enabled = TRUE
         /\ Resume(x).balance = x.balance /\ Resume(x).check = x.check
BY DEF Resume, AccountState

(* Every step keeps the type of the accounts. *)
LEMMA MoneyStepType ==
  ASSUME NEW c \in Config, NEW x \in AccountState, NEW y, MoneyStep(c, x, y)
  PROVE  y \in AccountState
<1>1. CASE y = x \/ y = SuspendIfExhausted(c, x)
  BY <1>1, SuspendIfExhaustedType
<1>2. CASE y = ApplyFailure(x)
  BY <1>2 DEF ApplyFailure, AccountState
<1>3. ASSUME NEW read \in Nat, y = ApplyBalance(c, x, read)
      PROVE  y \in AccountState
  <2> DEFINE z == [x EXCEPT !.balance = read, !.check = "ok"]
  <2>1. z \in AccountState
    BY DEF AccountState
  <2> HIDE DEF z
  <2>2. SuspendIfExhausted(c, z) \in AccountState
    BY <2>1, SuspendIfExhaustedType
  <2> QED
    BY <1>3, <2>2, ResumeType DEF ApplyBalance, z
<1>4. ASSUME NEW cost \in Nat, y = Charge(c, x, cost)
      PROVE  y \in AccountState
  <2> DEFINE left == IF cost > x.balance THEN 0 ELSE x.balance - cost
  <2>1. left \in Nat
    BY DEF AccountState
  <2>2. y = x \/ y = [x EXCEPT !.balance = left, !.check = "ok"]
    BY <1>4 DEF Charge
  <2> HIDE DEF left
  <2> QED
    BY <2>1, <2>2 DEF AccountState
<1>5. CASE y = Suspend([x EXCEPT !.enabled = FALSE], "admin")
  <2>1. [x EXCEPT !.enabled = FALSE] \in AccountState
    BY DEF AccountState
  <2> QED
    BY <1>5, <2>1, SuspendType
<1> QED
  BY <1>1, <1>2, <1>3, <1>4, <1>5 DEF MoneyStep

(* For an account that is switched on, Usable and Exhausted are opposites. *)
LEMMA UsableOrExhausted ==
  ASSUME NEW c \in Config, NEW x \in AccountState, x.enabled, ~Suspended(x)
  PROVE  Usable(c, x) <=> ~Exhausted(c, x)
<1>1. x.balance \in Nat /\ x.check \in {"never", "ok", "error"}
  BY DEF AccountState
<1> QED
  BY <1>1, FloorType DEF Usable, Exhausted, BalanceKnown, NoLimit, LocalOnly

(* The write-back of a balance: suspended at the floor, resumed above it. *)
LEMMA ApplyBalanceRules ==
  ASSUME NEW c \in Config, NEW x \in AccountState, NEW read \in Nat
  PROVE  LET y == ApplyBalance(c, x, read)
         IN  /\ x.suspend # "floor" /\ y.suspend = "floor" => c.auto /\ Exhausted(c, y)
             /\ Suspended(x) /\ ~Suspended(y) => Usable(c, y)
             /\ y.check = "ok"
<1> DEFINE z == [x EXCEPT !.balance = read, !.check = "ok"]
<1> DEFINE s == SuspendIfExhausted(c, z)
<1>1. z \in AccountState /\ z.suspend = x.suspend /\ z.check = "ok" /\ z.balance = read
  BY DEF AccountState
<1> HIDE DEF z
<1>2. s \in AccountState /\ s.check = "ok" /\ s.balance = read
  BY <1>1, SuspendIfExhaustedType, SuspendType DEF SuspendIfExhausted
<1>3. Exhausted(c, s) <=> Exhausted(c, z)
  BY <1>1, <1>2 DEF Exhausted, BalanceKnown
<1>4. x.suspend # "floor" /\ s.suspend = "floor" => c.auto /\ Exhausted(c, s)
  BY <1>1, <1>3, SuspendType DEF SuspendIfExhausted
<1>5. Suspended(x) => Suspended(s)
  BY <1>1, SuspendType DEF SuspendIfExhausted, Suspended
<1> HIDE DEF s
<1>6. CASE Resumable(c, s)
  <2>1. ApplyBalance(c, x, read) = Resume(s)
    BY <1>6 DEF ApplyBalance, s, z
  <2>2. Usable(c, Resume(s))
    <3>1. ~Exhausted(c, Resume(s))
      BY <1>2, <1>6, ResumeType DEF Resumable, Exhausted, BalanceKnown
    <3>2. Resume(s) \in AccountState /\ Resume(s).enabled /\ ~Suspended(Resume(s))
      BY <1>2, ResumeType DEF Suspended
    <3> QED
      BY <3>1, <3>2, UsableOrExhausted
  <2> QED
    BY <1>2, <2>1, <2>2, ResumeType
<1>7. CASE ~Resumable(c, s)
  <2>1. ApplyBalance(c, x, read) = s
    BY <1>7 DEF ApplyBalance, s, z
  <2> QED
    BY <1>2, <1>4, <1>5, <2>1
<1> QED
  BY <1>6, <1>7

(* Only an account that has run out, and may be suspended for that, is. *)
LEMMA SuspendedWhenExhausted ==
  ASSUME NEW c \in Config, NEW x \in AccountState, NEW y, MoneyStep(c, x, y),
         x.suspend # "floor", y.suspend = "floor"
  PROVE  c.auto /\ Exhausted(c, y)
<1>1. CASE y = SuspendIfExhausted(c, x)
  BY <1>1, SuspendType DEF SuspendIfExhausted, Exhausted, BalanceKnown
<1>2. CASE y = ApplyFailure(x) \/ \E cost \in Nat : y = Charge(c, x, cost)
  BY <1>2 DEF ApplyFailure, Charge, AccountState
<1>3. CASE y = Suspend([x EXCEPT !.enabled = FALSE], "admin")
  <2>1. [x EXCEPT !.enabled = FALSE] \in AccountState
    BY DEF AccountState
  <2>2. [x EXCEPT !.enabled = FALSE].suspend = x.suspend
    BY DEF AccountState
  <2> QED
    BY <1>3, <2>1, <2>2, SuspendType
<1> QED
  BY <1>1, <1>2, <1>3, ApplyBalanceRules DEF MoneyStep

(* Only into a state in which it may carry traffic does an account resume. *)
LEMMA ResumedWhenUsable ==
  ASSUME NEW c \in Config, NEW x \in AccountState, NEW y, MoneyStep(c, x, y),
         Suspended(x), ~Suspended(y)
  PROVE  Usable(c, y)
<1>1. CASE y = SuspendIfExhausted(c, x)
  BY <1>1 DEF SuspendIfExhausted, Suspend
<1>2. CASE y = ApplyFailure(x) \/ \E cost \in Nat : y = Charge(c, x, cost)
  BY <1>2 DEF ApplyFailure, Charge, AccountState, Suspended
<1>3. CASE y = Suspend([x EXCEPT !.enabled = FALSE], "admin")
  BY <1>3 DEF Suspend, AccountState, Suspended
<1> QED
  BY <1>1, <1>2, <1>3, ApplyBalanceRules DEF MoneyStep

(* A failed query takes no account out of service. *)
LEMMA UsableAfterFailure ==
  ASSUME NEW c \in Config, NEW x \in AccountState, NEW y, MoneyStep(c, x, y),
         Usable(c, x), y.check = "error"
  PROVE  Usable(c, y) \/ ~y.enabled
<1>1. CASE y = SuspendIfExhausted(c, x)
  <2>1. x.enabled /\ ~Suspended(x)
    BY DEF Usable
  <2>2. ~Exhausted(c, x)
    BY <2>1, UsableOrExhausted
  <2> QED
    BY <1>1, <2>2 DEF SuspendIfExhausted
<1>2. CASE y = ApplyFailure(x)
  BY <1>2 DEF ApplyFailure, AccountState, Usable, Suspended
<1>3. ASSUME NEW cost \in Nat, y = Charge(c, x, cost)
      PROVE  y = x
  BY <1>3 DEF Charge, AccountState
<1>4. CASE y = Suspend([x EXCEPT !.enabled = FALSE], "admin")
  <2>1. [x EXCEPT !.enabled = FALSE] \in AccountState /\ [x EXCEPT !.enabled = FALSE].enabled = FALSE
    BY DEF AccountState
  <2> QED
    BY <1>4, <2>1, SuspendType
<1> QED
  BY <1>1, <1>2, <1>3, <1>4, ApplyBalanceRules DEF MoneyStep

(* Switching on an account that may carry traffic changes nothing about that. *)
LEMMA UsableWhenResumed ==
  ASSUME NEW c \in Config, NEW x \in AccountState, Usable(c, x)
  PROVE  Usable(c, Resume(x))
<1>1. ~Suspended(Resume(x)) /\ Resume(x).enabled
  BY ResumeType DEF Suspended
<1> QED
  BY <1>1, ResumeType DEF Usable

----------------------------------------------------------------------------
(* The state *)

\* A goroutine at work knows its account, and one that has an answer has got
\* a proper one.
CallsNamed ==
  \A c \in Calls :
    /\ call[c].phase # "closed" => call[c].id \in Accounts
    /\ call[c].phase = "fetched" => call[c].snap \in Snapshots

IInv == TypeOK /\ OneCallPerAccount /\ CallsNamed

CallType == [phase : Phases, id : Accounts \cup {None}, snap : Snapshots \cup {None},
             usable : BOOLEAN]

BatchType == [applying : BOOLEAN, todo : SUBSET Accounts,
              got : [Accounts -> Snapshots \cup {None}]]

\* Accounts keep their configurations and, each of them, the money rules.
AccountsMove ==
  /\ conf' = conf
  /\ \A a \in Accounts :
       \/ MoneyStep(conf[a], acct[a], acct'[a])
       \/ AdminEnable(a) /\ acct'[a] = Resume(acct[a])

(* What the write-back of an answer makes of an account is one of the steps
   above. *)
LEMMA AppliedMoves ==
  ASSUME NEW a \in Accounts, NEW s \in Snapshots
  PROVE  MoneyStep(conf[a], acct[a], Applied(a, s))
<1>1. s = Failed \/ s = Local \/ s \in Nat
  BY RefreshAssumption DEF Snapshots
<1> QED
  BY <1>1 DEF Applied, MoneyStep

(* A write-back touches its account only. *)
LEMMA WriteBackMoves ==
  ASSUME TypeOK, conf' = conf, NEW a \in Accounts, NEW s \in Snapshots, WriteBack(a, s)
  PROVE  AccountsMove
<1>1. acct \in [Accounts -> AccountState]
  BY DEF TypeOK
<1>2. MoneyStep(conf[a], acct[a], Applied(a, s))
  BY AppliedMoves
<1>3. acct' = acct \/ acct' = [acct EXCEPT ![a] = Applied(a, s)]
  BY DEF WriteBack
<1>4. ASSUME NEW b \in Accounts
      PROVE  MoneyStep(conf[b], acct[b], acct'[b])
  <2>1. CASE acct'[b] = acct[b]
    BY <2>1 DEF MoneyStep
  <2>2. CASE b = a /\ acct'[b] = Applied(a, s)
    BY <1>2, <2>2
  <2> QED
    BY <1>1, <1>3, <2>1, <2>2
<1> QED
  BY <1>4 DEF AccountsMove

(* No step does anything else to an account. *)
LEMMA NextMoves ==
  ASSUME TypeOK, CallsNamed, [Next]_vars
  PROVE  AccountsMove
<1>1. acct \in [Accounts -> AccountState] /\ Costs \subseteq Nat
  BY RefreshAssumption DEF TypeOK
<1>2. CASE UNCHANGED <<conf, acct>>
  BY <1>2 DEF AccountsMove, MoneyStep
<1>3. ASSUME conf' = conf, NEW a \in Accounts, NEW y, MoneyStep(conf[a], acct[a], y),
             acct' = [acct EXCEPT ![a] = y]
      PROVE  AccountsMove
  BY <1>1, <1>3 DEF AccountsMove, MoneyStep
<1>4. CASE \E r \in Requests, a \in Accounts : Ask(r, a)
  BY <1>2, <1>4 DEF Ask, accountVars
<1>5. CASE \E r \in Requests : Wake(r) \/ GiveUp(r)
  BY <1>2, <1>5 DEF Wake, GiveUp, accountVars
<1>6. ASSUME NEW r \in Requests, SuspendOverdrawn(r)
      PROVE  AccountsMove
  <2>1. PICK a \in Accounts : a = overdrawn[r]
    BY <1>6 DEF SuspendOverdrawn, TypeOK
  <2>2. conf' = conf
    BY <1>6 DEF SuspendOverdrawn
  <2>3. acct' = acct \/ acct' = [acct EXCEPT ![a] = SuspendIfExhausted(conf[a], acct[a])]
    BY <1>6, <2>1 DEF SuspendOverdrawn
  <2>4. MoneyStep(conf[a], acct[a], SuspendIfExhausted(conf[a], acct[a]))
    BY DEF MoneyStep
  <2> QED
    BY <1>2, <1>3, <2>2, <2>3, <2>4
<1>7. ASSUME NEW c \in Calls, CallStep(c)
      PROVE  AccountsMove
  <2>1. CASE Fetch(c) \/ Unlist(c) \/ Close(c)
    BY <1>2, <2>1 DEF Fetch, Unlist, Close, accountVars
  <2>2. CASE Apply(c)
    <3>1. PICK a \in Accounts, s \in Snapshots : a = call[c].id /\ s = call[c].snap
      BY <2>2 DEF Apply, CallsNamed
    <3>2. conf' = conf /\ WriteBack(a, s)
      BY <2>2, <3>1 DEF Apply, WriteBack, Applied
    <3> QED
      BY <3>2, WriteBackMoves
  <2> QED
    BY <1>7, <2>1, <2>2 DEF CallStep
<1>8. CASE \E b \in Batches, ids \in SUBSET Accounts : StartBatch(b, ids)
  BY <1>2, <1>8 DEF StartBatch, accountVars
<1>9. ASSUME NEW b \in Batches, BatchStep(b)
      PROVE  AccountsMove
  <2>1. CASE BatchEmpty(b) \/ \E a \in Accounts : BatchFetch(b, a)
    BY <1>2, <2>1 DEF BatchEmpty, BatchFetch, accountVars
  <2>2. ASSUME NEW a \in Accounts, BatchApply(b, a)
        PROVE  AccountsMove
    <3>1. PICK s \in Snapshots : s = batch[b].got[a]
      BY <2>2 DEF BatchApply, TypeOK
    <3>2. conf' = conf /\ WriteBack(a, s)
      BY <2>2, <3>1 DEF BatchApply, WriteBack, Applied
    <3> QED
      BY <3>2, WriteBackMoves
  <2> QED
    BY <1>9, <2>1, <2>2 DEF BatchStep
<1>10. ASSUME NEW r \in Requests, NEW a \in Accounts, NEW cost \in Costs, RecordUsage(r, a, cost)
       PROVE  AccountsMove
  <2>1. conf' = conf /\ acct' = [acct EXCEPT ![a] = Charge(conf[a], acct[a], cost)]
    BY <1>10 DEF RecordUsage
  <2>2. MoneyStep(conf[a], acct[a], Charge(conf[a], acct[a], cost))
    BY <1>1 DEF MoneyStep
  <2> QED
    BY <1>3, <2>1, <2>2
<1>11. CASE Sweep
  BY <1>11 DEF Sweep, AccountsMove, MoneyStep
<1>12. ASSUME NEW a \in Accounts, AdminEnable(a)
       PROVE  AccountsMove
  BY <1>1, <1>12 DEF AdminEnable, AccountsMove, MoneyStep
<1>13. ASSUME NEW a \in Accounts, AdminDisable(a)
       PROVE  AccountsMove
  <2>1. conf' = conf
        /\ acct' = [acct EXCEPT ![a] = Suspend([acct[a] EXCEPT !.enabled = FALSE], "admin")]
    BY <1>13 DEF AdminDisable
  <2>2. MoneyStep(conf[a], acct[a], Suspend([acct[a] EXCEPT !.enabled = FALSE], "admin"))
    BY DEF MoneyStep
  <2> QED
    BY <1>3, <2>1, <2>2
<1>14. CASE \E a \in Accounts : RemoveAccount(a) \/ \E v \in Money : RemoteChanges(a, v)
  BY <1>2, <1>14 DEF RemoveAccount, RemoteChanges
<1>15. CASE UNCHANGED vars
  BY <1>2, <1>15 DEF vars
<1> QED
  BY <1>4, <1>5, <1>6, <1>7, <1>8, <1>9, <1>10, <1>11, <1>12, <1>13, <1>14, <1>15 DEF Next

(* Accounts keep their types. *)
LEMMA AccountsKeepType ==
  ASSUME TypeOK, AccountsMove, acct' = [a \in Accounts |-> acct'[a]]
  PROVE  conf' \in [Accounts -> Configs] /\ acct' \in [Accounts -> AccountState]
<1>1. ASSUME NEW a \in Accounts
      PROVE  acct'[a] \in AccountState
  <2>1. conf[a] \in Config /\ acct[a] \in AccountState
    BY RefreshAssumption DEF TypeOK
  <2> QED
    BY <2>1, MoneyStepType, ResumeType DEF AccountsMove
<1> QED
  BY <1>1 DEF TypeOK, AccountsMove

\* What a step has to keep beside the accounts.
CallsOK ==
  /\ pending \in [Accounts -> Calls \cup {None}]
  /\ call \in [Calls -> CallType]
  /\ waits \in [Requests -> Calls \cup {None}]
  /\ OneCallPerAccount
  /\ CallsNamed

BatchesOK == batch \in [Batches -> BatchType]

(* A call object that is not at work may be taken for any account none is
   registered for. *)
LEMMA AskKeepsCalls ==
  ASSUME CallsOK, NEW r \in Requests, NEW a \in Accounts, Ask(r, a)
  PROVE  CallsOK'
<1>1. CASE pending[a] # None /\ UNCHANGED <<pending, call>>
           /\ waits' = [waits EXCEPT ![r] = pending[a]]
  BY <1>1 DEF CallsOK, OneCallPerAccount, CallsNamed
<1>2. ASSUME pending[a] = None, NEW c \in FreeCalls,
             call' = [call EXCEPT ![c] = [NoCall EXCEPT !.phase = "running", !.id = a]],
             pending' = [pending EXCEPT ![a] = c],
             waits' = [waits EXCEPT ![r] = c]
      PROVE  CallsOK'
  <2> DEFINE n == [NoCall EXCEPT !.phase = "running", !.id = a]
  <2>1. n \in CallType /\ n.phase = "running" /\ n.id = a
    BY DEF NoCall, CallType, Phases
  <2>2. c \in Calls /\ call[c].phase = "closed" /\ c # None
    BY RefreshAssumption DEF FreeCalls
  <2> HIDE DEF n
  <2>3. call' = [call EXCEPT ![c] = n]
    BY <1>2 DEF n
  <2>4. /\ pending' \in [Accounts -> Calls \cup {None}]
        /\ call' \in [Calls -> CallType]
        /\ waits' \in [Requests -> Calls \cup {None}]
    BY <1>2, <2>1, <2>2, <2>3 DEF CallsOK
  <2>5. CallsNamed'
    BY <2>1, <2>2, <2>3 DEF CallsOK, CallsNamed
  <2>6. ASSUME NEW b \in Accounts, NEW d \in Calls
        PROVE  pending'[b] = d <=>
                 call'[d].id = b /\ call'[d].phase \in {"running", "fetched", "applied"}
    <3>1. CASE d = c
      BY <1>2, <2>1, <2>2, <2>3, <3>1 DEF CallsOK, OneCallPerAccount
    <3>2. CASE d # c
      BY <1>2, <2>2, <2>3, <3>2, RefreshAssumption DEF CallsOK, OneCallPerAccount
    <3> QED
      BY <3>1, <3>2
  <2> QED
    BY <2>4, <2>5, <2>6 DEF CallsOK, OneCallPerAccount
<1> QED
  BY <1>1, <1>2 DEF Ask

(* A goroutine that goes on without leaving pending stays registered. *)
LEMMA StageKeepsCalls ==
  ASSUME CallsOK, NEW c \in Calls, NEW n \in CallType,
         call[c].phase \in {"running", "fetched"}, n.phase \in {"fetched", "applied"},
         n.id = call[c].id, n.phase = "fetched" => n.snap \in Snapshots,
         call' = [call EXCEPT ![c] = n], UNCHANGED <<pending, waits>>
  PROVE  CallsOK'
<1>1. call' \in [Calls -> CallType] /\ \A d \in Calls : call'[d] = IF d = c THEN n ELSE call[d]
  BY DEF CallsOK
<1>2. OneCallPerAccount'
  BY <1>1 DEF CallsOK, OneCallPerAccount
<1>3. CallsNamed'
  BY <1>1 DEF CallsOK, CallsNamed
<1> QED
  BY <1>1, <1>2, <1>3 DEF CallsOK

(* Whatever its goroutine does, a call that is at work stays registered. *)
LEMMA CallStepKeepsCalls ==
  ASSUME CallsOK, remote \in [Accounts -> Money], NEW c \in Calls, CallStep(c)
  PROVE  CallsOK'
<1>1. call \in [Calls -> CallType] /\ call[c] \in CallType
  BY DEF CallsOK
<1>2. CASE Fetch(c)
  <2>1. call[c].phase = "running" /\ UNCHANGED <<pending, waits>>
    BY <1>2 DEF Fetch
  <2>2. ASSUME NEW s \in Snapshots, call' = [call EXCEPT ![c].phase = "fetched", ![c].snap = s]
        PROVE  CallsOK'
    <3> DEFINE n == [call[c] EXCEPT !.phase = "fetched", !.snap = s]
    <3>1. n \in CallType /\ n.phase = "fetched" /\ n.id = call[c].id /\ n.snap = s
      BY <1>1 DEF CallType, Phases
    <3>2. call' = [call EXCEPT ![c] = n]
      BY <1>1, <2>2 DEF CallType
    <3> HIDE DEF n
    <3> QED
      BY <2>1, <3>1, <3>2, StageKeepsCalls
  <2>3. CASE call' = [call EXCEPT ![c].phase = "applied"]
    <3> DEFINE n == [call[c] EXCEPT !.phase = "applied"]
    <3>1. n \in CallType /\ n.phase = "applied" /\ n.id = call[c].id
      BY <1>1 DEF CallType, Phases
    <3>2. call' = [call EXCEPT ![c] = n]
      BY <1>1, <2>3 DEF CallType
    <3> HIDE DEF n
    <3> QED
      BY <2>1, <3>1, <3>2, StageKeepsCalls
  <2>4. PICK a \in Accounts : a = call[c].id
    BY <2>1 DEF CallsOK, CallsNamed
  <2>5. Answers(a) \subseteq Snapshots
    BY DEF Answers, Snapshots
  <2>6. \/ call' = [call EXCEPT ![c].phase = "applied"]
        \/ \E s \in Answers(a) : call' = [call EXCEPT ![c].phase = "fetched", ![c].snap = s]
    BY <1>2, <2>4 DEF Fetch, Answers
  <2> QED
    BY <2>2, <2>3, <2>5, <2>6
<1>3. CASE Apply(c)
  <2>1. call[c].phase = "fetched" /\ UNCHANGED <<pending, waits>>
    BY <1>3 DEF Apply
  <2>2. PICK u \in BOOLEAN : u = Verdict(call[c].id, call[c].snap)
    BY DEF Verdict
  <2> DEFINE n == [NoCall EXCEPT !.phase = "applied", !.id = call[c].id, !.usable = u]
  <2>3. n \in CallType /\ n.phase = "applied" /\ n.id = call[c].id
    BY <1>1 DEF CallType, Phases, NoCall
  <2>4. call' = [call EXCEPT ![c] = n]
    BY <1>3, <2>2 DEF Apply
  <2> HIDE DEF n
  <2> QED
    BY <2>1, <2>3, <2>4, StageKeepsCalls
<1>4. CASE Unlist(c)
  <2>1. /\ call[c].phase = "applied" /\ UNCHANGED waits
        /\ pending' = [pending EXCEPT ![call[c].id] = None]
        /\ call' = [call EXCEPT ![c].phase = "unlisted"]
    BY <1>4 DEF Unlist
  <2>2. call' \in [Calls -> CallType]
        /\ \A d \in Calls : /\ call'[d].id = call[d].id /\ call'[d].snap = call[d].snap
                            /\ call'[d].phase = IF d = c THEN "unlisted" ELSE call[d].phase
    BY <1>1, <2>1 DEF CallsOK, CallType, Phases
  <2>3. pending' \in [Accounts -> Calls \cup {None}]
    BY <2>1 DEF CallsOK
  <2>4. OneCallPerAccount'
    BY <2>1, <2>2, RefreshAssumption DEF CallsOK, OneCallPerAccount
  <2>5. CallsNamed'
    BY <2>1, <2>2 DEF CallsOK, CallsNamed
  <2> QED
    BY <2>1, <2>2, <2>3, <2>4, <2>5 DEF CallsOK
<1>5. CASE Close(c)
  <2>1. /\ call[c].phase = "unlisted" /\ UNCHANGED <<pending, waits>>
        /\ call' = [call EXCEPT ![c].phase = "closed"]
    BY <1>5 DEF Close
  <2>2. call' \in [Calls -> CallType]
        /\ \A d \in Calls : /\ call'[d].id = call[d].id /\ call'[d].snap = call[d].snap
                            /\ call'[d].phase = IF d = c THEN "closed" ELSE call[d].phase
    BY <1>1, <2>1 DEF CallsOK, CallType, Phases
  <2>3. OneCallPerAccount'
    BY <2>1, <2>2 DEF CallsOK, OneCallPerAccount
  <2>4. CallsNamed'
    BY <2>1, <2>2 DEF CallsOK, CallsNamed
  <2> QED
    BY <2>1, <2>2, <2>3, <2>4 DEF CallsOK
<1> QED
  BY <1>2, <1>3, <1>4, <1>5 DEF CallStep

(* A batch asks for accounts that exist, and holds answers. *)
LEMMA BatchStepKeepsBatches ==
  ASSUME BatchesOK, remote \in [Accounts -> Money], NEW b \in Batches,
         BatchStep(b) \/ \E ids \in SUBSET Accounts : StartBatch(b, ids)
  PROVE  BatchesOK'
<1>1. ASSUME NEW n \in BatchType, batch' = [batch EXCEPT ![b] = n]
      PROVE  BatchesOK'
  BY <1>1 DEF BatchesOK
<1>2. batch[b] \in BatchType /\ NoBatch \in BatchType /\ NothingGot \in [Accounts -> Snapshots \cup {None}]
  BY DEF BatchesOK, BatchType, NoBatch, NothingGot
<1>3. CASE \E ids \in SUBSET Accounts : StartBatch(b, ids)
  <2>1. PICK ids \in SUBSET Accounts : batch' = [batch EXCEPT ![b] = [NoBatch EXCEPT !.todo = ids]]
    BY <1>3 DEF StartBatch
  <2>2. [NoBatch EXCEPT !.todo = ids] \in BatchType
    BY <1>2 DEF BatchType
  <2> QED
    BY <1>1, <2>1, <2>2
<1>4. CASE BatchEmpty(b)
  BY <1>1, <1>2, <1>4 DEF BatchEmpty
<1>5. ASSUME NEW a \in Accounts, BatchFetch(b, a)
      PROVE  BatchesOK'
  <2>1. Answers(a) \subseteq Snapshots
    BY DEF Answers, Snapshots
  <2> DEFINE todo == batch[b].todo \ {a}
  <2> DEFINE n(s) == [applying |-> todo = {}, todo |-> todo,
                      got |-> [batch[b].got EXCEPT ![a] = s]]
  <2>2. PICK s \in {None} \cup Snapshots : batch' = [batch EXCEPT ![b] = n(s)]
    BY <1>5, <2>1 DEF BatchFetch
  <2>3. n(s) \in BatchType
    <3>1. [batch[b].got EXCEPT ![a] = s] \in [Accounts -> Snapshots \cup {None}]
      BY <1>2 DEF BatchType
    <3>2. todo \in SUBSET Accounts /\ (todo = {}) \in BOOLEAN
      BY <1>2 DEF BatchType
    <3> QED
      BY <3>1, <3>2 DEF BatchType
  <2> QED
    BY <1>1, <2>2, <2>3
<1>6. ASSUME NEW a \in Accounts, BatchApply(b, a)
      PROVE  BatchesOK'
  <2> DEFINE got == [batch[b].got EXCEPT ![a] = None]
  <2> DEFINE n == [NoBatch EXCEPT !.applying = got # NothingGot, !.got = got]
  <2>1. batch' = [batch EXCEPT ![b] = n]
    BY <1>6 DEF BatchApply
  <2>2. got \in [Accounts -> Snapshots \cup {None}]
    BY <1>2 DEF BatchType
  <2> HIDE DEF got
  <2>3. n \in BatchType
    BY <1>2, <2>2 DEF BatchType
  <2> QED
    BY <1>1, <2>1, <2>3
<1> QED
  BY <1>3, <1>4, <1>5, <1>6 DEF BatchStep

(* Every step keeps calls and batches in order; most concern only one or none
   of them. *)
LEMMA NextKeepsCalls ==
  ASSUME TypeOK, OneCallPerAccount, CallsNamed, [Next]_vars
  PROVE  CallsOK' /\ BatchesOK'
<1>1. CallsOK /\ BatchesOK /\ remote \in [Accounts -> Money]
  BY DEF TypeOK, CallsOK, BatchesOK, CallType, BatchType
<1>2. UNCHANGED callVars => CallsOK'
  BY <1>1 DEF callVars, CallsOK, CallType, OneCallPerAccount, CallsNamed
<1>3. batch' = batch => BatchesOK'
  BY <1>1 DEF BatchesOK, BatchType
<1>4. ASSUME NEW r \in Requests, NEW a \in Accounts, Ask(r, a)
      PROVE  CallsOK' /\ BatchesOK'
  BY <1>1, <1>3, <1>4, AskKeepsCalls DEF Ask
<1>5. ASSUME NEW r \in Requests, Wake(r) \/ GiveUp(r)
      PROVE  CallsOK' /\ BatchesOK'
  <2>1. /\ UNCHANGED <<pending, call, batch>>
        /\ waits' \in [Requests -> Calls \cup {None}]
    BY <1>1, <1>5 DEF Wake, GiveUp, CallsOK
  <2> QED
    BY <1>1, <1>3, <2>1 DEF CallsOK, OneCallPerAccount, CallsNamed
<1>6. ASSUME NEW c \in Calls, CallStep(c)
      PROVE  CallsOK' /\ BatchesOK'
  <2>1. batch' = batch
    BY <1>6 DEF CallStep, Fetch, Apply, Unlist, Close
  <2> QED
    BY <1>1, <1>3, <1>6, <2>1, CallStepKeepsCalls
<1>7. ASSUME NEW b \in Batches, BatchStep(b) \/ \E ids \in SUBSET Accounts : StartBatch(b, ids)
      PROVE  CallsOK' /\ BatchesOK'
  <2>1. UNCHANGED callVars
    BY <1>7 DEF BatchStep, BatchFetch, BatchApply, BatchEmpty, StartBatch
  <2> QED
    BY <1>1, <1>2, <1>7, <2>1, BatchStepKeepsBatches
<1>8. CASE \/ \E r \in Requests : SuspendOverdrawn(r)
           \/ \E r \in Requests, a \in Accounts, cost \in Costs : RecordUsage(r, a, cost)
           \/ Sweep
           \/ \E a \in Accounts : AdminEnable(a) \/ AdminDisable(a) \/ RemoveAccount(a)
           \/ \E a \in Accounts, v \in Money : RemoteChanges(a, v)
  BY <1>2, <1>3, <1>8
     DEF SuspendOverdrawn, RecordUsage, Sweep, AdminEnable, AdminDisable, RemoveAccount,
         RemoteChanges
<1>9. CASE UNCHANGED vars
  BY <1>2, <1>3, <1>9 DEF vars, callVars
<1> QED
  BY <1>4, <1>5, <1>6, <1>7, <1>8, <1>9 DEF Next

(* Nor does any step leave the other types. *)
LEMMA NextKeepsTheRest ==
  ASSUME TypeOK, [Next]_vars
  PROVE  /\ live' \subseteq Accounts
         /\ remote' \in [Accounts -> Money]
         /\ overdrawn' \in [Requests -> Accounts \cup {None}]
<1>1. CASE UNCHANGED <<live, remote, overdrawn>>
  BY <1>1 DEF TypeOK
<1>2. CASE \E r \in Requests, a \in Accounts : Ask(r, a)
  BY <1>1, <1>2 DEF Ask, accountVars
<1>3. CASE \E r \in Requests : Wake(r) \/ GiveUp(r)
  BY <1>1, <1>3 DEF Wake, GiveUp, accountVars
<1>4. CASE \E r \in Requests : SuspendOverdrawn(r)
  BY <1>4 DEF SuspendOverdrawn, TypeOK
<1>5. CASE \E c \in Calls : CallStep(c)
  BY <1>1, <1>5 DEF CallStep, Fetch, Apply, Unlist, Close, accountVars
<1>6. CASE \/ \E b \in Batches : BatchStep(b)
           \/ \E b \in Batches, ids \in SUBSET Accounts : StartBatch(b, ids)
  BY <1>1, <1>6 DEF BatchStep, BatchFetch, BatchApply, BatchEmpty, StartBatch, accountVars
<1>7. CASE \E r \in Requests, a \in Accounts, cost \in Costs : RecordUsage(r, a, cost)
  BY <1>7 DEF RecordUsage, TypeOK
<1>8. CASE Sweep \/ \E a \in Accounts : AdminEnable(a) \/ AdminDisable(a)
  BY <1>1, <1>8 DEF Sweep, AdminEnable, AdminDisable
<1>9. CASE \E a \in Accounts : RemoveAccount(a)
  BY <1>9 DEF RemoveAccount, TypeOK
<1>10. CASE \E a \in Accounts, v \in Money : RemoteChanges(a, v)
  BY <1>10 DEF RemoteChanges, TypeOK
<1>11. CASE UNCHANGED vars
  BY <1>1, <1>11 DEF vars
<1> QED
  BY <1>2, <1>3, <1>4, <1>5, <1>6, <1>7, <1>8, <1>9, <1>10, <1>11 DEF Next

(* Accounts stay functions: no step needs more than this of their values. *)
LEMMA NextKeepsAccounts ==
  ASSUME TypeOK, CallsNamed, [Next]_vars
  PROVE  conf' \in [Accounts -> Configs] /\ acct' \in [Accounts -> AccountState]
<1>1. AccountsMove
  BY NextMoves
<1>2. acct' = [a \in Accounts |-> acct'[a]]
  BY DEF TypeOK, Next, vars, Ask, Wake, GiveUp, SuspendOverdrawn, CallStep, Fetch, Apply, Unlist,
     Close, WriteBack, StartBatch, BatchStep, BatchFetch, BatchApply, BatchEmpty, RecordUsage,
     Sweep, AdminEnable, AdminDisable, RemoveAccount, RemoteChanges, accountVars
<1> QED
  BY <1>1, <1>2, AccountsKeepType

----------------------------------------------------------------------------
(* Requests and the calls they wait for *)

\* The steps a call has left until it wakes its waiters.
StagesLeft(x) ==
  CASE x.phase = "running"  -> 4
    [] x.phase = "fetched"  -> 3
    [] x.phase = "applied"  -> 2
    [] x.phase = "unlisted" -> 1
    [] x.phase = "closed"   -> 0

\* A request comes to wait for a call at work for the account it asked about,
\* and for as long as it waits that call is taken for nothing else and only
\* comes closer to its end.
CallsServeWaiters ==
  [][\A r \in Requests, c \in Calls :
       waits'[r] = c =>
         IF waits[r] = c
         THEN \/ call'[c] = call[c]
              \/ call'[c].id = call[c].id /\ StagesLeft(call'[c]) < StagesLeft(call[c])
         ELSE call'[c].phase \in {"running", "fetched", "applied"} /\ Ask(r, call'[c].id)]_vars

(* A step of a call's goroutine brings that call closer to its end, and leaves
   the other calls alone. *)
LEMMA CallStepGoesOn ==
  ASSUME TypeOK, NEW c \in Calls, CallStep(c)
  PROVE  /\ call'[c].id = call[c].id /\ StagesLeft(call'[c]) < StagesLeft(call[c])
         /\ \A d \in Calls \ {c} : call'[d] = call[d]
         /\ waits' = waits
<1>1. call \in [Calls -> CallType] /\ call[c] \in CallType
  BY DEF TypeOK, CallType
<1>2. CASE Fetch(c)
  <2>1. /\ call[c].phase = "running" /\ call'[c].phase \in {"fetched", "applied"}
        /\ call'[c].id = call[c].id /\ waits' = waits
    BY <1>1, <1>2 DEF Fetch, CallType
  <2>2. \A d \in Calls \ {c} : call'[d] = call[d]
    BY <1>1, <1>2 DEF Fetch
  <2> QED
    BY <2>1, <2>2 DEF StagesLeft
<1>3. CASE Apply(c)
  <2>1. /\ call[c].phase = "fetched" /\ call'[c].phase = "applied"
        /\ call'[c].id = call[c].id /\ waits' = waits
        /\ \A d \in Calls \ {c} : call'[d] = call[d]
    BY <1>1, <1>3 DEF Apply, NoCall, CallType
  <2> QED
    BY <2>1 DEF StagesLeft
<1>4. CASE Unlist(c)
  <2>1. /\ call[c].phase = "applied" /\ call'[c].phase = "unlisted"
        /\ call'[c].id = call[c].id /\ waits' = waits
        /\ \A d \in Calls \ {c} : call'[d] = call[d]
    BY <1>1, <1>4 DEF Unlist, CallType
  <2> QED
    BY <2>1 DEF StagesLeft
<1>5. CASE Close(c)
  <2>1. /\ call[c].phase = "unlisted" /\ call'[c].phase = "closed"
        /\ call'[c].id = call[c].id /\ waits' = waits
        /\ \A d \in Calls \ {c} : call'[d] = call[d]
    BY <1>1, <1>5 DEF Close, CallType
  <2> QED
    BY <2>1 DEF StagesLeft
<1> QED
  BY <1>2, <1>3, <1>4, <1>5 DEF CallStep

(* Asking takes no call from those who wait for it, and joins none that is
   over. *)
LEMMA AskJoinsWorkingCall ==
  ASSUME TypeOK, OneCallPerAccount, NEW r \in Requests, NEW a \in Accounts, Ask(r, a)
  PROVE  /\ waits'[r] \in Calls /\ call'[waits'[r]].id = a
         /\ call'[waits'[r]].phase \in {"running", "fetched", "applied"}
         /\ \A s \in Requests \ {r} : waits'[s] = waits[s]
         /\ \A s \in Requests, c \in Calls : waits[s] = c => call'[c] = call[c]
<1>1. CASE pending[a] # None /\ UNCHANGED <<pending, call>>
           /\ waits' = [waits EXCEPT ![r] = pending[a]]
  <2>1. pending[a] \in Calls /\ waits'[r] = pending[a]
        /\ \A s \in Requests \ {r} : waits'[s] = waits[s]
    BY <1>1 DEF TypeOK
  <2>2. call[pending[a]].id = a /\ call[pending[a]].phase \in {"running", "fetched", "applied"}
    BY <2>1 DEF OneCallPerAccount
  <2> QED
    BY <1>1, <2>1, <2>2
<1>2. ASSUME NEW c \in FreeCalls, waits' = [waits EXCEPT ![r] = c],
             call' = [call EXCEPT ![c] = [NoCall EXCEPT !.phase = "running", !.id = a]]
      PROVE  /\ waits'[r] \in Calls /\ call'[waits'[r]].id = a
             /\ call'[waits'[r]].phase \in {"running", "fetched", "applied"}
             /\ \A s \in Requests \ {r} : waits'[s] = waits[s]
             /\ \A s \in Requests, d \in Calls : waits[s] = d => call'[d] = call[d]
  <2>1. /\ c \in Calls /\ \A s \in Requests : waits[s] # c
        /\ waits'[r] = c /\ \A s \in Requests \ {r} : waits'[s] = waits[s]
        /\ \A d \in Calls \ {c} : call'[d] = call[d]
    BY <1>2 DEF TypeOK, FreeCalls
  <2>2. call'[c].id = a /\ call'[c].phase = "running"
    BY <1>2, <2>1 DEF TypeOK, NoCall
  <2> QED
    BY <2>1, <2>2
<1> QED
  BY <1>1, <1>2 DEF Ask

(* Whatever happens, those who wait are served. *)
LEMMA NextServesWaiters ==
  ASSUME TypeOK, OneCallPerAccount, [Next]_vars,
         NEW r \in Requests, NEW c \in Calls, waits'[r] = c
  PROVE  IF waits[r] = c
         THEN \/ call'[c] = call[c]
              \/ call'[c].id = call[c].id /\ StagesLeft(call'[c]) < StagesLeft(call[c])
         ELSE call'[c].phase \in {"running", "fetched", "applied"} /\ Ask(r, call'[c].id)
<1>1. CASE UNCHANGED callVars
  BY <1>1 DEF callVars
<1>2. ASSUME NEW s \in Requests, NEW a \in Accounts, Ask(s, a)
      PROVE  IF waits[r] = c THEN call'[c] = call[c]
             ELSE call'[c].phase \in {"running", "fetched", "applied"} /\ Ask(r, call'[c].id)
  BY <1>2, AskJoinsWorkingCall
<1>3. ASSUME NEW s \in Requests, Wake(s) \/ GiveUp(s)
      PROVE  waits[r] = c /\ call'[c] = call[c]
  BY <1>3, RefreshAssumption DEF Wake, GiveUp, TypeOK
<1>4. ASSUME NEW d \in Calls, CallStep(d)
      PROVE  /\ waits[r] = c
             /\ \/ call'[c] = call[c]
                \/ call'[c].id = call[c].id /\ StagesLeft(call'[c]) < StagesLeft(call[c])
  BY <1>4, CallStepGoesOn
<1>5. ASSUME NEW b \in Batches, BatchStep(b) \/ \E ids \in SUBSET Accounts : StartBatch(b, ids)
      PROVE  UNCHANGED callVars
  BY <1>5 DEF BatchStep, BatchFetch, BatchApply, BatchEmpty, StartBatch
<1>6. CASE \/ \E s \in Requests : SuspendOverdrawn(s)
           \/ \E s \in Requests, a \in Accounts, cost \in Costs : RecordUsage(s, a, cost)
           \/ Sweep
           \/ \E a \in Accounts : AdminEnable(a) \/ AdminDisable(a) \/ RemoveAccount(a)
           \/ \E a \in Accounts, v \in Money : RemoteChanges(a, v)
  BY <1>1, <1>6
     DEF SuspendOverdrawn, RecordUsage, Sweep, AdminEnable, AdminDisable, RemoveAccount,
         RemoteChanges
<1>7. CASE UNCHANGED vars
  BY <1>1, <1>7 DEF vars, callVars
<1> QED
  BY <1>1, <1>2, <1>3, <1>4, <1>5, <1>6, <1>7 DEF Next

----------------------------------------------------------------------------
(* The theorems *)

(* Accounts start switched on or off, with no call and no batch under way. *)
LEMMA InitIInv == Init => IInv
<1> SUFFICES ASSUME Init PROVE IInv
  OBVIOUS
<1>1. /\ NoCall \in CallType /\ NoCall.phase = "closed"
      /\ NoBatch \in BatchType
  BY DEF NoCall, CallType, Phases, NoBatch, BatchType, NothingGot
<1>2. acct \in [Accounts -> AccountState]
  <2>1. PICK on \in [Accounts -> BOOLEAN], initial \in [Accounts -> Money] :
          acct = [a \in Accounts |-> NewAccount(conf[a], initial[a], on[a])]
    BY DEF Init
  <2>2. ASSUME NEW a \in Accounts
        PROVE  NewAccount(conf[a], initial[a], on[a]) \in AccountState
    <3>1. initial[a] \in Nat /\ on[a] \in BOOLEAN
      BY RefreshAssumption
    <3> QED
      BY <3>1 DEF NewAccount, AccountState
  <2> QED
    BY <2>1, <2>2
<1>3. TypeOK
  BY <1>1, <1>2 DEF Init, TypeOK, CallType, BatchType
<1>4. OneCallPerAccount /\ CallsNamed
  BY <1>1, RefreshAssumption DEF Init, OneCallPerAccount, CallsNamed
<1> QED
  BY <1>3, <1>4 DEF IInv

(* And every step keeps the invariant. *)
LEMMA NextIInv == IInv /\ [Next]_vars => IInv'
<1> SUFFICES ASSUME IInv, [Next]_vars PROVE IInv'
  OBVIOUS
<1>1. CallsOK' /\ BatchesOK'
  BY NextKeepsCalls DEF IInv
<1>2. TypeOK'
  BY <1>1, NextKeepsAccounts, NextKeepsTheRest
     DEF IInv, TypeOK, CallsOK, BatchesOK, CallType, BatchType
<1> QED
  BY <1>1, <1>2 DEF IInv, CallsOK

(* So it always holds. *)
LEMMA RefreshInvariant == Spec => []IInv
BY InitIInv, NextIInv, PTL DEF Spec

(* Every variable keeps its type. *)
THEOREM RefreshTypes == Spec => []TypeOK
<1>1. IInv => TypeOK
  BY DEF IInv
<1> QED
  BY <1>1, RefreshInvariant, PTL

(* Manager.pending names exactly the calls at work, however many requests ask
   for however many accounts. *)
THEOREM CallsAreMerged == Spec => []OneCallPerAccount
<1>1. IInv => OneCallPerAccount
  BY DEF IInv
<1> QED
  BY <1>1, RefreshInvariant, PTL

(* Usable and Exhausted never agree about an account that is switched on, for
   any floors, costs and balances. *)
THEOREM UsableOrElseExhausted == Spec => []UsableIffNotExhausted
<1>1. IInv => UsableIffNotExhausted
  <2> SUFFICES ASSUME IInv, NEW a \in Accounts, acct[a].enabled, ~Suspended(acct[a])
               PROVE  Usable(conf[a], acct[a]) <=> ~Exhausted(conf[a], acct[a])
    BY DEF UsableIffNotExhausted
  <2>1. conf[a] \in Config /\ acct[a] \in AccountState
    BY RefreshAssumption DEF IInv, TypeOK
  <2> QED
    BY <2>1, UsableOrExhausted
<1> QED
  BY <1>1, RefreshInvariant, PTL

(* What the three action properties have in common. *)
LEMMA AccountRules ==
  ASSUME IInv, [Next]_vars, NEW a \in Accounts
  PROVE  /\ conf[a] \in Config /\ acct[a] \in AccountState
         /\ \/ MoneyStep(conf[a], acct[a], acct'[a])
            \/ AdminEnable(a) /\ acct'[a] = Resume(acct[a])
BY NextMoves, RefreshAssumption DEF IInv, TypeOK, AccountsMove

(* An account is suspended for its balance only at a step that leaves it
   exhausted, whatever happened since somebody last looked (an upstream's report
   of a shortfall suspends nobody, other than README.md:458 says). *)
THEOREM AutoSuspendsAreJustified == Spec => AutoSuspendJustified
<1>1. ASSUME IInv, [Next]_vars, NEW a \in Accounts,
             acct[a].suspend # "floor", acct'[a].suspend = "floor"
      PROVE  conf[a].auto /\ Exhausted(conf[a], acct'[a])
  BY <1>1, AccountRules, SuspendedWhenExhausted, ResumeType
<1>2. IInv /\ [Next]_vars =>
        [\A a \in Accounts :
           acct[a].suspend # "floor" /\ acct'[a].suspend = "floor" =>
             conf[a].auto /\ Exhausted(conf[a], acct'[a])]_vars
  BY <1>1
<1> QED
  BY <1>2, RefreshInvariant, PTL DEF Spec, AutoSuspendJustified

(* An account resumes because the administrator says so or into a state in
   which it may carry traffic. *)
THEOREM ResumesAreJustified == Spec => ResumeJustified
<1>1. ASSUME IInv, [Next]_vars, NEW a \in Accounts, Suspended(acct[a]), ~Suspended(acct'[a])
      PROVE  AdminEnable(a) \/ Usable(conf[a], acct'[a])
  BY <1>1, AccountRules, ResumedWhenUsable
<1>2. IInv /\ [Next]_vars =>
        [\A a \in Accounts :
           Suspended(acct[a]) /\ ~Suspended(acct'[a]) =>
             AdminEnable(a) \/ Usable(conf[a], acct'[a])]_vars
  BY <1>1
<1> QED
  BY <1>2, RefreshInvariant, PTL DEF Spec, ResumeJustified

(* A failed query takes no account out of service. *)
THEOREM FailedQueriesKeepTraffic == Spec => FailedQueryKeepsTraffic
<1>1. ASSUME IInv, [Next]_vars, NEW a \in Accounts,
             Usable(conf[a], acct[a]), acct'[a].check = "error"
      PROVE  Usable(conf[a], acct'[a]) \/ ~acct'[a].enabled
  <2>1. conf[a] \in Config /\ acct[a] \in AccountState
    BY <1>1, AccountRules
  <2>2. ASSUME acct'[a] = Resume(acct[a])
        PROVE  Usable(conf[a], acct'[a])
    BY <1>1, <2>1, <2>2, UsableWhenResumed
  <2> QED
    BY <1>1, <2>1, <2>2, AccountRules, UsableAfterFailure
<1>2. IInv /\ [Next]_vars =>
        [\A a \in Accounts :
           Usable(conf[a], acct[a]) /\ acct'[a].check = "error" =>
             Usable(conf[a], acct'[a]) \/ ~acct'[a].enabled]_vars
  BY <1>1
<1> QED
  BY <1>2, RefreshInvariant, PTL DEF Spec, FailedQueryKeepsTraffic

(* Who waits for a merged refresh waits for one at work for its own account,
   at most four steps from waking it, which nobody takes for another account
   meanwhile: what is left of being woken is that goroutines run. *)
THEOREM WaitersAreServed == Spec => CallsServeWaiters
<1>1. IInv /\ [Next]_vars =>
        [\A r \in Requests, c \in Calls :
           waits'[r] = c =>
             IF waits[r] = c
             THEN \/ call'[c] = call[c]
                  \/ call'[c].id = call[c].id /\ StagesLeft(call'[c]) < StagesLeft(call[c])
             ELSE call'[c].phase \in {"running", "fetched", "applied"} /\ Ask(r, call'[c].id)]_vars
  BY NextServesWaiters DEF IInv
<1> QED
  BY <1>1, RefreshInvariant, PTL DEF Spec, CallsServeWaiters
=============================================================================
