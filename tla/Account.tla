------------------------------- MODULE Account -------------------------------
(***************************************************************************)
(* The money rules of one upstream account (internal/store/account.go and  *)
(* the write-back of internal/accounts/manager.go), as operators on        *)
(*                                                                         *)
(*   c, the configuration, which no route changes after creation:          *)
(*      query       HasBalanceQuery()                                      *)
(*      manual      the ManualBalance flag                                 *)
(*      callCost    EstimatedCallCost(); 0 when the account is not billed  *)
(*      billed      BillingMode is set to something other than none        *)
(*      minBalance  MinBalance                                             *)
(*      auto        AutoSuspend                                            *)
(*                                                                         *)
(*   x, the mutable part:                                                  *)
(*      enabled     Enabled                                                *)
(*      suspend     "no", or the kind of SuspendReason: "floor" when the   *)
(*                  balance did it, "admin" when the administrator did     *)
(*      balance     Balance                                                *)
(*      check       "never" (CheckedAt = nil), "ok", "error" (CheckError)  *)
(*                                                                         *)
(* Amounts are naturals in some unit; round6 and formatting are left out.  *)
(***************************************************************************)
EXTENDS Naturals

CONSTANT SafetyLine  \* MinBalanceFloorUSD in that unit

ASSUME SafetyLineAssumption == SafetyLine \in Nat

Config == [query : BOOLEAN, manual : BOOLEAN, billed : BOOLEAN, auto : BOOLEAN,
           callCost : Nat, minBalance : Nat]

AccountState == [enabled : BOOLEAN, suspend : {"no", "floor", "admin"},
                 balance : Nat, check : {"never", "ok", "error"}]

\* BuildAccount: a manual account starts with its initial balance.
NewAccount(c, initial, on) ==
  [enabled |-> on, suspend |-> "no",
   balance |-> IF c.manual THEN initial ELSE 0, check |-> "never"]

HasManualBalance(c) == c.manual /\ c.billed

\* The balance is kept by this site alone.
LocalOnly(c) == HasManualBalance(c) /\ ~c.query

\* Account.Unlimited: there is no balance to watch.
NoLimit(c) == ~c.query /\ ~HasManualBalance(c)

EstimatedCallCost(c) == IF c.billed THEN c.callCost ELSE 0

Larger(m, n) == IF m > n THEN m ELSE n

BalanceFloor(c) ==
  Larger(c.minBalance, IF LocalOnly(c) THEN EstimatedCallCost(c) ELSE SafetyLine)

\* Has the balance been read, as far as Usable and Exhausted care?
BalanceKnown(c, x) == LocalOnly(c) \/ x.check = "ok"

Suspended(x) == x.suspend # "no"

\* Faulty variant: a failed query is held against the account.
UsableOnceRead(c, x) ==
  /\ x.enabled /\ ~Suspended(x)
  /\ NoLimit(c) \/ (x.check = "never" /\ ~LocalOnly(c)) \/ x.balance > BalanceFloor(c)

\* Account.Usable: an account whose balance could not be read stays in use.
Usable(c, x) ==
  /\ x.enabled /\ ~Suspended(x)
  /\ \/ NoLimit(c)
     \/ LocalOnly(c) /\ x.balance > BalanceFloor(c)
     \/ ~LocalOnly(c) /\ x.check \in {"never", "error"}
     \/ ~LocalOnly(c) /\ x.balance > BalanceFloor(c)

\* Faulty variant: off by one at the floor.
BelowFloor(c, x) == ~NoLimit(c) /\ BalanceKnown(c, x) /\ x.balance < BalanceFloor(c)

\* Account.Exhausted
Exhausted(c, x) ==
  /\ ~NoLimit(c)
  /\ BalanceKnown(c, x)
  /\ x.balance <= BalanceFloor(c)

\* Account.Suspend keeps the first reason.
Suspend(x, why) == IF Suspended(x) THEN x ELSE [x EXCEPT !.suspend = why]

\* Account.Resume clears both ways of being off.
Resume(x) == [x EXCEPT !.suspend = "no", !.enabled = TRUE]

\* Suspend an account that has run out, when it is configured to be.
SuspendIfExhausted(c, x) ==
  IF c.auto /\ Exhausted(c, x) THEN Suspend(x, "floor") ELSE x

\* Account.Charge, cost being what CostFor makes of the call: a manual balance
\* is drawn down, not below zero, and counts as freshly read.
Charge(c, x, cost) ==
  IF c.billed /\ cost > 0 /\ HasManualBalance(c)
  THEN [x EXCEPT !.balance = IF cost > @ THEN 0 ELSE @ - cost, !.check = "ok"]
  ELSE x

\* Faulty variant: any successful read resumes.
ResumableOnceRead(c, x) == Suspended(x) /\ x.check = "ok"

\* resumableAfterRefresh
Resumable(c, x) ==
  /\ Suspended(x)
  /\ ~Exhausted(c, x)
  /\ x.check = "ok"
  /\ x.balance > BalanceFloor(c)

\* The write-back of Manager.apply for a query that failed ...
ApplyFailure(x) == [x EXCEPT !.check = "error"]

\* ... and for one that returned a balance.
ApplyBalance(c, x, read) ==
  LET y == SuspendIfExhausted(c, [x EXCEPT !.balance = read, !.check = "ok"])
  IN  IF Resumable(c, y) THEN Resume(y) ELSE y
=============================================================================
