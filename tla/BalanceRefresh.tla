--------------------------- MODULE BalanceRefresh ---------------------------
(***************************************************************************)
(* Refreshing account balances (internal/accounts/manager.go) next to      *)
(* everything that changes an account's money meanwhile: billing           *)
(* (gateway.recordKeyUsage), the sweep of the balance loop                 *)
(* (server.balanceLoop), and the administrator (admin/accounts.go).        *)
(*                                                                         *)
(* Refreshes on the request path are merged: the first request for an      *)
(* account registers a call in Manager.pending, starts a goroutine for it  *)
(* and waits; later ones wait for the same call.  Batches (RefreshAll,     *)
(* RefreshIDs, RefreshDue) and the refresh after an administrator's enable *)
(* go to the upstream site directly: they fetch every account of the batch *)
(* first and write the answers back one by one afterwards.                 *)
(***************************************************************************)
EXTENDS Account, FiniteSets

CONSTANTS
  Accounts,   \* account ids
  Configs,    \* configurations an account may have been created with
  Requests,   \* client requests, the callers of the request path
  Calls,      \* refreshCall objects alive at one time
  Batches,    \* direct refreshes under way at one time
  Money,      \* balances
  Costs,      \* what one call may cost
  TopUps,     \* may upstream balances rise?
  None,       \* nil
  Failed,     \* the snapshot of a query that failed
  Local       \* no query is configured: the local numbers are the answer

ASSUME RefreshAssumption ==
  /\ Configs \subseteq Config
  /\ Money \subseteq Nat /\ Costs \subseteq Nat
  /\ TopUps \in BOOLEAN
  /\ None \notin Accounts \cup Calls \cup Money
  /\ {Failed, Local} \cap (Money \cup {None}) = {} /\ Failed # Local

VARIABLES
  conf,       \* configuration of each account
  live,       \* accounts that exist
  acct,       \* their state
  remote,     \* what the upstream site would answer, per account
  pending,    \* Manager.pending: the call registered for an account
  call,       \* the calls
  waits,      \* the call a request waits for, None when it does not
  overdrawn,  \* account a request found exhausted after billing it, or None
  batch       \* the direct refreshes

vars == <<conf, live, acct, remote, pending, call, waits, overdrawn, batch>>
accountVars == <<conf, live, acct, remote>>
callVars == <<pending, call, waits>>

Snapshots == Money \cup {Failed, Local}

\* A call's goroutine: asked to run, holding an answer, having written it
\* back, taken out of pending, and closed, which wakes the waiters.
Phases == {"running", "fetched", "applied", "unlisted", "closed"}
NoCall == [phase |-> "closed", id |-> None, snap |-> None, usable |-> FALSE]

TypeOK ==
  /\ conf \in [Accounts -> Configs]
  /\ live \subseteq Accounts
  /\ acct \in [Accounts -> AccountState]
  /\ remote \in [Accounts -> Money]
  /\ pending \in [Accounts -> Calls \cup {None}]
  /\ call \in [Calls -> [phase : Phases, id : Accounts \cup {None},
                         snap : Snapshots \cup {None}, usable : BOOLEAN]]
  /\ waits \in [Requests -> Calls \cup {None}]
  /\ overdrawn \in [Requests -> Accounts \cup {None}]
  /\ batch \in [Batches -> [applying : BOOLEAN, todo : SUBSET Accounts,
                            got : [Accounts -> Snapshots \cup {None}]]]

Idle(r) == waits[r] = None /\ overdrawn[r] = None

----------------------------------------------------------------------------
(* The request path: RefreshForRequest and runRefresh *)

\* Call objects nobody refers to any more.
FreeCalls == {c \in Calls : call[c].phase = "closed" /\ \A r \in Requests : waits[r] # c}

\* Faulty variant: a request starts a call of its own when it can.
AskUnmerged(r, a) ==
  /\ Idle(r)
  /\ \E c \in FreeCalls :
       /\ call' = [call EXCEPT ![c] = [NoCall EXCEPT !.phase = "running", !.id = a]]
       /\ pending' = [pending EXCEPT ![a] = c]
       /\ waits' = [waits EXCEPT ![r] = c]
  /\ UNCHANGED <<accountVars, overdrawn, batch>>

\* RefreshForRequest up to the select: under pendingMu, join the registered
\* call or register a new one.  NeedsRequestRefresh is no guard of it: a request
\* met by an upstream shortfall and the creation of an account ask without it.
Ask(r, a) ==
  /\ Idle(r)
  /\ \/ /\ pending[a] # None
        /\ waits' = [waits EXCEPT ![r] = pending[a]]
        /\ UNCHANGED <<pending, call>>
     \/ /\ pending[a] = None
        /\ \E c \in FreeCalls :
             /\ call' = [call EXCEPT ![c] = [NoCall EXCEPT !.phase = "running", !.id = a]]
             /\ pending' = [pending EXCEPT ![a] = c]
             /\ waits' = [waits EXCEPT ![r] = c]
  /\ UNCHANGED <<accountVars, overdrawn, batch>>

\* The select: the call is done, the timer fires (the account counts as
\* usable), or the client goes away (it counts as unusable).
Wake(r) ==
  /\ waits[r] # None
  /\ call[waits[r]].phase = "closed"
  /\ waits' = [waits EXCEPT ![r] = None]
  /\ UNCHANGED <<accountVars, pending, call, overdrawn, batch>>

GiveUp(r) ==
  /\ waits[r] # None
  /\ waits' = [waits EXCEPT ![r] = None]
  /\ UNCHANGED <<accountVars, pending, call, overdrawn, batch>>

\* What querying account a brings now.  A query may always fail.
Answers(a) == IF conf[a].query THEN {remote[a], Failed} ELSE {Local}

\* credentials and Wallet.Fetch.  An account that is already gone ends the
\* call as missing.
Fetch(c) ==
  LET a == call[c].id
  IN  /\ call[c].phase = "running"
      /\ \/ /\ a \in live
            /\ \E s \in Answers(a) :
                 call' = [call EXCEPT ![c].phase = "fetched", ![c].snap = s]
         \/ /\ a \notin live
            /\ call' = [call EXCEPT ![c].phase = "applied"]
      /\ UNCHANGED <<accountVars, pending, waits, overdrawn, batch>>

\* The account after the write-back of snapshot s (apply, or localResult).
Applied(a, s) ==
  CASE s = Failed -> ApplyFailure(acct[a])
    [] s = Local  -> IF LocalOnly(conf[a]) THEN SuspendIfExhausted(conf[a], acct[a])
                                           ELSE acct[a]
    [] OTHER      -> ApplyBalance(conf[a], acct[a], s)

\* An account deleted since the query is left alone; apply has no result for
\* that case and reports neither an error nor an exhausted account.
WriteBack(a, s) ==
  acct' = IF a \in live THEN [acct EXCEPT ![a] = Applied(a, s)] ELSE acct

\* runRefresh's reading of the result.
Verdict(a, s) ==
  \/ a \notin live
  \/ s = Failed
  \/ s = Local /\ NoLimit(conf[a])
  \/ ~Suspended(Applied(a, s)) /\ ~Exhausted(conf[a], Applied(a, s))

Apply(c) ==
  LET a == call[c].id
  IN  /\ call[c].phase = "fetched"
      /\ WriteBack(a, call[c].snap)
      /\ call' = [call EXCEPT ![c] = [NoCall EXCEPT !.phase = "applied", !.id = a,
                                                    !.usable = Verdict(a, call[c].snap)]]
      /\ UNCHANGED <<conf, live, remote, pending, waits, overdrawn, batch>>

\* Faulty variants: a step of the clean-up is forgotten.
UnlistNothing(c) ==
  /\ call[c].phase = "applied"
  /\ call' = [call EXCEPT ![c].phase = "unlisted"]
  /\ UNCHANGED <<accountVars, pending, waits, overdrawn, batch>>
CloseIfUsable(c) ==
  /\ call[c].phase = "unlisted" /\ call[c].usable
  /\ call' = [call EXCEPT ![c].phase = "closed"]
  /\ UNCHANGED <<accountVars, pending, waits, overdrawn, batch>>

\* delete(m.pending, accountID), then close(call.done).
Unlist(c) ==
  /\ call[c].phase = "applied"
  /\ pending' = [pending EXCEPT ![call[c].id] = None]
  /\ call' = [call EXCEPT ![c].phase = "unlisted"]
  /\ UNCHANGED <<accountVars, waits, overdrawn, batch>>

Close(c) ==
  /\ call[c].phase = "unlisted"
  /\ call' = [call EXCEPT ![c].phase = "closed"]
  /\ UNCHANGED <<accountVars, pending, waits, overdrawn, batch>>

----------------------------------------------------------------------------
(* Direct refreshes: refreshMany, and Refresh called by a handler *)

NothingGot == [a \in Accounts |-> None]
NoBatch == [applying |-> FALSE, todo |-> {}, got |-> NothingGot]

\* collectIDs
StartBatch(b, ids) ==
  /\ batch[b] = NoBatch
  /\ ids # {} /\ ids \subseteq live
  /\ batch' = [batch EXCEPT ![b] = [NoBatch EXCEPT !.todo = ids]]
  /\ UNCHANGED <<accountVars, callVars, overdrawn>>

\* One goroutine of the batch; wg.Wait ends when none is left to do.  There is
\* nothing to write back for a deleted account, nor once the caller's context
\* has ended.
BatchFetch(b, a) ==
  /\ ~batch[b].applying /\ a \in batch[b].todo
  /\ LET todo == batch[b].todo \ {a}
     IN  \E s \in {None} \cup IF a \in live THEN Answers(a) ELSE {} :
           batch' = [batch EXCEPT ![b] = [applying |-> todo = {},
                                          todo |-> todo,
                                          got |-> [batch[b].got EXCEPT ![a] = s]]]
  /\ UNCHANGED <<accountVars, callVars, overdrawn>>

\* The serial write-back, one Update per account.
BatchApply(b, a) ==
  /\ batch[b].applying /\ batch[b].got[a] # None
  /\ WriteBack(a, batch[b].got[a])
  /\ LET got == [batch[b].got EXCEPT ![a] = None]
     IN  batch' = [batch EXCEPT ![b] = [NoBatch EXCEPT !.applying = got # NothingGot,
                                                       !.got = got]]
  /\ UNCHANGED <<conf, live, remote, callVars, overdrawn>>

\* Nothing to write back at all.
BatchEmpty(b) ==
  /\ batch[b].applying /\ batch[b].got = NothingGot
  /\ batch' = [batch EXCEPT ![b] = NoBatch]
  /\ UNCHANGED <<accountVars, callVars, overdrawn>>

----------------------------------------------------------------------------
(* Billing, sweeping, and the administrator *)

\* recordKeyUsage: the charge runs under Mutate ...
RecordUsage(r, a, cost) ==
  LET x == Charge(conf[a], acct[a], cost)
  IN  /\ Idle(r) /\ a \in live
      /\ acct' = [acct EXCEPT ![a] = x]
      /\ overdrawn' = IF conf[a].auto /\ Exhausted(conf[a], x) /\ ~Suspended(x)
                      THEN [overdrawn EXCEPT ![r] = a] ELSE overdrawn
      /\ UNCHANGED <<conf, live, remote, callVars, batch>>

\* Faulty variant: the decision taken under the first lock is carried out
\* under the second without looking again.
SuspendUnseen(r) ==
  LET a == overdrawn[r]
  IN  /\ a # None
      /\ acct' = IF a \in live THEN [acct EXCEPT ![a] = Suspend(@, "floor")] ELSE acct
      /\ overdrawn' = [overdrawn EXCEPT ![r] = None]
      /\ UNCHANGED <<conf, live, remote, callVars, batch>>

\* ... and the suspension in a later Update, which looks at the account again.
SuspendOverdrawn(r) ==
  LET a == overdrawn[r]
  IN  /\ a # None
      /\ acct' = IF a \in live THEN [acct EXCEPT ![a] = SuspendIfExhausted(conf[a], @)]
                               ELSE acct
      /\ overdrawn' = [overdrawn EXCEPT ![r] = None]
      /\ UNCHANGED <<conf, live, remote, callVars, batch>>

\* Faulty variant: only balances kept by hand are swept.
SweepByHand ==
  /\ acct' = [a \in Accounts |-> IF a \in live /\ LocalOnly(conf[a])
                                 THEN SuspendIfExhausted(conf[a], acct[a]) ELSE acct[a]]
  /\ UNCHANGED <<conf, live, remote, callVars, overdrawn, batch>>

\* SweepExhausted
Sweep ==
  /\ acct' = [a \in Accounts |-> IF a \in live THEN SuspendIfExhausted(conf[a], acct[a])
                                               ELSE acct[a]]
  /\ UNCHANGED <<conf, live, remote, callVars, overdrawn, batch>>

\* handleAccountEnable.  Enabling is followed by a direct refresh, a batch of
\* one account.
AdminEnable(a) ==
  /\ a \in live
  /\ acct' = [acct EXCEPT ![a] = Resume(@)]
  /\ UNCHANGED <<conf, live, remote, callVars, overdrawn, batch>>

AdminDisable(a) ==
  /\ a \in live
  /\ acct' = [acct EXCEPT ![a] = Suspend([@ EXCEPT !.enabled = FALSE], "admin")]
  /\ UNCHANGED <<conf, live, remote, callVars, overdrawn, batch>>

\* RemoveAccounts
RemoveAccount(a) ==
  /\ a \in live
  /\ live' = live \ {a}
  /\ UNCHANGED <<conf, acct, remote, callVars, overdrawn, batch>>

\* The upstream account is spent by calls, and topped up by its owner.
RemoteChanges(a, v) ==
  /\ v < remote[a] \/ (TopUps /\ v # remote[a])
  /\ remote' = [remote EXCEPT ![a] = v]
  /\ UNCHANGED <<conf, live, acct, callVars, overdrawn, batch>>

----------------------------------------------------------------------------

Init ==
  /\ conf \in [Accounts -> Configs]
  /\ live = Accounts
  /\ remote \in [Accounts -> Money]
  /\ \E on \in [Accounts -> BOOLEAN], initial \in [Accounts -> Money] :
       acct = [a \in Accounts |-> NewAccount(conf[a], initial[a], on[a])]
  /\ pending = [a \in Accounts |-> None]
  /\ call = [c \in Calls |-> NoCall]
  /\ waits = [r \in Requests |-> None]
  /\ overdrawn = [r \in Requests |-> None]
  /\ batch = [b \in Batches |-> NoBatch]

CallStep(c) == Fetch(c) \/ Apply(c) \/ Unlist(c) \/ Close(c)

BatchStep(b) == (\E a \in Accounts : BatchFetch(b, a) \/ BatchApply(b, a)) \/ BatchEmpty(b)

Next ==
  \/ \E r \in Requests, a \in Accounts : Ask(r, a)
  \/ \E r \in Requests : Wake(r) \/ GiveUp(r) \/ SuspendOverdrawn(r)
  \/ \E c \in Calls : CallStep(c)
  \/ \E b \in Batches, ids \in SUBSET Accounts : StartBatch(b, ids)
  \/ \E b \in Batches : BatchStep(b)
  \/ \E r \in Requests, a \in Accounts, cost \in Costs : RecordUsage(r, a, cost)
  \/ Sweep
  \/ \E a \in Accounts : AdminEnable(a) \/ AdminDisable(a) \/ RemoveAccount(a)
  \/ \E a \in Accounts, v \in Money : RemoteChanges(a, v)

\* A goroutine runs until it is done: every query has a timeout
\* (Account.QueryTimeout, backgroundRefreshBudget).  A waiter whose call is
\* done leaves the select.  The balance loop ticks for as long as the server
\* runs.  Nothing is assumed of timers, clients and administrators.
Fairness ==
  /\ \A c \in Calls : WF_vars(CallStep(c))
  /\ \A b \in Batches : WF_vars(BatchStep(b))
  /\ \A r \in Requests : WF_vars(Wake(r)) /\ WF_vars(SuspendOverdrawn(r))
  /\ WF_vars(Sweep)

Spec == Init /\ [][Next]_vars /\ Fairness

----------------------------------------------------------------------------
(* Properties *)

(* Usable and Exhausted are written independently of each other and read by
   different components (allocator; sweep and billing).  For an account that is
   switched on they are opposites, in every state any interleaving reaches. *)
UsableIffNotExhausted ==
  \A a \in Accounts :
    acct[a].enabled /\ ~Suspended(acct[a]) =>
      (Usable(conf[a], acct[a]) <=> ~Exhausted(conf[a], acct[a]))

(* Manager.pending names exactly the calls that are still at work: at most one
   query per account is under way on the request path, and a request never
   joins a call that is over (RefreshForRequest, runRefresh). *)
OneCallPerAccount ==
  \A a \in Accounts, c \in Calls :
    pending[a] = c <=>
      call[c].id = a /\ call[c].phase \in {"running", "fetched", "applied"}

(* An account is suspended for its balance only when it is exhausted at that
   very step and is configured for it, although billing decides in one critical
   section and suspends in another.
   Nothing but the balance does it: a shortfall that an upstream reports suspends
   nobody.  It makes handleInference refresh the account and go to another one
   for this request (switchExhaustedAccount, chat.go:260), although README.md:28,
   451-459 and 465-466 say that the account is suspended at once. *)
AutoSuspendJustified ==
  [][\A a \in Accounts :
       acct[a].suspend # "floor" /\ acct'[a].suspend = "floor" =>
         conf[a].auto /\ Exhausted(conf[a], acct'[a])]_vars

(* Other than by the administrator, an account leaves suspension only into a
   state in which it may carry traffic. *)
ResumeJustified ==
  [][\A a \in Accounts :
       Suspended(acct[a]) /\ ~Suspended(acct'[a]) =>
         AdminEnable(a) \/ Usable(conf[a], acct'[a])]_vars

(* A query that fails takes no account out of service (account.go:875,
   manager.go:281): only a switch-off does. *)
FailedQueryKeepsTraffic ==
  [][\A a \in Accounts :
       Usable(conf[a], acct[a]) /\ acct'[a].check = "error" =>
         Usable(conf[a], acct'[a]) \/ ~acct'[a].enabled]_vars

(* Every waiter of a merged refresh is woken by the refresh itself, even if its
   own timer never fires and its client never leaves. *)
WaitersAreWoken ==
  \A r \in Requests : waits[r] # None ~> waits[r] = None

(* A registered call is taken out of pending again: no account is stuck behind
   a call that never ends. *)
PendingIsCleared ==
  \A a \in Accounts, c \in Calls : pending[a] = c ~> pending[a] # c

(* An account that has run out does not stay in service. *)
ExhaustedIsSuspended ==
  \A a \in Accounts :
    (a \in live /\ conf[a].auto /\ Exhausted(conf[a], acct[a])) ~>
      (a \notin live \/ ~Exhausted(conf[a], acct[a]) \/ Suspended(acct[a]))

(* manager.go:84 resumes an account by the latest number.  Where upstream
   balances never rise, a resumption after a suspension for the balance can
   only come from an older number written back late. *)
ResumesOnLatestNumber ==
  [][\A a \in Accounts :
       acct[a].suspend = "floor" /\ ~Suspended(acct'[a]) => AdminEnable(a)]_vars
=============================================================================
