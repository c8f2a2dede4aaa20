# A TLA+ model of laskah

laskah is a self-hosted gateway that spreads OpenAI-compatible requests over
many upstream accounts. This directory models it: which account serves which
request, what happens to an account's money meanwhile, how calls are limited
and ordered, what becomes of a request and of a streamed answer when upstream
sites fail, what survives a crash, who may administer the service, and what the
scripts that query balances mean. All paths below are relative to
`src/internal/` unless they name another directory.

## The system and its parts

| Part | Code | State | Operations | Modelled in |
| --- | --- | --- | --- | --- |
| Account allocation | `store/allocate.go`, `store/account.go`, `admin/keys.go`, `admin/groups.go`, `admin/accounts.go` | groups, accounts, their providers, keys, sticky bindings, the index `accountKeyLoad` | assign on a request; create, patch and delete keys, accounts and groups | `Allocation`, `AllocationProofs` |
| Account money rules | `store/account.go`, `accounts/manager.go` | enabled, suspended, balance, last check | usable, exhausted, charge, suspend, resume | `Account` |
| Balance refresh | `accounts/manager.go`, `server/server.go` (`balanceLoop`) | `Manager.pending`, calls under way, batches | merged refresh on a request, batch refresh, sweep | `BalanceRefresh`, `BalanceRefreshProofs` |
| Rate limiter | `balancer/limiter.go` | one bucket of hits per key and per account | `Allow`, `Peek`, `Prune` | `RateLimiter`, `RateLimiterProofs` |
| Inference gateway | `gateway/chat.go` | requests under way, in-flight counters, key usage | the pipeline of one request | `Gateway`, `GatewayProofs` |
| Streamed answers | `gateway/chat.go` (`pipeStream`), `gateway/stream.go`, `gateway/anthropic.go`, `gateway/inference.go` | the lines read, the rewriter, the token counter | convert, rewrite, count, cap, retry, cut short | `Stream`, `StreamProofs` |
| Load balancer | `balancer/balancer.go`, `gateway/chat.go` | cursor, in-flight counters, failures, cooldowns | filter, order, report | `Balancer`, `BalancerProofs` |
| Persistence | `store/store.go`, `src/cmd/laskah/main.go` | the data file, `dirty` | Load, Update, Mutate, Flush, Close, reset-password | `Persistence`, `DurableStore`, `PersistenceProofs` |
| Administrators | `admin/admin.go`, `admin/users.go`, `security/session.go`, `security/throttle.go`, `store/admin.go` | users, sessions, failures per source | setup, login, logout, passwords, create, disable, remove | `AdminSessions`, `AdminSessionsProofs` |
| Query scripts | `script/parser.go`, `script/eval.go`, `script/array.go`, `script/script.go` | tokens; scopes, heap, steps | parse, evaluate, extract | `ScriptParser`, `ScriptEval`, `Script` |
| Everything else | bodies that are not streamed, wallet queries, lexer and host functions of scripts, tokenizer, cryptography, web pages, deployment | | | not modelled (reasons below and in `PROJECT.json`) |

How they interact:

- All data sits behind one mutex, `Store.mu`. `Store.Update` ends with
  `reindex` and a write to disk; `Store.Mutate` does neither. A handler is a
  sequence of such critical sections with HTTP calls in between, and **each
  critical section is one action** of the model.
- A request (goroutine of `handleInference`) checks its key, passes the key's
  limiter, gets an account from the allocator, perhaps waits for a refresh of
  that account, tries the account's upstream APIs in order, moves to another
  account when the first is short of money, and is booked on its key.
- The refresh manager merges the refreshes of concurrent requests into one
  goroutine per account; the balance loop and administrators start batches.
  All write to the same accounts as billing and the administrator's switch.

- Reports of finished calls change what the balancer sees while another call is
  between its filter and its sort. The balancer itself takes no store lock.
- A handler of the administration takes the locks of store, session store and
  throttle one after the other, and a change counts only when it was saved.

What is hard about it: interleavings of these sections; answers that are
written back late; decisions taken under one lock and carried out under the
next; an index kept partly by hand; retries that start over, within a stream
even without the caller noticing; writes that fail after memory has changed;
crashes between a booking and its flush; clock readings that reach the limiter
out of order. `PROJECT.json` lists the hazards with their lines.

## Modules

### `Allocation`

State of `store.Data` as the allocator sees it: which groups, accounts and keys
exist, `binding` (APIKey.AccountID), `load` (accountKeyLoad), and of an
account's money and upstreams only `usable`, `balance` and `up` (the number of
upstream APIs not cooling down). `AssignAccount` is `AssignAccountGated` under
`Mutate`: keep the sticky binding, borrow another account for this request, or
detach and rebind, with the index adjusted by hand. The administration actions
are the handlers under `Update`, so each of them recomputes the index.
Handlers look a group or an account up under one lock and use it under the
next; `KnownGroups` and `KnownAccounts` therefore include deleted ones.
Ties: accounts are numbered by creation time, which is what the comparator
falls back on. The gate of rate limits is a set `barred` chosen per request.

### `Account`

The money rules as operators on a configuration record and a state record.
`BalanceRefresh` builds on them. Amounts are naturals in some unit.

### `BalanceRefresh`

`pending` and `call` are `Manager.pending` and its `refreshCall` objects; a
call's goroutine goes through asking upstream (`Fetch`), writing back
(`Apply`), leaving `pending` (`Unlist`) and closing its channel (`Close`) in
separate actions; a waiting request may be woken or give up at any time.
A batch queries all its accounts and writes the answers back afterwards.
`RecordUsage` and `SuspendOverdrawn` are the two critical sections of
`recordKeyUsage`. The upstream balance is `remote`; a query may always fail.

### `RateLimiter`

Buckets as sets of hits, each hit with the time it carries. A caller reads
the clock in one step (`Begin`) and gets the mutex in a later one, at most
`Skew` ticks later: between the two the request path does no I/O. `Prune`
readings come from a ticker and may be later still.

### `Gateway`

One record per request: its stage, key, model, the session's account, how many
refreshes and switches it has used, the candidates left, attempts left, and
the outcome of the last attempt. `Outcomes` names the ways an attempt may end
that `handleInference` tells apart. `NoAccount` is what a failed
authentication means: an answer for a new request, and for a switch either a
retry with the old candidates or giving up. The module instantiates
`Allocation` (`Alloc`) with the state it shares and uses its `AssignAccount`;
it takes refresh verdicts, upstream answers, cooldowns and the balancer's order
as choices. `Barred` is the gate of `AssignAccountGated`, which only probes
(`Peek`); `RecordHit` is the later `Allow`, whose verdict the code ignores.
`over` is a history variable: the calls let on since an account's bucket has
been full. `HandleEmbeddings` is the same path with one attempt and no switch.

### `Balancer`

What a call does with an account's upstream APIs: `Filter` (Candidates) and
`Sort` (Order and `preferDeclaredModel`) are separate steps, since nothing is
locked between them; `Send` and `Return` are `adjustInflight`, and the reports
move failures and cooldowns. Random strategies give every order that can be
drawn, weights of zero included. A pool is a set of numbers in the order of
the file; a list is right for a sort when it is an arrangement of the pool in
which whoever comes first may, so the model says what `sort.SliceStable` gives
and not how. Time is counted in units of the first cooldown. `tries` and `turn`
(who came first when round robin last went over all upstream APIs, gone on by one
with every sort since) are history variables for the properties. A server has one
`Balancer` and so one cursor for all accounts: `SortElsewhere` is a sort by round
robin of another account's upstream APIs, which may come at any time.

### `Persistence` and `DurableStore`

The file, the memory, the flag and the process. Data is the log of operations
applied to it, beside the settings that the migrations of `normalizeLocked`
touch (one group, one account). A write replaces the file by a rename, so it
happens entirely or not at all, and may fail; `Exit` is a crash or the end of
`main` after `Close`, while handlers may still be at work. `Damage` is a file
spoiled from outside. `DurableStore` says what handlers may rely on without
file, flag or process; `Persistence` implements it with
`shown <- Shown`, `kept <- Kept`, `promised <- acked`.

### `AdminSessions`

A handler is a request that passes the throttle, the password, the session
store and the store in steps of its own. Whether a password is right is the
environment's choice. `mark` on sessions and logins is a history variable: what
was verified before a change of its administrator is outdated from then on.
Identifiers and tokens are random in the code, so a new one here is one that
nothing refers to any more. `sessions` maps tokens to sessions, and `earlier`
holds the pairs of which the first was seen before the second: `Issue` and
`Lookup` read the clock before they take the mutex, so a session may take any
place among those already there. A window ends before its lockout does (10 and
15 minutes, begun no later), so `elapsed` and `locked` may hold together; a
failure counted then begins a new entry without a lock. `replaced` marks it, a
history field of an entry.

### `Stream`

`pipeStream` from the status 200 of the upstream to the booking: lines of a
site of either protocol, converted and rewritten for the endpoint, counted,
capped, and ended in one of six ways; and what `handleInference` does with each
ending. Tokens stand for text; events carry their name, block, index and tokens.
"none" stands for the empty string: no block open, no reason given, not
returned yet.

### `ScriptParser`, `ScriptEval`, `Script`

Parser states and worlds (scopes, heap, steps) as records, one operator per
method of the code. `Script` grows expressions and extractor functions step by
step and holds the references the properties compare with: a printer that puts
parentheses only where JavaScript's precedence asks for them, and a renaming
that gives every declaration a name of its own. (JavaScript refuses `??` beside
`||` or `&&` without parentheses; the parser takes it, with `??` in the level of
`||`, and so does the printer.)

## What is checked

| Run | Instance | Shows |
| --- | --- | --- |
| `allocation` | 2 keys, 2 balances, 2 accounts of one group (one declares the model and has a rate limit), a second group | the load index equals a recount; working bindings stay; batches spread evenly; every request is decided exactly one way; removals leave nothing behind |
| `refresh` | 1 account of each of four kinds of configuration (queried, kept by hand, both, neither), 1 request that may give up and ask again, 2 calls, 1 batch, 2 balances | Usable and Exhausted are opposites; one merged query per account; suspending and resuming justified at the step that does them; failed queries harmless; waiters woken, `pending` cleared, exhausted accounts taken out |
| `limiter` | 2 buckets, 2 callers, 4 hits, limits 0 to 2, window 2, skew 1, time up to 4 | grants and denials justified, no recent hit lost |
| `gateway_two` | 2 requests of 1 key, 2 accounts with one upstream API each, one of them with a rate limit of 1, 1 switch, 2 attempts | in-flight counters exact; overrun of a quota and of an account's limit bounded |
| `gateway_one` | 1 request, 2 accounts with 2 and 1 upstream APIs, a rate limit, 2 switches, 2 attempts | attempts stay in the session and in range; every step is an allocator step; every request is answered |
| `balancer` | 2 calls, 2 or 3 upstream APIs in four layouts (one priority; two priorities and a weight of 0; mixed kinds, across and within a priority), threshold 1, factor 2 | lists complete and in order by the numbers the sort reads; cooling APIs left alone; round robin takes turns, of which sorts of other accounts use up some |
| `persistence` | every file versions 2 to 6 may have written, or none, 2 changes, 2 bookings, 2 accounts | reported changes survive; nothing silently unsaved; nothing to normalize; settings outlive restarts; bookings reach the file; `DurableStore` implemented |
| `admin` | 2 handlers, 2 names, 2 identifiers, 2 tokens, 1 source, 2 failures, 1 session, 1 throttle entry | always administrable; outdated sessions end, others only for a reason; sessions within their cap; wrong passwords bounded, but for replaced entries |
| `stream` | 3 endpoints, 2 protocols, limits none and 1, deltas of 2 and 9 tokens, 5 lines, 1 switch | answers well formed however they end; booked as delivered |
| `script` | expressions of up to 3 operators over 33 forms; extractors of up to 3 statements after two fixed ones | the parser reads what is written; scopes are lexical |

Why the bounds suffice. Two accounts make the comparator, borrowing and
switching matter, two keys a placement that a wrong load would change, and two
balances its last resort but one.
The refresh races need two parties on one account: two calls or a call and a
batch, each with a balance on its side of the floor. Two callers and a window
of two ticks with a skew of one show every order of two readings around the
edge of a window (a stricter form of `GrantJustified`, without the skew, fails
in this instance). In the gateway one request meets every path while the
environment changes under it, and two requests are what the counters, the
quota and the limit of an account need: with a limit of 1 the second request
does pass a probe that the first one fills behind its back. `MaxAccountAttempts` is 3 in the code and a parameter here. With a
threshold and a factor of one every failure begins a cooldown, and the other
call reports in the middle of it; longer ones are left to the theorem. A booking and a change that are lost, kept and
overtaken by each other need two of each, and the proofs cover more. Two
handlers are enough for every race of two; with one session and one throttle
entry both caps are met at once. The choice of the oldest among several sessions
and of victims among several sources is not exercised by a run, but the theorems
about `AdminSessions` cover it. A hard cap of
9 tokens is passed by a single long delta or by five short ones, and five lines
hold two blocks, a finish and an end. Three operators are a left operand, a
right operand and one around both.

Deadlock is not checked in `limiter`, `gateway_*`, `stream` and `script`: hits
and the clock are bounded, a gateway whose accounts and keys are all deleted
stops, an answer ends, and scripts stop growing. The other runs check it.

Fairness. `BalanceRefresh` assumes that a goroutine keeps running (queries
have a timeout, `QueryTimeout` and `backgroundRefreshBudget`), that a waiter
whose call is done leaves its `select`, and that the balance loop ticks.
`Gateway` assumes that a request's goroutine keeps running: a refresh is
waited for with a timer, an upstream call with a timeout. `Persistence` assumes
strong fairness of `FlushSaves`: `maintenanceLoop` tries every 30 seconds, and
a disk that is tried again and again takes a write now and then. Nothing is
assumed of administrators, clients, timers that race an answer, or upstream
balances.

### Where the code does not do what it says

Two runs end in a counterexample; each checks one sentence of the repository.

- `refresh_stale`: a merged refresh and a batch are under way for one account.
  One of them reads a good balance, the upstream balance falls, the other reads
  it, writes it back and suspends the account; then the first writes its older
  answer over it and resumes the account (`accounts/manager.go:247`). It may be
  either that holds the older answer; in the trace TLC prints it is usually the
  merged one. Nothing compares the time of an answer with that of the last write.
- `gateway_billing`: a call served by a borrowed account is charged to the
  account the key is bound to, by that account's rates.

Others were met while modelling; the models follow the code, and no run is
spent on them:

- A shortfall that an upstream reports (a status, an error in a body with status
  200, an error event in a stream) suspends nobody: the account is refreshed and
  left for this request only, on purpose (`gateway/chat.go:260-264`).
  `README.md:28`, 451-459 and 465-466 say that it is suspended at once and
  that the next request goes to a healthy account. It is suspended only when the
  refresh, or billing, finds its balance at the floor, which is what
  `AutoSuspendJustified` says; until then it stays in the pool.
- A lockout can end early: a login that passed `Check` before the lockout, and
  fails after the window of 10 minutes but within the 15 minutes of the lockout,
  replaces the locked entry by a fresh one (`security/throttle.go:70`), although
  `README.md:563` says 15 minutes. `WrongPasswordsBounded` excepts such entries
  (`Replaced`) until they go.
- An account paused by the administrator is switched on again by the next
  refresh that reads a balance above the floor (`accounts/manager.go:247`),
  although `store/account.go:877` leaves that to the administrator.
- An account deleted during its query is reported usable
  (`accounts/manager.go:190`).
- A suspended account loses its keys at their next request although
  `README.md:431` says the binding is kept.
- A hit of an account's rate limit is recorded per authentication, not per
  upstream call, although `gateway/chat.go:280` speaks of one to one.
- Round robin has one cursor for all accounts, and moves it once per priority
  group. With two groups of two the same upstream API comes first every time, and
  so it does for each of two accounts of two whose calls alternate. `TakesTurns`
  is stated for a single priority and counts the turns that sorts of other
  accounts use up; turns are strict only while one account alone is in use.
- A login whose password was verified before its administrator was disabled,
  and whose session is issued after the revocation, keeps that session (`mark`
  is "late"). `super` takes a session that ends between its two lookups for the
  management token.
- `main` returns, and closes the store, before `Shutdown` has waited for the
  handlers under way; their last bookings may miss the file.
- `finishTruncatedMessages` closes block 0 even when block 1 is open: the named
  exception `ClosedTheWrongBlock` of `AnswersAreWhole`.
- On `/v1/messages` tool calls are counted and booked but not sent, although
  `pipeStream`'s comment says only delivered text counts; a caller who leaves
  pays for the line under way. `BookedAsDelivered` says how far that goes.
- In scripts an empty array or object is not `===` itself (`script/eval.go:689`);
  an assignment evaluates its value before its target, so `x += (x = 2)` is 4
  whatever `x` was; `?.` does not skip the rest of its chain; `var` is scoped
  like `let`.

## What is proved

The theorems hold for every value of the constants that satisfies the named
assumptions: `IdsAssumption` and `ConfigAssumption` (`Allocation`),
`LimiterAssumption`, `PersistenceAssumption`, `RefreshAssumption`,
`SafetyLineAssumption` (`Account`), `GatewayAssumption`, `AdminAssumption`,
`BalancerAssumption` and `StreamAssumption`: finite sets of ids, well typed
configuration, limits of at least one, `Skew` no longer than the window, first
files without a log, a cursor whose bound every number of upstream APIs divides
(the code's is a uint64 that never gets to its end). TLC evaluates them in every
run of their module.

- `Typed`, `LoadIndexIsExact`: `TypeOK` (no run checks a type
  invariant by itself: they are proved, alone or in an inductive invariant) and,
  with it, `LoadIndexExact` are inductive. The step lemma has one case per action; the heart of it are
  `DetachIsRecount` and `AttachIsRecount`, which say that what
  `AssignAccountGated` does to the index by hand is what a recount would give,
  so that the guard "only when positive" in `detachKeyAccount` never hides a
  lost count.
- `HealthyBindingsAreKept`, `RemovalsCascade`: action properties; the first
  because a rebind excludes a binding in working order whenever there is a
  reason to borrow, the second by cases over the actions.
- `AssignmentIsDecided`: the comparator of the allocator is a strict total order
  on any pool, creation time being the last resort, and the member of a pool
  with the fewest before it has none; so a pool that is not empty has exactly
  one first account. `BatchesAreSpreadEvenly` looks at the last key
  an account took: it was picked then, so its pressure did not exceed that of
  any other, and later keys only add to the others.
- `RecentHitsStay`, `GrantsAreJustified`, `DenialsAreJustified`: the inductive
  invariant adds `ReadingsFresh`, that a clock reading is never ahead of the
  clock and at most `Skew` behind it. It is needed because a trim by a reading
  of time t drops what is older than t minus the window: harmless only if t is
  not in the future, and countable by a later, older reading only up to `Skew`.
- `PersistenceProofs`: `Inv` adds to the stated properties what an idle process
  looks like and that the file never has more than memory (its log is a prefix
  while the flag is down). From it follow `PromisesAreKept`,
  `NothingIsSilentlyUnsaved`, `NothingIsToNormalize`, and `Refinement`: every
  step of the store is a step of `DurableStore` or none. `SettingsAreMigratedOnce`
  needs `FileIsNormal` besides: a file with a log was written by this version,
  in its normal form. It assumes what `MCPersistence` has too, that a first file
  is of an earlier version.
- `GatewayProofs`: `IInv` is `DataOK`, `RequestsInOrder`, `InflightOK`,
  `QuotaOK`, `OverOK`, `GoneUnbound` and `LoadOK`. `InOrder` says of each request
  that the attempts it has left are no more than its candidates, which is what a
  switch has to restore when it replaces both. `QuotaOK` bounds what is spent
  together with `MaxTokens` for each call under way, so that booking a call only
  moves cost from one side to the other; the stated bound follows when no more
  calls than requests are under way.

  `OverOK` does the same for an account's rate limit: while the bucket is full,
  the calls let on past it and the requests that are still to record a hit
  (`Nearing`) are together fewer than all requests. Nobody joins them meanwhile,
  because what is picked is not barred (`ServedNotBarred`); the request that
  filled the bucket is not among them any more; and one that finds it full moves
  from the second number to the first. Hence `AccountLimitOvershootAlwaysBounded`.

  `GoneUnbound` (a key that does not exist is bound to nothing) makes a count of
  all bindings the count `Allocation` speaks of. With it `GatewayRefinesAllocator`
  shows, action by action, that the gateway does to the allocator's variables
  only what `Alloc!Next` allows. `Allocation` begins with an empty file and the
  gateway with any file in order, so the allocator's invariants do not carry over
  by refinement alone, nor can theorems of an instantiated module be cited in
  this version of the prover. `LoadOK` and `GatewayKeepsAllocatorInOrder` fill
  the gap: the gateway keeps `Alloc!TypeOK` and `Alloc!LoadIndexExact`, which is
  the invariant that the theorems about `Allocation`'s steps start from.

  `Goes` lists what a step makes of its request's record, and `StepsLeft` is a
  number that each of these makes smaller: four stages for every attempt left,
  four for every refresh, and a whole round for every switch left. It is bounded
  by `MostSteps`, which depends on the settings only. `RequestsAlwaysProgress` is
  the safety half of `RequestsEnd`: what TLC has to add is that a request under
  way can always take its next step, and does under the fairness assumed.
- `BalanceRefreshProofs`: `IInv` is `TypeOK`, `OneCallPerAccount` and
  `CallsNamed`: a goroutine at work knows its account, and an answer it got is
  a proper one. Without it the invariant could not follow what a goroutine
  writes back and takes out of `pending`. `MoneyStep` lists what a step may make
  of an account (charge, suspend, write back an answer or a failure, switch
  off); `NextMoves` says that every step does one of these or is the
  administrator's `AdminEnable`, and the action properties follow from it.
  `UsableOrElseExhausted` needs `SafetyLineAssumption` so that floors are
  naturals and can be compared. `WaitersAreServed` is the safety half of
  `WaitersAreWoken`: who waits came to wait for a call at work for the account it
  asked about (by `OneCallPerAccount`), no such object is taken for another
  account meanwhile, and each step it takes leaves fewer of its four stages.
- `AdminSessionsProofs`: `CreateSuperAdmin` asks only whether there is an
  administrator, and `RemoveAdminUser` whether there is another super
  administrator, not whether that one is enabled. `StaysAdministrable` therefore
  rests on `Proper`, that super administrators are always enabled, which holds
  of memory and file alike: a write that fails leaves the older of the two.
  `WrongPasswordsAreBounded` rests on `Counted`: while an entry is open, what
  it has not counted yet is carried by handlers that are about to count it, and
  once it is locked or elapsed, wrong passwords and the logins that may still
  have one stay within the bound together. Of an entry that was replaced while
  it was locked it says nothing. The instance of the run has one
  source; the theorem covers any number, and victims of pruning among them.

  `SessionInv` says that `earlier` is a strict total order of the sessions,
  closed under ends and new places; that there are no more sessions than the cap
  (a session that finds it reached ends the first of the order, and there is one
  because the order is total and finite); and that an outdated session has a
  handler that is about to revoke the sessions of its administrator. From it
  follow `OutdatedSessionsDoEnd`, `SessionsAreCapped` and, step by step,
  `SessionsOnlyEndForAReason`.
- `BalancerProofs`: `CooldownInv` counts, for an upstream API that cools down,
  the calls that may still try it: those that hold it in a pool or a list drawn
  up before. Each try moves one from holding it to having tried it, lists hold
  nothing twice, and the call whose failure began the cooldown holds it no more;
  hence one less than there are calls. `ListsAreAlwaysRight` shows that the
  groups of equal priority, one after the other, and then the two parts by
  declared model, leave every pair in the order `MayPrecede` names.
  `TurnsAreTaken` rests on `TurnOK`, that the cursor is one ahead of the turn that
  is remembered; sorts elsewhere keep this by moving both (`ElsewhereTurns`), also
  over the end of the cursor's range (`CursorGoesOn`).
- `StreamProofs`: `StreamInv` is `TypeOK`, `CountOK` and `SentOK`. `InStep` says
  that the events sent are what the rewriter believes them to be: as many blocks
  begun as its index says, all closed but the one whose kind it holds, deltas
  only for the block that was open. It is kept event by event (`BlockStarts`,
  `BlockStops`, `BlocksKept`) and so by every line, and each way of returning
  turns it into the form `SentOK` names for it; a caller who leaves in the
  middle of a line has a beginning of what was in step, which is in order still.
  `CountOK` relates the counter to `Delivered`. The latter is a sum by recursion
  over the events, and two functions that satisfy its equations are shown equal
  by a least place where they differ, since induction is out of reach as a
  theorem about operators. `WhatIsBookedWasDelivered` and `EveryAnswerIsWhole`
  follow from the invariant.

Only model-checked: the two properties of scripts and all liveness properties
(`RequestsEnd`, `WaitersAreWoken`, `PendingIsCleared`, `ExhaustedIsSuspended`,
`BookingsAreSaved`). The provers do not cover liveness under fairness (nor
`ENABLED`); of the first two the bounded number of steps is proved, as said
above, and of the others nothing but what the invariants say. `ScriptParser`, `ScriptEval` and `Script` are recursive operators
over data without a bound, and what they compute for every input would need an
induction over data that none of the provers can do.

## Not modelled

See `components` in `PROJECT.json`. Queries to sites (`wallet`), bodies that are
not streamed, the lexer and the host functions of scripts, the tokenizer,
cryptography and web pages transform data without interacting state; their
results enter the models as choices. Model listing and script testing
(`admin/models.go`, `admin/scripts.go`) read, or edit single fields. Rounding of
money, provider enable flags, per-key provider lists, `HandleEmbeddings`,
division and string order in scripts, `for...of` over a string, `sort`, `reduce`
and `concat`, and the
encryption of fields in the file are abstracted away.

## Plan

What is left is `Gateway` together with `Account` and `Balancer`, so that a
charge, a suspension and an order are those of their modules, with the
invariants that this brings: an account that is short of money is left within a
bounded number of attempts, and what is charged is what was booked.
