---------------------------- MODULE Persistence ----------------------------
(***************************************************************************)
(* store.Store as the guardian of one JSON file: Load with the migrations  *)
(* of normalizeLocked, Update (change and write), Mutate (change, mark     *)
(* dirty), Flush, the maintenance loop, Close, and the command line tools  *)
(* that open the same file.  Every method holds Store.mu, so each is one   *)
(* action; a write replaces the file by a rename, so it happens entirely   *)
(* or not at all.                                                          *)
(*                                                                         *)
(* The data is the log of operations applied to it, beside the settings    *)
(* the migrations touch (one group, one account).  A change is reported    *)
(* to its caller; a booking (usage, statistics, last login) is not.        *)
(***************************************************************************)
EXTENDS Naturals, Sequences

CONSTANTS
  Change,     \* operations made under Update
  Booking,    \* operations made under Mutate
  FirstFiles, \* what may lie at the path of the data file at first
  NewAccounts,\* the accounts an administrator may put in place of the first
  NoFile,
  Corrupt     \* a file that is not JSON of this shape

Op == Change \cup Booking
CurrentVersion == 7

Accounts ==
  [refresh: BOOLEAN, auto: BOOLEAN, autoDelete: {"absent", "on", "off"},
   billed: BOOLEAN, manual: BOOLEAN, suspended: BOOLEAN, reason: BOOLEAN]

Data == [version: 0..CurrentVersion, groupOn: BOOLEAN, account: Accounts,
         log: Seq(Op)]

\* What BuildAccount lets through: balances are kept by hand only together
\* with a way of billing; nothing is suspended yet.
BuildableAccounts ==
  {a \in Accounts : /\ a.autoDelete = "absent"
                    /\ a.manual => a.billed
                    /\ ~a.suspended
                    /\ ~a.reason}

ASSUME PersistenceAssumption ==
  /\ NewAccounts \subseteq BuildableAccounts
  /\ NewAccounts # {}
  /\ NoFile \notin Data /\ Corrupt \notin Data /\ NoFile # Corrupt
  /\ FirstFiles \subseteq {NoFile} \cup {d \in Data : d.log = <<>>}
  /\ Change \cap Booking = {}

\* newData(), with the account that will be created first.
FreshData(a) ==
  [version |-> CurrentVersion, groupOn |-> TRUE, account |-> a, log |-> <<>>]

VARIABLES
  file,     \* NoFile, Corrupt or the data in it
  mem,      \* Store.data
  dirty,    \* Store.dirty
  phase,    \* "stopped", "running" or, after App.Close, "closing"
  issued,   \* operations tried so far (each at most once: the bound)
  acked,    \* changes reported as done, and not lost to a damaged file
  refused   \* changes reported as failed

vars == <<file, mem, dirty, phase, issued, acked, refused>>

Readable(f) == f \notin {NoFile, Corrupt}

-----------------------------------------------------------------------------
(* Load *)

\* normalizeLocked on an account: fields a later version introduced get the
\* default of their migration; an account without billing has no balance
\* kept by hand; only a suspended account has a reason.
NormalAccount(a, version) ==
  [refresh |-> IF version < 3 THEN TRUE ELSE a.refresh,
   auto |-> IF version < 5 THEN a.autoDelete # "off" ELSE a.auto,
   autoDelete |-> "absent",
   billed |-> IF version < 6 THEN FALSE ELSE a.billed,
   manual |-> IF version >= 6 /\ a.billed THEN a.manual ELSE FALSE,
   suspended |-> a.suspended,
   reason |-> IF a.suspended THEN a.reason ELSE FALSE]

\* Faulty variant: the version of the file is not raised.
NormalizedInPlace(d) ==
  [version |-> d.version,
   groupOn |-> IF d.version < 4 THEN TRUE ELSE d.groupOn,
   account |-> NormalAccount(d.account, d.version),
   log |-> d.log]

Normalized(d) ==
  [version |-> CurrentVersion,
   groupOn |-> IF d.version < 4 THEN TRUE ELSE d.groupOn,
   account |-> NormalAccount(d.account, d.version),
   log |-> d.log]

\* What Load makes of a file.
Loaded(f) ==
  IF Readable(f) THEN {Normalized(f)} ELSE {FreshData(a) : a \in NewAccounts}

\* persistLocked: the file holds the memory, and nothing is dirty any more.
Saved(d) ==
  /\ file' = d
  /\ dirty' = FALSE

\* Load ends with a write.
Start ==
  /\ phase = "stopped"
  /\ \E d \in Loaded(file) :
       /\ mem' = d
       /\ Saved(d)
  /\ phase' = "running"
  /\ UNCHANGED <<issued, acked, refused>>

\* Load returns an error: the file cannot be read, decrypted or written.  A
\* corrupt file may have been moved out of the way by then.
StartFails ==
  /\ phase = "stopped"
  /\ file = Corrupt
  /\ file' = NoFile
  /\ UNCHANGED <<mem, dirty, phase, issued, acked, refused>>

-----------------------------------------------------------------------------
(* Operations *)

\* Faulty variant: an account is put in without the checks of BuildAccount.
SettingsUnchecked(d) ==
  {[d EXCEPT !.account = a] : a \in Accounts}

\* The settings an administrator's handler may leave behind.
Settings(d) ==
  {[d EXCEPT !.groupOn = on] : on \in BOOLEAN}
    \cup {[d EXCEPT !.account.suspended = s, !.account.reason = s] : s \in BOOLEAN}
    \cup {[d EXCEPT !.account = a] : a \in NewAccounts}

Logged(d, op) == [d EXCEPT !.log = Append(@, op)]

\* Faulty variant: a change is left to the next Flush.
UpdateDeferred(c) ==
  /\ phase # "stopped"
  /\ c \notin issued
  /\ issued' = issued \cup {c}
  /\ \E d \in Settings(mem) : mem' = Logged(d, c)
  /\ dirty' = TRUE
  /\ acked' = acked \cup {c}
  /\ UNCHANGED <<file, phase, refused>>

\* Faulty variant: the flag is lowered before the write is tried.
UpdateForgetting(c) ==
  /\ phase # "stopped"
  /\ c \notin issued
  /\ issued' = issued \cup {c}
  /\ dirty' = FALSE
  /\ \E d \in Settings(mem) : mem' = Logged(d, c)
  /\ \/ file' = mem' /\ acked' = acked \cup {c} /\ UNCHANGED refused
     \/ refused' = refused \cup {c} /\ UNCHANGED <<file, acked>>
  /\ UNCHANGED phase

\* Update, or one of the methods that change the data and call persistLocked
\* themselves.  Memory has changed even when the write fails.
Update(c) ==
  /\ phase # "stopped"
  /\ c \notin issued
  /\ issued' = issued \cup {c}
  /\ \E d \in Settings(mem) : mem' = Logged(d, c)
  /\ \/ /\ Saved(mem')
        /\ acked' = acked \cup {c}
        /\ UNCHANGED refused
     \/ /\ refused' = refused \cup {c}
        /\ UNCHANGED <<file, dirty, acked>>
  /\ UNCHANGED phase

\* Faulty variant: a booking leaves the flag as it is.
MutateUnmarked(b) ==
  /\ phase # "stopped"
  /\ b \notin issued
  /\ issued' = issued \cup {b}
  /\ mem' = Logged(mem, b)
  /\ UNCHANGED <<file, dirty, phase, acked, refused>>

Mutate(b) ==
  /\ phase # "stopped"
  /\ b \notin issued
  /\ issued' = issued \cup {b}
  /\ mem' = Logged(mem, b)
  /\ dirty' = TRUE
  /\ UNCHANGED <<file, phase, acked, refused>>

\* Flush writes when there is something to write; a failed write leaves the
\* flag up for the next round.
FlushSaves ==
  /\ phase = "running"
  /\ dirty
  /\ Saved(mem)
  /\ UNCHANGED <<mem, phase, issued, acked, refused>>

\* App.Close flushes, or fails to, while handlers still run.
Close ==
  /\ phase = "running"
  /\ phase' = "closing"
  /\ \/ dirty /\ Saved(mem)
     \/ UNCHANGED <<file, dirty>>
  /\ UNCHANGED <<mem, issued, acked, refused>>

-----------------------------------------------------------------------------
(* What ends a process, and what happens meanwhile *)

\* A crash, or the end of main after Close: memory is gone.
Exit ==
  /\ phase # "stopped"
  /\ phase' = "stopped"
  /\ dirty' = FALSE
  /\ \E a \in NewAccounts : mem' = FreshData(a)
  /\ UNCHANGED <<file, issued, acked, refused>>

\* The file is damaged from outside; what it promised is void.
Damage ==
  /\ Readable(file)
  /\ file' = Corrupt
  /\ acked' = {}
  /\ UNCHANGED <<mem, dirty, phase, issued, refused>>

\* Faulty variant: the file is changed under a running service.
ResetPasswordAnytime(c) ==
  /\ c \notin issued
  /\ issued' = issued \cup {c}
  /\ \E d \in Loaded(file) : file' = Logged(d, c)
  /\ acked' = acked \cup {c}
  /\ UNCHANGED <<mem, dirty, phase, refused>>

\* `laskah reset-password`: Load, a change, a write, in a process of its own.
\* The instructions are to stop the service first.
ResetPassword(c) ==
  /\ phase = "stopped"
  /\ c \notin issued
  /\ issued' = issued \cup {c}
  /\ \E d \in Loaded(file) :
       \/ /\ file' = Logged(d, c)
          /\ acked' = acked \cup {c}
          /\ UNCHANGED refused
       \/ /\ file' = d
          /\ refused' = refused \cup {c}
          /\ UNCHANGED acked
  /\ UNCHANGED <<mem, dirty, phase>>

-----------------------------------------------------------------------------
Init ==
  /\ file \in FirstFiles
  /\ mem \in {FreshData(a) : a \in NewAccounts}
  /\ dirty = FALSE
  /\ phase = "stopped"
  /\ issued = {}
  /\ acked = {}
  /\ refused = {}

Next ==
  \/ Start
  \/ StartFails
  \/ \E c \in Change : Update(c) \/ ResetPassword(c)
  \/ \E b \in Booking : Mutate(b)
  \/ FlushSaves
  \/ Close
  \/ Exit
  \/ Damage

Spec == Init /\ [][Next]_vars

\* maintenanceLoop tries every 30 seconds for as long as the process runs;
\* the disk is assumed to take a write now and then.
FairSpec == Spec /\ SF_vars(FlushSaves)

-----------------------------------------------------------------------------
(* Properties *)

Done(log) == {log[i] : i \in DOMAIN log}

Before(s, t) == Len(s) <= Len(t) /\ \A i \in DOMAIN s : s[i] = t[i]

\* The operations a restart would show.
Kept == IF Readable(file) THEN file.log ELSE <<>>

\* The operations readers see now.
Shown == IF phase = "stopped" THEN Kept ELSE mem.log

TypeOK ==
  /\ file \in Data \cup {NoFile, Corrupt}
  /\ mem \in Data
  /\ dirty \in BOOLEAN
  /\ phase \in {"stopped", "running", "closing"}
  /\ issued \subseteq Op
  /\ acked \subseteq Change
  /\ refused \subseteq Change

\* Store.Update, SetAdminPassword and their like return nil only after the
\* write: through failed writes, flushes, crashes and restarts in any order,
\* a change that was reported as done is in the file.
PromisesKept == acked \subseteq Done(Kept)

\* Flush skips the write when nothing is dirty (store.go, Flush).  That never
\* strands a booking: while the flag is down, all that memory has and the file
\* lacks are changes whose caller was told that they failed.
NothingSilentlyUnsaved ==
  phase # "stopped" /\ ~dirty /\ Readable(file) =>
    /\ Before(file.log, mem.log)
    /\ Done(mem.log) \ Done(file.log) \subseteq refused

\* What handlers leave behind is left alone by the next Load: whatever the
\* account and the group look like in a running service, normalizeLocked has
\* nothing to change in them.
NothingToNormalize == phase # "stopped" => Normalized(mem) = mem

\* Migrations happen once.  Settings written by this version come back as they
\* were, through any number of restarts, although every Load runs the
\* migrations of all versions (the switch of a group that was migrated to
\* "enabled" stays off once an administrator has turned it off).
SettingsOutliveRestarts ==
  [][phase = "stopped" /\ phase' = "running" /\ Readable(file) =>
       \/ mem' = file
       \/ file.version < CurrentVersion /\ file.log = <<>>]_vars

\* The store with its file, flag and process does no more than a DurableStore.
Durable == INSTANCE DurableStore WITH shown <- Shown, kept <- Kept, promised <- acked

ImplementsDurableStore == Durable!Init /\ [][Durable!Next]_<<Shown, Kept, acked>>

\* README: bookings are collected in memory and written every 30 seconds.  A
\* booking reaches the file, however many writes fail meanwhile, unless the
\* process ends or the file is damaged.
BookingsAreSaved ==
  \A b \in Booking :
    b \in Done(mem.log) /\ phase = "running" ~> b \in Done(Kept) \/ phase # "running" \/ file = Corrupt
=============================================================================
