-------------------------- MODULE PersistenceProofs --------------------------
(***************************************************************************)
(* Proofs about Persistence, for any operations, any files to begin with   *)
(* and any accounts: what was promised is kept, nothing is left unsaved in *)
(* silence, and the store implements a DurableStore.                       *)
(***************************************************************************)
EXTENDS Persistence, TLAPS

-----------------------------------------------------------------------------
(* Lemmas about the data *)

\* A new operation is added at the end of the log and nothing else is lost.
LEMMA LoggedData ==
  ASSUME NEW d \in Data, NEW op \in Op
  PROVE  /\ Logged(d, op) \in Data
         /\ Logged(d, op).log = Append(d.log, op)
         /\ Done(Logged(d, op).log) = Done(d.log) \cup {op}
         /\ \A s \in Seq(Op) : Before(s, d.log) => Before(s, Logged(d, op).log)
<1> DEFINE t == Append(d.log, op)
<1>1. d.log \in Seq(Op)
  BY DEF Data
<1>2. t \in Seq(Op) /\ Len(t) = Len(d.log) + 1 /\ DOMAIN t = 1 .. Len(d.log) + 1
  BY <1>1
<1>3. t[Len(d.log) + 1] = op /\ \A i \in 1 .. Len(d.log) : t[i] = d.log[i]
  BY <1>1
<1>4. Logged(d, op) \in Data /\ Logged(d, op).log = t
  BY <1>2 DEF Logged, Data
<1>5. Done(t) = Done(d.log) \cup {op}
  BY <1>1, <1>2, <1>3 DEF Done
<1>6. \A s \in Seq(Op) : Before(s, d.log) => Before(s, t)
  BY <1>1, <1>2, <1>3 DEF Before
<1> QED BY <1>4, <1>5, <1>6

\* An earlier point of a log knows no operation the later one does not.
LEMMA BeforeDone ==
  ASSUME NEW s \in Seq(Op), NEW t \in Seq(Op), Before(s, t)
  PROVE  Done(s) \subseteq Done(t)
BY DEF Before, Done

\* Records of accounts and of data, field by field.
LEMMA AccountParts ==
  ASSUME NEW a \in Accounts, NEW b \in Accounts,
         a.refresh = b.refresh, a.auto = b.auto, a.autoDelete = b.autoDelete,
         a.billed = b.billed, a.manual = b.manual,
         a.suspended = b.suspended, a.reason = b.reason
  PROVE  a = b
BY DEF Accounts

LEMMA DataParts ==
  ASSUME NEW d \in Data
  PROVE  /\ d.version \in 0 .. CurrentVersion
         /\ d.groupOn \in BOOLEAN
         /\ d.account \in Accounts
         /\ d.log \in Seq(Op)
BY DEF Data

LEMMA NormalAccountType ==
  ASSUME NEW a \in Accounts, NEW v \in 0 .. CurrentVersion
  PROVE  NormalAccount(a, v) \in Accounts
BY DEF NormalAccount, Accounts

\* The accounts normalizeLocked leaves alone.
Settled(a) ==
  /\ a.autoDelete = "absent"
  /\ a.manual => a.billed
  /\ a.reason => a.suspended

LEMMA NormalAccountSettled ==
  ASSUME NEW a \in Accounts, NEW v \in 0 .. CurrentVersion
  PROVE  Settled(NormalAccount(a, v))
BY DEF NormalAccount, Settled, Accounts

LEMMA SettledIsNormal ==
  ASSUME NEW a \in Accounts
  PROVE  NormalAccount(a, CurrentVersion) = a <=> Settled(a)
<1> DEFINE b == NormalAccount(a, CurrentVersion)
<1>1. b \in Accounts
  BY NormalAccountType DEF CurrentVersion
<1>2. ASSUME Settled(a) PROVE b = a
  <2>1. /\ b.refresh = a.refresh /\ b.auto = a.auto
        /\ b.autoDelete = a.autoDelete /\ b.billed = a.billed
        /\ b.suspended = a.suspended
    BY <1>2 DEF NormalAccount, Settled, CurrentVersion
  <2>2. a.manual \in BOOLEAN /\ a.billed \in BOOLEAN
          /\ a.reason \in BOOLEAN /\ a.suspended \in BOOLEAN
    BY DEF Accounts
  <2>3. b.manual = (IF a.billed THEN a.manual ELSE FALSE)
          /\ b.reason = (IF a.suspended THEN a.reason ELSE FALSE)
    BY DEF NormalAccount, CurrentVersion
  <2>4. b.manual = a.manual
    BY <1>2, <2>2, <2>3 DEF Settled
  <2>5. b.reason = a.reason
    BY <1>2, <2>2, <2>3 DEF Settled
  <2> HIDE DEF b
  <2> QED BY <1>1, <2>1, <2>4, <2>5, AccountParts
<1>3. ASSUME b = a PROVE Settled(a)
  BY <1>3, NormalAccountSettled DEF CurrentVersion
<1> QED BY <1>2, <1>3

\* Data in its normal form.
LEMMA NormalForm ==
  ASSUME NEW d \in Data
  PROVE  Normalized(d) = d <=> d.version = CurrentVersion /\ Settled(d.account)
<1> USE DataParts
<1>1. ASSUME d.version = CurrentVersion, Settled(d.account)
      PROVE  Normalized(d) = d
  <2>1. NormalAccount(d.account, d.version) = d.account
    BY <1>1, SettledIsNormal
  <2>2. (IF d.version < 4 THEN TRUE ELSE d.groupOn) = d.groupOn
    BY <1>1 DEF CurrentVersion
  <2> QED BY <1>1, <2>1, <2>2 DEF Normalized, Data
<1>2. ASSUME Normalized(d) = d
      PROVE  d.version = CurrentVersion /\ Settled(d.account)
  <2>1. d.version = CurrentVersion /\ NormalAccount(d.account, d.version) = d.account
    BY <1>2 DEF Normalized
  <2> QED BY <2>1, SettledIsNormal
<1> QED BY <1>1, <1>2

\* Load repairs what it reads once and for all, and does not touch the log.
LEMMA NormalizedData ==
  ASSUME NEW d \in Data
  PROVE  /\ Normalized(d) \in Data
         /\ Normalized(d).log = d.log
         /\ Normalized(Normalized(d)) = Normalized(d)
<1> DEFINE a == NormalAccount(d.account, d.version)
<1>1. a \in Accounts /\ Settled(a)
  BY DataParts, NormalAccountType, NormalAccountSettled
<1> DEFINE g == IF d.version < 4 THEN TRUE ELSE d.groupOn
<1>2. d.log \in Seq(Op) /\ CurrentVersion \in 0 .. CurrentVersion
  BY DataParts DEF CurrentVersion
<1>3. g \in BOOLEAN
  <2>1. d.groupOn \in BOOLEAN
    BY DataParts
  <2> QED BY <2>1
<1>4. Normalized(d) =
        [version |-> CurrentVersion, groupOn |-> g, account |-> a, log |-> d.log]
  BY DEF Normalized
<1>5. /\ Normalized(d) \in Data
      /\ Normalized(d).version = CurrentVersion
      /\ Normalized(d).account = a
      /\ Normalized(d).log = d.log
  <2> HIDE DEF a, g
  <2> QED BY <1>1, <1>2, <1>3, <1>4 DEF Data
<1> QED BY <1>1, <1>5, NormalForm

LEMMA FreshIsData ==
  ASSUME NEW a \in NewAccounts
  PROVE  /\ FreshData(a) \in Data
         /\ FreshData(a).log = <<>>
         /\ Normalized(FreshData(a)) = FreshData(a)
<1>1. a \in Accounts /\ Settled(a)
  BY PersistenceAssumption DEF BuildableAccounts, Settled
<1>2. FreshData(a) \in Data
  <2>1. CurrentVersion \in 0 .. CurrentVersion /\ <<>> \in Seq(Op)
    BY DEF CurrentVersion
  <2> QED BY <1>1, <2>1 DEF FreshData, Data
<1>3. FreshData(a).version = CurrentVersion /\ FreshData(a).account = a
  BY DEF FreshData
<1> QED BY <1>1, <1>2, <1>3, NormalForm DEF FreshData

LEMMA LoadedData ==
  ASSUME NEW f \in Data \cup {NoFile, Corrupt}, NEW d \in Loaded(f)
  PROVE  /\ d \in Data
         /\ Normalized(d) = d
         /\ d.log = (IF Readable(f) THEN f.log ELSE <<>>)
<1>1. CASE Readable(f)
  BY <1>1, NormalizedData DEF Loaded, Readable
<1>2. CASE ~Readable(f)
  BY <1>2, FreshIsData DEF Loaded
<1> QED BY <1>1, <1>2

\* An administrator's handler leaves a normal form and no trace in the log.
LEMMA SettingsData ==
  ASSUME NEW d \in Data, Normalized(d) = d, NEW e \in Settings(d)
  PROVE  e \in Data /\ e.log = d.log /\ Normalized(e) = e
<1> USE DataParts
<1>0. d.version = CurrentVersion /\ Settled(d.account)
  BY NormalForm
<1>1. CASE \E on \in BOOLEAN : e = [d EXCEPT !.groupOn = on]
  <2>1. e \in Data /\ e.log = d.log /\ e.version = d.version /\ e.account = d.account
    BY <1>1 DEF Data
  <2> QED BY <1>0, <2>1, NormalForm
<1>2. CASE \E s \in BOOLEAN :
             e = [d EXCEPT !.account.suspended = s, !.account.reason = s]
  <2>1. PICK s \in BOOLEAN :
          e = [d EXCEPT !.account.suspended = s, !.account.reason = s]
    BY <1>2
  <2> DEFINE b == [d.account EXCEPT !.suspended = s, !.reason = s]
  <2>2. b \in Accounts /\ Settled(b)
    BY <1>0 DEF Accounts, Settled
  <2>3. e = [d EXCEPT !.account = b]
    BY <2>1 DEF Data, Accounts
  <2>4. e \in Data /\ e.log = d.log /\ e.version = d.version /\ e.account = b
    <3> HIDE DEF b
    <3> QED BY <2>2, <2>3 DEF Data
  <2> QED BY <1>0, <2>2, <2>4, NormalForm
<1>3. CASE \E a \in NewAccounts : e = [d EXCEPT !.account = a]
  <2>1. PICK a \in NewAccounts : e = [d EXCEPT !.account = a]
    BY <1>3
  <2>2. a \in Accounts /\ Settled(a)
    BY PersistenceAssumption DEF BuildableAccounts, Settled
  <2>3. e \in Data /\ e.log = d.log /\ e.version = d.version /\ e.account = a
    BY <2>1, <2>2 DEF Data
  <2> QED BY <1>0, <2>2, <2>3, NormalForm
<1> QED BY <1>1, <1>2, <1>3 DEF Settings

\* A logged operation changes no setting.
LEMMA LoggedNormal ==
  ASSUME NEW d \in Data, NEW op \in Op, Normalized(d) = d
  PROVE  Normalized(Logged(d, op)) = Logged(d, op)
<1>1. /\ Logged(d, op) \in Data
      /\ Logged(d, op).version = d.version
      /\ Logged(d, op).account = d.account
  BY LoggedData DEF Logged, Data
<1> QED BY <1>1, NormalForm

-----------------------------------------------------------------------------
(* The invariant *)

\* While a process runs, the file is an earlier point of its memory: writes
\* replace the whole file, and memory starts from the file.
FileIsPast == phase # "stopped" /\ Readable(file) => Before(file.log, mem.log)

\* FileIsPast is what makes a write keep every earlier promise.
Inv ==
  /\ TypeOK
  /\ FileIsPast
  /\ PromisesKept
  /\ NothingSilentlyUnsaved
  /\ NothingToNormalize

LEMMA InitInv == Init => Inv
<1> SUFFICES ASSUME Init PROVE Inv
  OBVIOUS
<1>1. TypeOK
  BY PersistenceAssumption, FreshIsData DEF Init, TypeOK
<1>2. PromisesKept
  BY DEF Init, PromisesKept
<1> QED BY <1>1, <1>2
    DEF Init, Inv, FileIsPast, NothingSilentlyUnsaved, NothingToNormalize

\* What a write of the memory establishes.
LEMMA SavedInv ==
  ASSUME Inv, NEW d \in Data, Readable(d), Saved(d), mem' = d,
         Normalized(d) = d, acked' \subseteq Done(d.log),
         phase' # "stopped", phase' \in {"running", "closing"},
         issued' \subseteq Op, acked' \subseteq Change, refused' \subseteq Change
  PROVE  Inv'
<1>1. TypeOK'
  BY DEF Saved, TypeOK
<1>2. d.log \in Seq(Op)
  BY DataParts
<1>3. FileIsPast' /\ NothingSilentlyUnsaved'
  BY <1>2 DEF Saved, FileIsPast, NothingSilentlyUnsaved, Before
<1>4. PromisesKept' /\ NothingToNormalize'
  BY DEF Saved, PromisesKept, Kept, Readable, NothingToNormalize
<1> QED BY <1>1, <1>3, <1>4 DEF Inv

LEMMA DataReadable == ASSUME NEW d \in Data PROVE Readable(d)
BY PersistenceAssumption DEF Readable

\* Promises made so far are in memory, too.
LEMMA PromisesInMemory ==
  ASSUME Inv, phase # "stopped"
  PROVE  acked \subseteq Done(mem.log)
<1>1. CASE Readable(file)
  <2>1. file \in Data /\ mem \in Data
    BY <1>1 DEF Inv, TypeOK, Readable
  <2>2. Done(file.log) \subseteq Done(mem.log)
    BY <1>1, <2>1, DataParts, BeforeDone DEF Inv, FileIsPast
  <2> QED BY <1>1, <2>2 DEF Inv, PromisesKept, Kept
<1>2. CASE ~Readable(file)
  BY <1>2 DEF Inv, PromisesKept, Kept, Done
<1> QED BY <1>1, <1>2

LEMMA UpdateInv ==
  ASSUME Inv, NEW c \in Change, Update(c)
  PROVE  Inv'
<1>1. mem \in Data /\ Normalized(mem) = mem /\ c \in Op /\ phase # "stopped"
  BY DEF Inv, TypeOK, NothingToNormalize, Update, Op
<1>2. PICK e \in Settings(mem) : mem' = Logged(e, c)
  BY DEF Update
<1>3. e \in Data /\ e.log = mem.log /\ Normalized(e) = e
  BY <1>1, <1>2, SettingsData
<1>4. /\ mem' \in Data /\ Normalized(mem') = mem'
      /\ Done(mem'.log) = Done(mem.log) \cup {c}
  BY <1>1, <1>2, <1>3, LoggedData, LoggedNormal
<1>5. issued' \subseteq Op /\ phase' = phase
  BY <1>1 DEF Update, Inv, TypeOK
<1>6. CASE Saved(mem') /\ acked' = acked \cup {c} /\ UNCHANGED refused
  <2>1. acked' \subseteq Done(mem'.log)
    BY <1>1, <1>4, <1>6, PromisesInMemory
  <2>2. acked' \subseteq Change /\ refused' \subseteq Change
    BY <1>6 DEF Inv, TypeOK
  <2>3. phase' # "stopped" /\ phase' \in {"running", "closing"}
    BY <1>1, <1>5 DEF Inv, TypeOK
  <2> QED BY <1>4, <1>5, <1>6, <2>1, <2>2, <2>3, DataReadable, SavedInv
<1>7. CASE refused' = refused \cup {c} /\ UNCHANGED <<file, dirty, acked>>
  <2>1. TypeOK'
    BY <1>4, <1>5, <1>7 DEF Inv, TypeOK
  <2>2. ASSUME Readable(file) PROVE Before(file.log, mem'.log)
    <3>1. file.log \in Seq(Op) /\ Before(file.log, mem.log)
      BY <1>1, <2>2, DataParts DEF Inv, TypeOK, FileIsPast, Readable
    <3> QED BY <1>1, <1>2, <1>3, <3>1, LoggedData
  <2>3. FileIsPast'
    BY <1>7, <2>2 DEF FileIsPast, Readable
  <2>4. NothingSilentlyUnsaved'
    BY <1>1, <1>4, <1>5, <1>7, <2>2
    DEF Inv, NothingSilentlyUnsaved, Readable
  <2>5. PromisesKept' /\ NothingToNormalize'
    BY <1>4, <1>7 DEF Inv, PromisesKept, Kept, Readable, NothingToNormalize
  <2> QED BY <2>1, <2>3, <2>4, <2>5 DEF Inv
<1> QED BY <1>6, <1>7 DEF Update

LEMMA MutateInv ==
  ASSUME Inv, NEW b \in Booking, Mutate(b)
  PROVE  Inv'
<1>1. mem \in Data /\ Normalized(mem) = mem /\ b \in Op /\ phase # "stopped"
  BY DEF Inv, TypeOK, NothingToNormalize, Mutate, Op
<1>2. mem' \in Data /\ Normalized(mem') = mem'
  BY <1>1, LoggedData, LoggedNormal DEF Mutate
<1>3. TypeOK'
  BY <1>1, <1>2 DEF Inv, TypeOK, Mutate
<1>4. FileIsPast'
  <2>1. ASSUME Readable(file) PROVE Before(file.log, mem'.log)
    <3>1. file.log \in Seq(Op) /\ Before(file.log, mem.log)
      BY <1>1, <2>1, DataParts DEF Inv, TypeOK, FileIsPast, Readable
    <3> QED BY <1>1, <3>1, LoggedData DEF Mutate
  <2> QED BY <2>1 DEF FileIsPast, Readable, Mutate
<1>5. PromisesKept' /\ NothingToNormalize' /\ NothingSilentlyUnsaved'
  BY <1>2 DEF Inv, Mutate, PromisesKept, Kept, Readable, NothingToNormalize,
              NothingSilentlyUnsaved
<1> QED BY <1>3, <1>4, <1>5 DEF Inv

LEMMA StartInv ==
  ASSUME Inv, Start
  PROVE  Inv'
<1>1. PICK d \in Loaded(file) : mem' = d /\ Saved(d)
  BY DEF Start
<1>2. d \in Data /\ Normalized(d) = d
        /\ d.log = (IF Readable(file) THEN file.log ELSE <<>>)
  BY <1>1, LoadedData DEF Inv, TypeOK
<1>3. acked' \subseteq Done(d.log)
  BY <1>2 DEF Start, Inv, PromisesKept, Kept
<1>4. /\ phase' # "stopped" /\ phase' \in {"running", "closing"}
      /\ issued' \subseteq Op /\ acked' \subseteq Change /\ refused' \subseteq Change
  BY DEF Start, Inv, TypeOK
<1> QED BY <1>1, <1>2, <1>3, <1>4, DataReadable, SavedInv

LEMMA ResetPasswordInv ==
  ASSUME Inv, NEW c \in Change, ResetPassword(c)
  PROVE  Inv'
<1>1. PICK d \in Loaded(file) :
        \/ /\ file' = Logged(d, c)
           /\ acked' = acked \cup {c}
           /\ UNCHANGED refused
        \/ /\ file' = d
           /\ refused' = refused \cup {c}
           /\ UNCHANGED acked
  BY DEF ResetPassword
<1>2. c \in Op
  BY DEF Op
<1>3. d \in Data /\ d.log = (IF Readable(file) THEN file.log ELSE <<>>)
  BY <1>1, LoadedData DEF Inv, TypeOK
<1>4. Logged(d, c) \in Data /\ Done(Logged(d, c).log) = Done(d.log) \cup {c}
  BY <1>2, <1>3, LoggedData
<1>5. TypeOK'
  BY <1>1, <1>2, <1>3, <1>4 DEF ResetPassword, Inv, TypeOK
<1>6. phase' = "stopped"
  BY DEF ResetPassword
<1>7. acked \subseteq Done(d.log)
  BY <1>3 DEF Inv, PromisesKept, Kept
<1>8. Readable(d) /\ Readable(Logged(d, c))
  BY <1>3, <1>4, DataReadable
<1>9. PromisesKept'
  BY <1>1, <1>3, <1>4, <1>7, <1>8 DEF PromisesKept, Kept, Readable
<1> QED BY <1>5, <1>6, <1>9
    DEF Inv, FileIsPast, NothingSilentlyUnsaved, NothingToNormalize

LEMMA StepInv == Inv /\ [Next]_vars => Inv'
<1> SUFFICES ASSUME Inv, [Next]_vars PROVE Inv'
  OBVIOUS
<1>1. CASE Start
  BY <1>1, StartInv
<1>2. CASE StartFails
  BY <1>2 DEF StartFails, Inv, TypeOK, FileIsPast, PromisesKept, Kept, Readable,
              NothingSilentlyUnsaved, NothingToNormalize
<1>3. CASE \E c \in Change : Update(c)
  BY <1>3, UpdateInv
<1>4. CASE \E c \in Change : ResetPassword(c)
  BY <1>4, ResetPasswordInv
<1>5. CASE \E b \in Booking : Mutate(b)
  BY <1>5, MutateInv
<1>6. ASSUME dirty, phase = "running", Saved(mem), UNCHANGED <<mem, issued, acked, refused>>,
             phase' \in {"running", "closing"}
      PROVE  Inv'
  <2>1. /\ mem \in Data /\ Readable(mem) /\ Normalized(mem) = mem
        /\ acked' \subseteq Done(mem.log)
        /\ issued' \subseteq Op /\ acked' \subseteq Change /\ refused' \subseteq Change
    BY <1>6, PromisesInMemory, DataReadable DEF Inv, TypeOK, NothingToNormalize
  <2> QED BY <1>6, <2>1, SavedInv
<1>7. CASE FlushSaves
  BY <1>6, <1>7 DEF FlushSaves
<1>8. CASE Close
  <2>1. CASE dirty /\ Saved(mem)
    BY <1>6, <1>8, <2>1 DEF Close
  <2>2. CASE UNCHANGED <<file, dirty>>
    BY <1>8, <2>2 DEF Close, Inv, TypeOK, FileIsPast, PromisesKept, Kept, Readable,
                      NothingSilentlyUnsaved, NothingToNormalize
  <2> QED BY <1>8, <2>1, <2>2 DEF Close
<1>9. CASE Exit
  <2>1. TypeOK'
    BY <1>9, FreshIsData DEF Exit, Inv, TypeOK
  <2> QED BY <1>9, <2>1 DEF Exit, Inv, FileIsPast, PromisesKept, Kept, Readable,
                            NothingSilentlyUnsaved, NothingToNormalize
<1>10. CASE Damage
  BY <1>10 DEF Damage, Inv, TypeOK, FileIsPast, PromisesKept, Kept, Readable,
               NothingSilentlyUnsaved, NothingToNormalize
<1>11. CASE UNCHANGED vars
  BY <1>11 DEF vars, Inv, TypeOK, FileIsPast, PromisesKept, Kept, Readable,
               NothingSilentlyUnsaved, NothingToNormalize
<1> QED BY <1>1, <1>2, <1>3, <1>4, <1>5, <1>7, <1>8, <1>9, <1>10, <1>11 DEF Next

-----------------------------------------------------------------------------
(* The theorems *)

LEMMA Invariance == Spec => []Inv
BY InitInv, StepInv, PTL DEF Spec

\* Every reachable state of the store is well typed.
THEOREM Typed == Spec => []TypeOK
<1>1. Inv => TypeOK
  BY DEF Inv
<1> QED BY Invariance, <1>1, PTL

\* A change reported as done is in the file, whatever fails in between.
THEOREM PromisesAreKept == Spec => []PromisesKept
<1>1. Inv => PromisesKept
  BY DEF Inv
<1> QED BY Invariance, <1>1, PTL

\* With the flag down, memory holds nothing the file lacks but changes that
\* were reported as failed.
THEOREM NothingIsSilentlyUnsaved == Spec => []NothingSilentlyUnsaved
<1>1. Inv => NothingSilentlyUnsaved
  BY DEF Inv
<1> QED BY Invariance, <1>1, PTL

\* Load has nothing to change in what a running service holds.
THEOREM NothingIsToNormalize == Spec => []NothingToNormalize
<1>1. Inv => NothingToNormalize
  BY DEF Inv
<1> QED BY Invariance, <1>1, PTL
-----------------------------------------------------------------------------
(* The refinement *)

\* A write of the memory: readers see it, and so would a restart.
LEMMA KeptAfterSave ==
  ASSUME NEW d \in Data, Saved(d)
  PROVE  Kept' = d.log
BY DataReadable DEF Saved, Kept, Readable

LEMMA UpdateRefines ==
  ASSUME Inv, NEW c \in Change, Update(c)
  PROVE  Durable!Serve(c) \/ Durable!Promise(c)
<1>1. mem \in Data /\ Normalized(mem) = mem /\ c \in Op /\ phase # "stopped"
  BY DEF Inv, TypeOK, NothingToNormalize, Update, Op
<1>2. PICK e \in Settings(mem) : mem' = Logged(e, c)
  BY DEF Update
<1>3. mem' \in Data /\ mem'.log = Append(mem.log, c)
  BY <1>1, <1>2, SettingsData, LoggedData
<1>4. Shown = mem.log /\ Shown' = mem'.log
  BY <1>1 DEF Shown, Update
<1>5. CASE Saved(mem') /\ acked' = acked \cup {c} /\ UNCHANGED refused
  BY <1>3, <1>4, <1>5, KeptAfterSave DEF Durable!Promise
<1>6. CASE refused' = refused \cup {c} /\ UNCHANGED <<file, dirty, acked>>
  BY <1>3, <1>4, <1>6 DEF Durable!Serve, Kept, Readable
<1> QED BY <1>5, <1>6 DEF Update

LEMMA ResetPasswordRefines ==
  ASSUME Inv, NEW c \in Change, ResetPassword(c)
  PROVE  Durable!Promise(c) \/ UNCHANGED <<Shown, Kept, acked>>
<1>1. PICK d \in Loaded(file) :
        \/ file' = Logged(d, c) /\ acked' = acked \cup {c}
        \/ file' = d /\ UNCHANGED acked
  BY DEF ResetPassword
<1>2. c \in Op /\ d \in Data /\ d.log = Kept
  BY <1>1, LoadedData DEF Op, Inv, TypeOK, Kept
<1>3. Shown = Kept /\ Shown' = Kept'
  BY DEF ResetPassword, Shown
<1>4. CASE file' = Logged(d, c) /\ acked' = acked \cup {c}
  <2>1. Kept' = Append(Kept, c)
    BY <1>2, <1>4, LoggedData, DataReadable DEF Kept, Readable
  <2> QED BY <1>3, <1>4, <2>1 DEF Durable!Promise
<1>5. CASE file' = d /\ UNCHANGED acked
  <2>1. Kept' = Kept
    BY <1>2, <1>5, DataReadable DEF Kept, Readable
  <2> QED BY <1>3, <1>5, <2>1
<1> QED BY <1>1, <1>4, <1>5

LEMMA StartRefines ==
  ASSUME Inv, Start
  PROVE  UNCHANGED <<Shown, Kept, acked>>
<1>1. PICK d \in Loaded(file) : mem' = d /\ Saved(d)
  BY DEF Start
<1>2. d \in Data /\ d.log = Kept
  BY <1>1, LoadedData DEF Inv, TypeOK, Kept
<1>3. Kept' = Kept
  BY <1>1, <1>2, KeptAfterSave
<1> QED BY <1>1, <1>2, <1>3 DEF Start, Shown

LEMMA StepRefines ==
  ASSUME Inv, [Next]_vars
  PROVE  [Durable!Next]_<<Shown, Kept, acked>>
<1>1. CASE Start
  BY <1>1, StartRefines
<1>2. CASE StartFails
  BY <1>2 DEF StartFails, Shown, Kept, Readable
<1>3. CASE \E c \in Change : Update(c)
  BY <1>3, UpdateRefines DEF Durable!Next, Op
<1>4. CASE \E c \in Change : ResetPassword(c)
  BY <1>4, ResetPasswordRefines DEF Durable!Next, Op
<1>5. CASE \E b \in Booking : Mutate(b)
  <2>1. PICK b \in Booking : Mutate(b)
    BY <1>5
  <2>2. b \in Op /\ mem'.log = Append(mem.log, b)
    BY <2>1, LoggedData DEF Op, Inv, TypeOK, Mutate
  <2> QED BY <2>1, <2>2 DEF Mutate, Shown, Kept, Readable, Durable!Serve, Durable!Next
<1>6. ASSUME phase = "running", phase' # "stopped", Saved(mem), UNCHANGED <<mem, acked>>
      PROVE  Durable!Keep
  <2>1. Kept' = mem.log
    BY <1>6, KeptAfterSave DEF Inv, TypeOK
  <2> QED BY <1>6, <2>1 DEF Shown, Durable!Keep
<1>7. CASE FlushSaves
  BY <1>6, <1>7 DEF FlushSaves, Durable!Next
<1>8. CASE Close
  <2>1. CASE Saved(mem)
    BY <1>6, <1>8, <2>1 DEF Close, Durable!Next
  <2>2. CASE UNCHANGED <<file, dirty>>
    BY <1>8, <2>2 DEF Close, Shown, Kept, Readable
  <2> QED BY <1>8, <2>1, <2>2 DEF Close
<1>9. CASE Exit
  BY <1>9 DEF Exit, Shown, Kept, Readable, Durable!Recover, Durable!Next
<1>10. CASE Damage
  <2>1. Kept' = <<>> /\ acked' = {}
    BY <1>10 DEF Damage, Kept, Readable
  <2>2. Shown' \in {Shown, <<>>}
    BY <1>10, <2>1 DEF Damage, Shown
  <2> QED BY <2>1, <2>2 DEF Durable!Lose, Durable!Next
<1>11. CASE UNCHANGED vars
  BY <1>11 DEF vars, Shown, Kept, Readable
<1> QED BY <1>1, <1>2, <1>3, <1>4, <1>5, <1>7, <1>8, <1>9, <1>10, <1>11 DEF Next

\* The store with its file, flag and process implements a DurableStore: what
\* a restart brings back is an earlier point of what readers saw, and never
\* one before an operation that was reported as done.
THEOREM Refinement == Spec => ImplementsDurableStore
<1>1. Init => Durable!Init
  <2> SUFFICES ASSUME Init PROVE Durable!Init
    OBVIOUS
  <2>1. Kept = <<>>
    BY PersistenceAssumption DEF Init, Kept, Readable
  <2> QED BY <2>1 DEF Init, Shown, Durable!Init
<1>2. Inv /\ [Next]_vars => [Durable!Next]_<<Shown, Kept, acked>>
  BY StepRefines
<1> QED BY <1>1, <1>2, Invariance, PTL DEF Spec, ImplementsDurableStore

-----------------------------------------------------------------------------
(* Migrations *)

\* Once something was logged or the file has the current version, what the
\* process finds there is in its normal form.
FileIsNormal ==
  Readable(file) => \/ Normalized(file) = file
                    \/ file.version < CurrentVersion /\ file.log = <<>>

LEMMA FileStaysNormal == Inv /\ FileIsNormal /\ [Next]_vars => FileIsNormal'
<1> SUFFICES ASSUME Inv, FileIsNormal, [Next]_vars PROVE FileIsNormal'
  OBVIOUS
<1>1. ASSUME NEW d \in Data, Normalized(d) = d, file' = d
      PROVE  FileIsNormal'
  BY <1>1 DEF FileIsNormal
<1>2. ASSUME file' = file \/ ~Readable(file')
      PROVE  FileIsNormal'
  BY <1>2 DEF FileIsNormal, Readable
<1>3. CASE Start
  <2>1. PICK d \in Loaded(file) : mem' = d /\ Saved(d)
    BY <1>3 DEF Start
  <2> QED BY <1>1, <2>1, LoadedData DEF Inv, TypeOK, Saved
<1>4. CASE \E c \in Change : Update(c)
  <2>1. PICK c \in Change : Update(c)
    BY <1>4
  <2>2. Inv'
    BY <2>1, UpdateInv
  <2>3. mem' \in Data /\ Normalized(mem') = mem'
    BY <2>1, <2>2 DEF Inv, TypeOK, NothingToNormalize, Update
  <2> QED BY <1>1, <1>2, <2>1, <2>3 DEF Update, Saved
<1>5. CASE \E c \in Change : ResetPassword(c)
  <2>1. PICK c \in Change : ResetPassword(c)
    BY <1>5
  <2>2. PICK d \in Loaded(file) : file' \in {d, Logged(d, c)}
    BY <2>1 DEF ResetPassword
  <2>3. d \in Data /\ Normalized(d) = d /\ c \in Op
    BY <2>2, LoadedData DEF Inv, TypeOK, Op
  <2> QED BY <1>1, <2>2, <2>3, LoggedData, LoggedNormal
<1>6. ASSUME phase # "stopped", Saved(mem)
      PROVE  FileIsNormal'
  BY <1>1, <1>6 DEF Inv, TypeOK, NothingToNormalize, Saved
<1>7. CASE StartFails \/ Exit \/ Damage \/ (\E b \in Booking : Mutate(b)) \/ UNCHANGED vars
  BY <1>2, <1>7 DEF StartFails, Exit, Damage, Mutate, vars, Readable
<1>8. CASE FlushSaves \/ Close
  BY <1>2, <1>6, <1>8 DEF FlushSaves, Close
<1> QED BY <1>3, <1>4, <1>5, <1>7, <1>8 DEF Next

\* Migrations happen once: settings written by this version come back as they
\* were, at every restart.
THEOREM SettingsAreMigratedOnce ==
  Spec /\ (Readable(file) => file.version < CurrentVersion) => SettingsOutliveRestarts
<1>1. Init /\ (Readable(file) => file.version < CurrentVersion) => FileIsNormal
  BY PersistenceAssumption DEF Init, FileIsNormal, Readable
<1>2. ASSUME Inv, FileIsNormal, [Next]_vars,
             phase = "stopped", phase' = "running", Readable(file)
      PROVE  mem' = file \/ (file.version < CurrentVersion /\ file.log = <<>>)
  <2>1. Start
    BY <1>2 DEF Next, StartFails, Update, ResetPassword, Mutate, FlushSaves, Close,
                Exit, Damage, vars
  <2>2. mem' = Normalized(file)
    BY <1>2, <2>1 DEF Start, Loaded
  <2> QED BY <1>2, <2>2 DEF FileIsNormal
<1>3. Inv /\ FileIsNormal /\ [Next]_vars =>
        [phase = "stopped" /\ phase' = "running" /\ Readable(file) =>
           \/ mem' = file
           \/ file.version < CurrentVersion /\ file.log = <<>>]_vars
  BY <1>2
<1> QED BY <1>1, <1>3, FileStaysNormal, Invariance, PTL DEF Spec, SettingsOutliveRestarts
=============================================================================
