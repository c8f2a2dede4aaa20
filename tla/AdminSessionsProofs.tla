-------------------------- MODULE AdminSessionsProofs --------------------------
(***************************************************************************)
(* Theorems about AdminSessions, for any number of administrators,         *)
(* handlers and sources, and any limits.                                   *)
(***************************************************************************)
EXTENDS AdminSessions, FiniteSetTheorems, TLAPS

----------------------------------------------------------------------------
(* Administrators *)

\* CreateSuperAdmin only asks whether there is an administrator, and
\* RemoveAdminUser whether there is another super administrator, not whether
\* that one is enabled.  It is, because SetAdminEnabled spares all of them.
Proper(set) ==
  /\ DOMAIN set \subseteq User /\ set \in [DOMAIN set -> Administrator]
  /\ \A u \in DOMAIN set : set[u].super => set[u].enabled
  /\ Administrable(set)

(* The first administrator is a super administrator. *)
LEMMA FirstIsProper ==
  ASSUME NEW set, DOMAIN set = {}, NEW u \in User, NEW n \in Name
  PROVE  Proper(With(set, u, [name |-> n, super |-> TRUE, enabled |-> TRUE]))
<1> DEFINE one == With(set, u, [name |-> n, super |-> TRUE, enabled |-> TRUE])
<1>1. DOMAIN one = {u} /\ one[u] = [name |-> n, super |-> TRUE, enabled |-> TRUE]
      /\ one = [y \in {u} |-> one[y]]
  BY DEF With
<1> HIDE DEF one
<1>2. one[u] \in Administrator /\ one[u].super = TRUE /\ one[u].enabled = TRUE
  BY <1>1 DEF Administrator
<1> QED
  BY <1>1, <1>2 DEF Proper, Administrable, one

(* A further one takes a name of its own. *)
LEMMA FurtherIsProper ==
  ASSUME NEW set, Proper(set), DOMAIN set # {}, NEW u \in User \ DOMAIN set, NEW n \in Name,
         \A v \in DOMAIN set : set[v].name # n, NEW super \in BOOLEAN
  PROVE  Proper(With(set, u, [name |-> n, super |-> super, enabled |-> TRUE]))
<1> DEFINE admin == [name |-> n, super |-> super, enabled |-> TRUE]
<1> DEFINE more == With(set, u, admin)
<1>1. admin \in Administrator /\ admin.name = n /\ admin.enabled = TRUE
  BY DEF Administrator
<1> HIDE DEF admin
<1>2. /\ DOMAIN more = DOMAIN set \cup {u} /\ more[u] = admin
      /\ \A v \in DOMAIN set : more[v] = set[v]
      /\ more = [y \in DOMAIN set \cup {u} |-> more[y]]
  BY DEF With
<1> HIDE DEF more
<1>3. DOMAIN more \subseteq User /\ more \in [DOMAIN more -> Administrator]
  BY <1>1, <1>2 DEF Proper
<1>4. \A v \in DOMAIN more : more[v].super => more[v].enabled
  BY <1>1, <1>2 DEF Proper
<1>5. Administrable(more)
  BY <1>1, <1>2 DEF Proper, Administrable
<1> QED
  BY <1>3, <1>4, <1>5 DEF Proper, more, admin

(* Enabling one, or disabling one that is no super administrator, keeps the
   rest as it is. *)
LEMMA SwitchedIsProper ==
  ASSUME NEW set, Proper(set), NEW u \in DOMAIN set, NEW on \in BOOLEAN,
         on = TRUE \/ ~set[u].super
  PROVE  Proper([set EXCEPT ![u].enabled = on])
<1> DEFINE new == [set EXCEPT ![u].enabled = on]
<1>1. set \in [DOMAIN set -> Administrator]
  BY DEF Proper
<1>2. /\ DOMAIN new = DOMAIN set /\ new \in [DOMAIN set -> Administrator]
      /\ new[u].enabled = on
      /\ \A v \in DOMAIN set : /\ new[v].name = set[v].name /\ new[v].super = set[v].super
                               /\ v # u => new[v] = set[v]
  BY <1>1 DEF Administrator
<1> HIDE DEF new
<1>3. \A v \in DOMAIN new : new[v].super => new[v].enabled
  BY <1>2 DEF Proper
<1>4. Administrable(new)
  BY <1>2, <1>3 DEF Proper, Administrable
<1> QED
  BY <1>2, <1>3, <1>4 DEF Proper, new

(* The last super administrator stays. *)
LEMMA RestIsProper ==
  ASSUME NEW set, Proper(set), NEW u \in DOMAIN set,
         set[u].super => \E v \in DOMAIN set \ {u} : set[v].super
  PROVE  Proper(Without(set, u))
<1> DEFINE rest == Without(set, u)
<1>1. /\ DOMAIN rest = DOMAIN set \ {u}
      /\ \A v \in DOMAIN rest : rest[v] = set[v]
      /\ rest = [v \in DOMAIN set \ {u} |-> rest[v]]
  BY DEF Without, Restricted
<1> HIDE DEF rest
<1>2. \E v \in DOMAIN set \ {u} : set[v].super
  BY DEF Proper, Administrable
<1>3. Administrable(rest)
  BY <1>1, <1>2 DEF Proper, Administrable
<1>4. rest \in [DOMAIN rest -> Administrator]
  BY <1>1 DEF Proper
<1> QED
  BY <1>1, <1>3, <1>4 DEF Proper, rest

StoreOK == Proper(users) /\ Proper(saved)

(* Writes fail or not: the file has what memory has now, or had before. *)
LEMMA ChangeKeepsStore ==
  ASSUME StoreOK, Proper(users'), saved' = users' \/ saved' = saved
  PROVE  StoreOK'
BY DEF StoreOK, Proper, Administrable, User, Administrator

(* A restart reads the file; it may create a first administrator, or enable one. *)
LEMMA StartedIsProper ==
  ASSUME NEW set, Proper(set), NEW new \in Started(set)
  PROVE  Proper(new)
<1>1. NewUser \subseteq User
  BY DEF NewUser, Unused
<1>2. ASSUME NEW u \in NewUser, NEW n \in Name, DOMAIN set = {},
             new = With(set, u, [name |-> n, super |-> TRUE, enabled |-> TRUE])
      PROVE  Proper(new)
  BY <1>1, <1>2, FirstIsProper
<1>3. ASSUME NEW u \in DOMAIN set, new = [set EXCEPT ![u].enabled = TRUE]
      PROVE  Proper(new)
  BY <1>3, SwitchedIsProper
<1>4. CASE DOMAIN set = {}
  <2> DEFINE one(u, n) == With(set, u, [name |-> n, super |-> TRUE, enabled |-> TRUE])
  <2>1. new \in {set} \cup {one(u, n) : u \in NewUser, n \in Name}
    BY <1>4 DEF Started
  <2>2. ASSUME NEW u \in NewUser, NEW n \in Name, new = one(u, n)
        PROVE  Proper(new)
    BY <1>2, <1>4, <2>2
  <2> HIDE DEF one
  <2>3. CASE \E u \in NewUser, n \in Name : new = one(u, n)
    BY <2>2, <2>3
  <2> QED
    BY <2>1, <2>3
<1>5. CASE DOMAIN set # {}
  BY <1>3, <1>5 DEF Started
<1> QED
  BY <1>4, <1>5

(* Every step keeps the administrators proper, in memory and in the file. *)
LEMMA NextKeepsStore ==
  ASSUME StoreOK, [Next]_vars
  PROVE  StoreOK'
<1>1. CASE UNCHANGED store
  BY <1>1, ChangeKeepsStore DEF store, StoreOK, Proper, Administrable, User, Administrator
<1>2. NewUser \subseteq User \ DOMAIN users
  BY DEF NewUser, Unused
<1>3. ASSUME NEW r \in Request, NEW u \in User, NEW n \in Name, CreateSuperAdmin(r, u, n)
      PROVE  StoreOK'
  <2>1. CASE DOMAIN users = {}
    <3>1. Proper(users')
      BY <1>3, <2>1, FirstIsProper DEF CreateSuperAdmin
    <3> QED
      BY <1>3, <2>1, <3>1, ChangeKeepsStore DEF CreateSuperAdmin, Persisted
  <2> QED
    BY <1>1, <1>3, <2>1 DEF CreateSuperAdmin
<1>4. ASSUME NEW r \in Request, NEW u \in User, NEW n \in Name, NEW super \in BOOLEAN,
             CreateUser(r, u, n, super)
      PROVE  StoreOK'
  <2>1. CASE DOMAIN users # {} /\ \A v \in DOMAIN users : users[v].name # n
    <3>1. Proper(users')
      BY <1>2, <1>4, <2>1, FurtherIsProper DEF CreateUser, StoreOK
    <3> QED
      BY <1>4, <2>1, <3>1, ChangeKeepsStore DEF CreateUser, Persisted
  <2> QED
    BY <1>1, <1>4, <2>1 DEF CreateUser
<1>5. ASSUME NEW r \in Request, NEW u \in User, EnableUser(r, u)
      PROVE  StoreOK'
  <2>1. Proper(users')
    BY <1>5, SwitchedIsProper DEF EnableUser, StoreOK
  <2> QED
    BY <1>5, <2>1, ChangeKeepsStore DEF EnableUser, Persisted
<1>6. ASSUME NEW r \in Request, NEW u \in User, DisableUser(r, u)
      PROVE  StoreOK'
  <2>1. Proper(users')
    BY <1>6, SwitchedIsProper DEF DisableUser, StoreOK, Supers
  <2> QED
    BY <1>6, <2>1, ChangeKeepsStore DEF DisableUser, ThenRevoke
<1>7. ASSUME NEW r \in Request, NEW u \in User, RemoveUser(r, u)
      PROVE  StoreOK'
  <2>1. u \in DOMAIN users /\ (users[u].super => \E v \in DOMAIN users \ {u} : users[v].super)
    BY <1>7 DEF RemoveUser, Supers
  <2>2. Proper(users')
    BY <1>7, <2>1, RestIsProper DEF RemoveUser, StoreOK
  <2> QED
    BY <1>7, <2>2, ChangeKeepsStore DEF RemoveUser, ThenRevoke
<1>8. ASSUME NEW r \in Request, NEW u \in User, SetPassword(r, u)
      PROVE  StoreOK'
  <2>1. users' = users /\ (saved' = users' \/ saved' = saved)
    BY <1>8 DEF SetPassword, ThenRevoke
  <2>2. Proper(users')
    BY <2>1 DEF StoreOK
  <2> QED
    BY <2>1, <2>2, ChangeKeepsStore
<1>9. CASE Flush
  <2>1. Proper(users')
    BY <1>9 DEF Flush, StoreOK
  <2> QED
    BY <1>9, <2>1, ChangeKeepsStore DEF Flush
<1>10. CASE Restart
  <2>1. Proper(users')
    BY <1>10, StartedIsProper DEF Restart, StoreOK
  <2> QED
    BY <1>10, <2>1, ChangeKeepsStore DEF Restart
<1>11. ASSUME NEW r \in Request,
              \/ \E s \in Source : Setup(r, s) \/ Login(r, s)
              \/ VerifyFails(r) \/ Fail(r) \/ Reset(r)
              \/ \E t \in Token : Issue(r, t) \/ Guard(r, t)
              \/ Super(r) \/ Bearer(r) \/ OwnPassword(r) \/ VerifyOwn(r) \/ Revoke(r)
              \/ \E u \in User : Verify(r, u)
       PROVE  StoreOK'
  BY <1>1, <1>11
     DEF Setup, Login, VerifyFails, Fail, Reset, Issue, Guard, Super, Bearer, OwnPassword,
         VerifyOwn, Revoke, Verify
<1>12. CASE \/ \E t \in Token : Logout(t)
            \/ Prune
            \/ \E t \in DOMAIN sessions : SessionLapses(t)
            \/ \E s \in DOMAIN entries : WindowEnds(s) \/ LockoutEnds(s)
  BY <1>1, <1>12 DEF Logout, Prune, SessionLapses, WindowEnds, LockoutEnds
<1>13. CASE UNCHANGED vars
  BY <1>1, <1>13 DEF vars, store
<1> QED
  BY <1>3, <1>4, <1>5, <1>6, <1>7, <1>8, <1>9, <1>10, <1>11, <1>12, <1>13 DEF Next

(* Once the service was set up it can be administered, in memory and after any
   restart, whatever handlers run together, fail to write or die. *)
THEOREM StaysAdministrable == Spec => []AlwaysAdministrable
<1>1. Init => StoreOK
  BY DEF Init, StoreOK, Proper, Administrable
<1>2. StoreOK /\ [Next]_vars => StoreOK'
  BY NextKeepsStore
<1>3. StoreOK => AlwaysAdministrable
  BY DEF StoreOK, Proper, AlwaysAdministrable
<1> QED
  BY <1>1, <1>2, <1>3, PTL DEF Spec
----------------------------------------------------------------------------
(* The throttle *)

Entry == [failures : 0..(FailureLimit - 1), locked : BOOLEAN, elapsed : BOOLEAN,
          replaced : BOOLEAN]

TableOK == wrong \in [Source -> Nat] /\ \A s \in DOMAIN entries : entries[s] \in Entry

\* A request that waits for a password, or has been told that it was wrong,
\* knows its source and nothing else.
RequestOK(x) ==
  "at" \in DOMAIN x /\ (x.at \in {"login", "failed"} => DOMAIN x = {"at", "source"})

RequestsOK == DOMAIN request = Request /\ \A r \in Request : RequestOK(request[r])

Waiting(at, s) == {r \in Request : request[r].at = at /\ request[r].source = s}

Trying(s) == Cardinality(Waiting("login", s))
Failing(s) == Cardinality(Waiting("failed", s))

Open(s) == s \in DOMAIN entries /\ ~entries[s].locked /\ ~entries[s].elapsed

\* While an entry is open, a wrong password is counted in it or its handler is
\* about to count it.  From then on nobody else gets past Check, so the ones
\* that did are all there are.  Nothing is said of an entry that replaced one
\* which was locked.
Counted(s) ==
  /\ s \notin DOMAIN entries => wrong[s] <= Failing(s)
  /\ Open(s) /\ ~Replaced(s) => wrong[s] <= entries[s].failures + Failing(s)
  /\ s \in DOMAIN entries /\ ~Open(s) /\ ~Replaced(s) =>
       wrong[s] + Trying(s) <= FailureLimit + Cardinality(Request) - 1

ThrottleOK == TableOK /\ RequestsOK /\ \A s \in Source : Counted(s)

(* A request waits for one thing at a time. *)
LEMMA WaitingBounded ==
  ASSUME NEW s
  PROVE  /\ IsFiniteSet(Waiting("login", s)) /\ IsFiniteSet(Waiting("failed", s))
         /\ Trying(s) \in Nat /\ Failing(s) \in Nat /\ Cardinality(Request) \in Nat
         /\ Trying(s) + Failing(s) <= Cardinality(Request)
<1>1. /\ Waiting("login", s) \subseteq Request /\ Waiting("failed", s) \subseteq Request
      /\ Waiting("login", s) \cap Waiting("failed", s) = {}
      /\ IsFiniteSet(Request)
  BY AdminAssumption DEF Waiting
<1> DEFINE both == Waiting("login", s) \cup Waiting("failed", s)
<1>2. IsFiniteSet(Waiting("login", s)) /\ IsFiniteSet(Waiting("failed", s))
  BY <1>1, FS_Subset
<1>3. /\ IsFiniteSet(both)
      /\ Cardinality(both) = Trying(s) + Failing(s) - Cardinality(Waiting("login", s) \cap Waiting("failed", s))
  BY <1>2, FS_Union DEF Trying, Failing
<1>4. Cardinality(both) <= Cardinality(Request)
  BY <1>1, FS_Subset
<1>5. Cardinality(Waiting("login", s) \cap Waiting("failed", s)) = 0
  BY <1>1, FS_EmptySet
<1>6. Trying(s) \in Nat /\ Failing(s) \in Nat /\ Cardinality(Request) \in Nat
  BY <1>1, <1>2, FS_CardinalityType DEF Trying, Failing
<1> QED
  BY <1>2, <1>3, <1>4, <1>5, <1>6

\* y waits as x does.
Alike(x, y) ==
  RequestOK(y) /\ (x.at \in {"login", "failed"} \/ y.at \in {"login", "failed"} => y = x)

(* An outdated login is past its password. *)
LEMMA OutdatedIsAlike ==
  ASSUME NEW x, NEW u, RequestOK(x)
  PROVE  Alike(x, Outdated(u, x))
<1>1. CASE ~("user" \in DOMAIN x /\ "mark" \in DOMAIN x /\ x.user = u /\ x.mark = "current")
  BY <1>1 DEF Alike, Outdated
<1>2. CASE "user" \in DOMAIN x /\ "mark" \in DOMAIN x /\ x.user = u /\ x.mark = "current"
  <2> DEFINE y == [x EXCEPT !.mark = "outdated"]
  <2>1. DOMAIN y = DOMAIN x /\ y.at = x.at /\ Outdated(u, x) = y
    BY <1>2 DEF Outdated, RequestOK
  <2>2. x.at \notin {"login", "failed"}
    BY <1>2 DEF RequestOK
  <2> QED
    BY <2>1, <2>2 DEF Alike, RequestOK
<1> QED
  BY <1>1, <1>2

(* What one handler does changes only what it waits for itself. *)
LEMMA OneMoves ==
  ASSUME RequestsOK, NEW r \in Request, DOMAIN request' = Request, RequestOK(request'[r]),
         \A q \in Request \ {r} : Alike(request[q], request'[q])
  PROVE  /\ RequestsOK'
         /\ \A s, at : at \in {"login", "failed"} =>
              Waiting(at, s)' = IF request'[r].at = at /\ request'[r].source = s
                                THEN Waiting(at, s) \cup {r} ELSE Waiting(at, s) \ {r}
<1>1. RequestsOK'
  BY DEF RequestsOK, Alike, RequestOK
<1>2. ASSUME NEW s, NEW at, at \in {"login", "failed"}
      PROVE  Waiting(at, s)' = IF request'[r].at = at /\ request'[r].source = s
                               THEN Waiting(at, s) \cup {r} ELSE Waiting(at, s) \ {r}
  <2>1. \A q \in Request \ {r} :
          (request'[q].at = at /\ request'[q].source = s)
            <=> (request[q].at = at /\ request[q].source = s)
    BY <1>2 DEF Alike
  <2> QED
    BY <2>1 DEF Waiting
<1> QED
  BY <1>1, <1>2

(* A source whose entry goes is counted anew; one whose entry stays is still
   counted while no wrong password is added to it, and nobody gets past Check
   unless the entry is open. *)
LEMMA StillCounted ==
  ASSUME NEW s \in Source, TableOK, TableOK', Counted(s),
         \/ s \notin DOMAIN entries' /\ wrong'[s] = 0
         \/ /\ s \in DOMAIN entries' <=> s \in DOMAIN entries
            /\ s \in DOMAIN entries => entries'[s] = entries[s]
            /\ wrong'[s] = wrong[s]
            /\ Waiting("failed", s)' = Waiting("failed", s)
            /\ \/ Waiting("login", s)' \subseteq Waiting("login", s)
               \/ s \notin DOMAIN entries \/ Open(s)
  PROVE  Counted(s)'
<1>1. Failing(s)' \in Nat
  <2>1. Waiting("failed", s)' \subseteq Request /\ IsFiniteSet(Request)
    BY AdminAssumption DEF Waiting
  <2> QED
    BY <2>1, FS_Subset, FS_CardinalityType DEF Failing
<1>2. CASE s \notin DOMAIN entries' /\ wrong'[s] = 0
  BY <1>1, <1>2 DEF Counted, Open, Replaced
<1>3. CASE /\ s \in DOMAIN entries' <=> s \in DOMAIN entries
           /\ s \in DOMAIN entries => entries'[s] = entries[s]
           /\ wrong'[s] = wrong[s]
           /\ Waiting("failed", s)' = Waiting("failed", s)
           /\ \/ Waiting("login", s)' \subseteq Waiting("login", s)
              \/ s \notin DOMAIN entries \/ Open(s)
  <2>1. Failing(s)' = Failing(s) /\ (Open(s)' <=> Open(s)) /\ (Replaced(s)' <=> Replaced(s))
    BY <1>3 DEF Failing, Open, Replaced
  <2>2. CASE s \notin DOMAIN entries \/ Open(s)
    BY <1>3, <2>1, <2>2 DEF Counted, Open
  <2>3. CASE /\ s \in DOMAIN entries /\ ~Open(s) /\ ~Replaced(s)
             /\ Waiting("login", s)' \subseteq Waiting("login", s)
    <3>1. Trying(s)' <= Trying(s) /\ Trying(s)' \in Nat
      BY <2>3, WaitingBounded, FS_Subset, FS_CardinalityType DEF Trying
    <3>2. wrong[s] \in Nat
      BY DEF TableOK
    <3>3. Trying(s) \in Nat /\ Cardinality(Request) \in Nat /\ FailureLimit \in Nat
      BY WaitingBounded, AdminAssumption
    <3>4. wrong[s] + Trying(s) <= FailureLimit + Cardinality(Request) - 1
      BY <2>3 DEF Counted
    <3>5. wrong'[s] + Trying(s)' <= FailureLimit + Cardinality(Request) - 1
      BY <1>3, <3>1, <3>2, <3>3, <3>4
    <3> QED
      BY <1>3, <2>1, <2>3, <3>5 DEF Counted
  <2>4. CASE s \in DOMAIN entries /\ Replaced(s)
    BY <1>3, <2>1, <2>4 DEF Counted
  <2> QED
    BY <1>3, <2>2, <2>3, <2>4
<1> QED
  BY <1>2, <1>3

(* A step that counts nothing and lets nobody past Check. *)
LEMMA QuietStep ==
  ASSUME ThrottleOK, UNCHANGED login, RequestsOK',
         \A s \in Source : /\ Waiting("failed", s)' = Waiting("failed", s)
                           /\ Waiting("login", s)' \subseteq Waiting("login", s)
  PROVE  ThrottleOK'
<1>1. TableOK'
  BY DEF ThrottleOK, TableOK, login
<1>2. ASSUME NEW s \in Source PROVE Counted(s)'
  BY <1>1, <1>2, StillCounted DEF ThrottleOK, login
<1> QED
  BY <1>1, <1>2 DEF ThrottleOK

(* A handler with nothing to count does something other than to wait. *)
LEMMA QuietMove ==
  ASSUME ThrottleOK, UNCHANGED login, NEW r \in Request, request[r].at # "failed",
         DOMAIN request' = Request, RequestOK(request'[r]),
         request'[r].at \notin {"login", "failed"},
         \A q \in Request \ {r} : Alike(request[q], request'[q])
  PROVE  ThrottleOK'
<1>1. /\ RequestsOK'
      /\ \A s, at : at \in {"login", "failed"} => Waiting(at, s)' = Waiting(at, s) \ {r}
  BY OneMoves DEF ThrottleOK
<1>2. \A s : r \notin Waiting("failed", s)
  BY DEF Waiting
<1> QED
  BY <1>1, <1>2, QuietStep

(* It ends, or goes on, alone ... *)
LEMMA GoesOn ==
  ASSUME ThrottleOK, UNCHANGED login, NEW r \in Request, request[r].at # "failed",
         request' = [request EXCEPT ![r] = request'[r]],
         "at" \in DOMAIN request'[r], request'[r].at \notin {"login", "failed"}
  PROVE  ThrottleOK'
<1>1. DOMAIN request' = Request /\ \A q \in Request \ {r} : request'[q] = request[q]
  BY DEF ThrottleOK, RequestsOK
<1>2. RequestOK(request'[r]) /\ \A q \in Request \ {r} : Alike(request[q], request'[q])
  BY <1>1 DEF ThrottleOK, RequestsOK, RequestOK, Alike
<1> QED
  BY <1>1, <1>2, QuietMove

(* ... or while it outdates the logins of an administrator. *)
LEMMA GoesOnToRevoke ==
  ASSUME ThrottleOK, UNCHANGED login, NEW r \in Request, request[r].at # "failed",
         NEW u, ThenRevoke(r, u)
  PROVE  ThrottleOK'
<1>1. CASE request' = [request EXCEPT ![r] = Idle]
  BY <1>1, GoesOn DEF Idle, ThrottleOK, RequestsOK
<1>2. CASE request' = [q \in Request |-> IF q = r THEN [at |-> "revoking", who |-> u]
                                         ELSE Outdated(u, request[q])]
  <2>1. /\ DOMAIN request' = Request
        /\ request'[r].at = "revoking" /\ RequestOK(request'[r])
    BY <1>2 DEF RequestOK
  <2>2. \A q \in Request \ {r} : Alike(request[q], request'[q])
    BY <1>2, OutdatedIsAlike DEF ThrottleOK, RequestsOK
  <2> QED
    BY <2>1, <2>2, QuietMove
<1> QED
  BY <1>1, <1>2 DEF ThenRevoke

(* Handlers that have nothing to do with the throttle. *)
LEMMA HandlersAreQuiet ==
  ASSUME ThrottleOK, NEW r \in Request,
         \/ \E t \in Token : Issue(r, t) \/ Guard(r, t)
         \/ Super(r) \/ Bearer(r) \/ OwnPassword(r) \/ VerifyOwn(r) \/ Revoke(r)
         \/ \E u \in User :
              \/ Verify(r, u) \/ SetPassword(r, u)
              \/ EnableUser(r, u) \/ DisableUser(r, u) \/ RemoveUser(r, u)
              \/ \E n \in Name : \/ CreateSuperAdmin(r, u, n)
                                 \/ \E super \in BOOLEAN : CreateUser(r, u, n, super)
  PROVE  ThrottleOK'
<1> USE DEF Idle
<1>0. DOMAIN request = Request
  BY DEF ThrottleOK, RequestsOK
<1>1. ASSUME NEW t \in Token, Issue(r, t) PROVE ThrottleOK'
  BY <1>1, <1>0, GoesOn DEF Issue
<1>2. ASSUME NEW t \in Token, Guard(r, t) PROVE ThrottleOK'
  <2>0. request[r].at # "failed" /\ UNCHANGED login
    BY <1>2 DEF Guard
  <2>1. CASE request' = [request EXCEPT ![r] = Idle]
    BY <1>0, <2>0, <2>1, GoesOn
  <2>2. CASE request' = [request EXCEPT ![r] = [at |-> "guarded", token |-> t]]
    BY <1>0, <2>0, <2>2, GoesOn
  <2> QED
    BY <1>2, <2>1, <2>2 DEF Guard
<1>3. CASE Super(r)
  <2>1. CASE Found(request[r].token) => sessions[request[r].token].super
    BY <1>3, <2>1, <1>0, GoesOn DEF Super
  <2>2. CASE ~(Found(request[r].token) => sessions[request[r].token].super)
    BY <1>3, <2>2, <1>0, GoesOn DEF Super
  <2> QED
    BY <2>1, <2>2
<1>4. CASE Bearer(r)
  <2>1. request' = [request EXCEPT ![r] = [at |-> "admitted"]]
        /\ request[r].at # "failed" /\ UNCHANGED login
    BY <1>4 DEF Bearer
  <2> QED
    BY <2>1, <1>0, GoesOn
<1>5. CASE OwnPassword(r)
  <2>1. CASE ~Found(request[r].token)
    BY <1>5, <2>1, <1>0, GoesOn DEF OwnPassword
  <2>2. CASE Found(request[r].token)
    <3> DEFINE x == sessions[request[r].token]
    <3>1. /\ request[r].at = "guarded" /\ UNCHANGED login
          /\ request' = [request EXCEPT ![r] = [at |-> "own", who |-> x.user, name |-> x.name]]
      BY <1>5, <2>2 DEF OwnPassword
    <3> HIDE DEF x
    <3> QED
      BY <3>1, <1>0, GoesOn
  <2> QED
    BY <2>1, <2>2
<1>6. CASE VerifyOwn(r)
  BY <1>6, <1>0, GoesOn DEF VerifyOwn
<1>7. CASE Revoke(r)
  BY <1>7, <1>0, GoesOn DEF Revoke
<1>8. ASSUME NEW u \in User, Verify(r, u) PROVE ThrottleOK'
  BY <1>8, <1>0, GoesOn DEF Verify
<1>9. ASSUME NEW u \in User, SetPassword(r, u) PROVE ThrottleOK'
  BY <1>9, <1>0, GoesOn, <1>0, GoesOnToRevoke DEF SetPassword
<1>10. ASSUME NEW u \in User, EnableUser(r, u) PROVE ThrottleOK'
  BY <1>10, <1>0, GoesOn DEF EnableUser
<1>11. ASSUME NEW u \in User, DisableUser(r, u) \/ RemoveUser(r, u) PROVE ThrottleOK'
  BY <1>11, <1>0, GoesOnToRevoke DEF DisableUser, RemoveUser
<1>12. ASSUME NEW u \in User, NEW n \in Name, CreateSuperAdmin(r, u, n) PROVE ThrottleOK'
  BY <1>12, <1>0, GoesOn DEF CreateSuperAdmin
<1>13. ASSUME NEW u \in User, NEW n \in Name, NEW super \in BOOLEAN, CreateUser(r, u, n, super)
       PROVE ThrottleOK'
  BY <1>13, <1>0, GoesOn DEF CreateUser
<1> QED
  BY <1>1, <1>2, <1>3, <1>4, <1>5, <1>6, <1>7, <1>8, <1>9, <1>10, <1>11, <1>12, <1>13

(* Nothing happens to requests and throttle. *)
LEMMA UnseenStep ==
  ASSUME ThrottleOK, UNCHANGED login, request' = request
  PROVE  ThrottleOK'
BY QuietStep DEF ThrottleOK, RequestsOK, Waiting

(* Requests stay as they are, and whatever goes from the table is counted anew. *)
LEMMA TableShrinks ==
  ASSUME ThrottleOK, TableOK', request' = request,
         \A s \in Source :
           \/ s \notin DOMAIN entries' /\ wrong'[s] = 0
           \/ /\ s \in DOMAIN entries' <=> s \in DOMAIN entries
              /\ s \in DOMAIN entries => entries'[s] = entries[s]
              /\ wrong'[s] = wrong[s]
  PROVE  ThrottleOK'
<1>1. RequestsOK'
  BY DEF ThrottleOK, RequestsOK
<1>2. \A s, at : Waiting(at, s)' = Waiting(at, s)
  BY DEF Waiting
<1>3. ASSUME NEW s \in Source PROVE Counted(s)'
  BY <1>2, <1>3, StillCounted DEF ThrottleOK
<1> QED
  BY <1>1, <1>3 DEF ThrottleOK

(* Check leaves a source that is not locked out without an entry or with an
   open one. *)
LEMMA CheckedTable ==
  ASSUME TableOK, NEW s, ~LockedOut(s), Checked(s)
  PROVE  /\ TableOK'
         /\ \A x \in Source \ {s} :
              /\ x \in DOMAIN entries' <=> x \in DOMAIN entries
              /\ x \in DOMAIN entries => entries'[x] = entries[x]
              /\ wrong'[x] = wrong[x]
         /\ s \in Source =>
              \/ s \notin DOMAIN entries' /\ wrong'[s] = 0
              \/ UNCHANGED login /\ (s \notin DOMAIN entries \/ Open(s))
<1>1. CASE s \in DOMAIN entries /\ entries[s].elapsed
  BY <1>1 DEF TableOK, Checked, Without, Restricted
<1>2. CASE ~(s \in DOMAIN entries /\ entries[s].elapsed)
  BY <1>2 DEF TableOK, Checked, LockedOut, Open, login
<1> QED
  BY <1>1, <1>2

(* Setup and login begin with Check. *)
LEMMA CheckKeepsCounts ==
  ASSUME ThrottleOK, NEW r \in Request, NEW s \in Source, Setup(r, s) \/ Login(r, s)
  PROVE  ThrottleOK'
<1>1. /\ ~LockedOut(s) /\ Checked(s)
      /\ request[r].at = "idle"
      /\ DOMAIN request' = Request
      /\ \/ request'[r] = [at |-> "setup"]
         \/ request'[r] = [at |-> "login", source |-> s]
      /\ \A q \in Request \ {r} : request'[q] = request[q]
  BY DEF Setup, Login, Idle, ThrottleOK, RequestsOK
<1>2. RequestOK(request'[r]) /\ \A q \in Request \ {r} : Alike(request[q], request'[q])
  BY <1>1 DEF ThrottleOK, RequestsOK, RequestOK, Alike
<1>3. /\ RequestsOK'
      /\ \A x : Waiting("failed", x)' = Waiting("failed", x)
      /\ \A x : x # s => Waiting("login", x)' = Waiting("login", x)
  <2>1. \A x : r \notin Waiting("failed", x) /\ r \notin Waiting("login", x)
    BY <1>1 DEF Waiting
  <2>2. ThrottleOK => RequestsOK
    BY DEF ThrottleOK
  <2>3. /\ RequestsOK'
        /\ \A x, at : at \in {"login", "failed"} =>
             Waiting(at, x)' = IF request'[r].at = at /\ request'[r].source = x
                               THEN Waiting(at, x) \cup {r} ELSE Waiting(at, x) \ {r}
    BY <1>1, <1>2, <2>2, OneMoves
  <2>4. request'[r].at # "failed" /\ (request'[r].at = "login" => request'[r].source = s)
    BY <1>1
  <2> QED
    BY <2>1, <2>3, <2>4
<1>4. TableOK'
  BY <1>1, CheckedTable DEF ThrottleOK
<1>5. ASSUME NEW x \in Source, x # s PROVE Counted(x)'
  BY <1>1, <1>3, <1>4, <1>5, CheckedTable, StillCounted DEF ThrottleOK
<1>6. Counted(s)'
  <2>1. CASE s \notin DOMAIN entries' /\ wrong'[s] = 0
    BY <1>4, <2>1, StillCounted DEF ThrottleOK
  <2>2. CASE UNCHANGED login /\ (s \notin DOMAIN entries \/ Open(s))
    BY <1>3, <1>4, <2>2, StillCounted DEF ThrottleOK, login
  <2> QED
    BY <1>1, <2>1, <2>2, CheckedTable DEF ThrottleOK
<1> QED
  BY <1>3, <1>4, <1>5, <1>6 DEF ThrottleOK

(* A wrong password moves a request from those that may have one to those that
   had it. *)
LEMMA VerifyFailsIsCounted ==
  ASSUME ThrottleOK, NEW r \in Request, VerifyFails(r)
  PROVE  ThrottleOK'
<1>0. PICK source : source = request[r].source
  OBVIOUS
<1>1. /\ DOMAIN request' = Request /\ request[r].at = "login"
      /\ request'[r].at = "failed" /\ request'[r].source = source
      /\ DOMAIN request'[r] = {"at", "source"}
      /\ \A q \in Request \ {r} : request'[q] = request[q]
      /\ entries' = entries
      /\ wrong' = IF Replaced(source) THEN wrong ELSE [wrong EXCEPT ![source] = @ + 1]
  BY <1>0 DEF VerifyFails, ThrottleOK, RequestsOK, RequestOK
<1>2. RequestOK(request'[r]) /\ \A q \in Request \ {r} : Alike(request[q], request'[q])
  BY <1>1 DEF ThrottleOK, RequestsOK, RequestOK, Alike
<1>3. /\ RequestsOK'
      /\ \A s, at : at \in {"login", "failed"} =>
           Waiting(at, s)' = IF request'[r].at = at /\ request'[r].source = s
                             THEN Waiting(at, s) \cup {r} ELSE Waiting(at, s) \ {r}
  BY <1>1, <1>2, OneMoves DEF ThrottleOK
<1>4. TableOK'
  <2>1. wrong \in [Source -> Nat] /\ \A s \in DOMAIN entries : entries[s] \in Entry
    BY DEF ThrottleOK, TableOK
  <2>2. \A s \in Source : wrong[s] + 1 \in Nat
    BY <2>1
  <2>3. wrong' \in [Source -> Nat]
    BY <1>1, <2>1, <2>2
  <2> QED
    BY <1>1, <2>1, <2>3 DEF TableOK
<1>5. ASSUME NEW s \in Source, s # source PROVE Counted(s)'
  <2>1. r \notin Waiting("failed", s)
    BY <1>1 DEF Waiting
  <2>2. wrong'[s] = wrong[s]
    BY <1>1, <1>5 DEF ThrottleOK, TableOK
  <2>3. Waiting("failed", s)' = Waiting("failed", s) /\ Waiting("login", s)' \subseteq Waiting("login", s)
    BY <1>1, <1>3, <1>5, <2>1
  <2> QED
    BY <1>1, <1>4, <2>2, <2>3, StillCounted DEF ThrottleOK
<1>6. ASSUME source \in Source, ~Replaced(source) PROVE Counted(source)'
  <2>1. /\ r \in Waiting("login", source) /\ r \notin Waiting("failed", source)
        /\ Waiting("failed", source)' = Waiting("failed", source) \cup {r}
        /\ Waiting("login", source)' = Waiting("login", source) \ {r}
    BY <1>0, <1>1, <1>3 DEF Waiting
  <2>2. Failing(source)' = Failing(source) + 1 /\ Trying(source)' = Trying(source) - 1
    BY <2>1, WaitingBounded, FS_AddElement, FS_RemoveElement DEF Failing, Trying
  <2>3. wrong'[source] = wrong[source] + 1 /\ wrong[source] \in Nat
    BY <1>1, <1>6 DEF ThrottleOK, TableOK
  <2>4. Counted(source) /\ (Open(source)' <=> Open(source))
    BY <1>1, <1>6 DEF ThrottleOK, Open
  <2>5. source \in DOMAIN entries => entries[source].failures \in Nat
    BY AdminAssumption DEF ThrottleOK, TableOK, Entry
  <2>6. /\ Failing(source) \in Nat /\ Trying(source) \in Nat
        /\ Cardinality(Request) \in Nat /\ FailureLimit \in Nat
    BY WaitingBounded, AdminAssumption
  <2>7. Open(source) => source \in DOMAIN entries
    BY DEF Open
  <2> QED
    BY <1>1, <2>2, <2>3, <2>4, <2>5, <2>6, <2>7 DEF Counted
<1>7. ASSUME source \in Source, Replaced(source) PROVE Counted(source)'
  BY <1>1, <1>7 DEF Counted, Replaced
<1> QED
  BY <1>3, <1>4, <1>5, <1>6, <1>7 DEF ThrottleOK

(* Pruning leaves each entry as it is or takes it away. *)
LEMMA PrunedTable ==
  ASSUME NEW table \in Pruned(entries)
  PROVE  /\ DOMAIN table \subseteq DOMAIN entries
         /\ \A s \in DOMAIN table : table[s] = entries[s]
BY DEF Pruned, Restricted

\* What one more failure of s makes of its entry.
Registers(entry, table, s) ==
  LET failures == IF StillCounting(table, s) THEN table[s].failures + 1 ELSE 1
      locked == StillCounting(table, s) /\ table[s].locked
  IN /\ IF FailureLimit <= failures \/ locked THEN entry.locked
        ELSE ~entry.locked /\ ~entry.elapsed /\ entry.failures = failures
     /\ entry.replaced <=> s \in DOMAIN table /\ (table[s].elapsed \/ table[s].replaced)

(* Failed changes the entry of one source. *)
LEMMA FailedEntry ==
  ASSUME NEW table, NEW s, FailureLimit \in Nat \ {0},
         \A x \in DOMAIN table : table[x] \in Entry
  PROVE  /\ DOMAIN Failed(table, s) = DOMAIN table \cup {s}
         /\ \A x \in DOMAIN table \ {s} : Failed(table, s)[x] = table[x]
         /\ Registers(Failed(table, s)[s], table, s)
         /\ \A x \in DOMAIN Failed(table, s) : Failed(table, s)[x] \in Entry
<1> DEFINE failures == IF StillCounting(table, s) THEN table[s].failures + 1 ELSE 1
           locked == StillCounting(table, s) /\ table[s].locked
           replaced == s \in DOMAIN table /\ (table[s].elapsed \/ table[s].replaced)
           entry == [failures |-> IF failures >= FailureLimit THEN 0 ELSE failures,
                     locked |-> failures >= FailureLimit \/ locked,
                     elapsed |-> FALSE, replaced |-> replaced]
<1>1. Failed(table, s) = With(table, s, entry)
  BY DEF Failed, FailedUpTo
<1>2. failures \in Nat \ {0} /\ replaced \in BOOLEAN /\ locked \in BOOLEAN
  BY DEF Entry, StillCounting
<1>3. entry \in Entry
  <2> HIDE DEF failures, replaced, locked
  <2>1. (IF failures >= FailureLimit THEN 0 ELSE failures) \in 0..(FailureLimit - 1)
    BY <1>2
  <2> QED
    BY <1>2, <2>1 DEF Entry
<1>4. /\ DOMAIN With(table, s, entry) = DOMAIN table \cup {s}
      /\ \A x \in DOMAIN table \ {s} : With(table, s, entry)[x] = table[x]
      /\ With(table, s, entry)[s] = entry
  <2> HIDE DEF entry
  <2> QED
    BY DEF With
<1>6. Registers(entry, table, s)
  <2>1. Registers(entry, table, s)
          <=> /\ IF FailureLimit <= failures \/ locked THEN entry.locked
                 ELSE ~entry.locked /\ ~entry.elapsed /\ entry.failures = failures
              /\ entry.replaced <=> replaced
    BY DEF Registers
  <2> HIDE DEF failures, replaced, locked
  <2> QED
    BY <1>2, <2>1
<1> HIDE DEF entry
<1>5. \A x \in DOMAIN Failed(table, s) : Failed(table, s)[x] \in Entry
  BY <1>1, <1>3, <1>4
<1> QED
  BY <1>1, <1>4, <1>5, <1>6

(* Of a source whose password was wrong, a request less is about to count it. *)
LEMMA FailCounts ==
  ASSUME ThrottleOK, NEW r \in Request, Fail(r)
  PROVE  ThrottleOK'
<1>0. PICK s0 : s0 = request[r].source
  OBVIOUS
<1>1. PICK table \in Pruned(entries) :
        /\ entries' = Failed(table, s0)
        /\ wrong' = [x \in Source |->
             IF x \in DOMAIN table \/ x \notin DOMAIN entries THEN wrong[x]
             ELSE IF x = s0 THEN 1 ELSE 0]
  BY <1>0 DEF Fail
<1>2. /\ DOMAIN request' = Request /\ request[r].at = "failed" /\ request'[r] = Idle
      /\ \A q \in Request \ {r} : request'[q] = request[q]
  BY DEF Fail, ThrottleOK, RequestsOK
<1>3. RequestOK(request'[r]) /\ \A q \in Request \ {r} : Alike(request[q], request'[q])
  BY <1>2 DEF ThrottleOK, RequestsOK, RequestOK, Alike, Idle
<1>4. /\ RequestsOK'
      /\ \A s, at : at \in {"login", "failed"} => Waiting(at, s)' = Waiting(at, s) \ {r}
  <2>1. request'[r].at = "idle"
    BY <1>2 DEF Idle
  <2> QED
    BY <1>2, <1>3, <2>1, OneMoves DEF ThrottleOK
<1>5. /\ DOMAIN table \subseteq DOMAIN entries
      /\ \A s \in DOMAIN table : table[s] = entries[s]
      /\ \A s \in DOMAIN table : table[s] \in Entry
  BY <1>1, PrunedTable DEF ThrottleOK, TableOK
<1>6. /\ DOMAIN entries' = DOMAIN table \cup {s0}
      /\ \A x \in DOMAIN table \ {s0} : entries'[x] = table[x]
      /\ Registers(entries'[s0], table, s0)
      /\ \A x \in DOMAIN entries' : entries'[x] \in Entry
  BY <1>1, <1>5, FailedEntry, AdminAssumption
<1>7. TableOK'
  <2>1. wrong' \in [Source -> Nat]
    BY <1>1 DEF ThrottleOK, TableOK
  <2> QED
    BY <1>6, <2>1 DEF TableOK
<1>8. ASSUME NEW s \in Source, s # s0 PROVE Counted(s)'
  <2>1. r \notin Waiting("failed", s)
    BY <1>0, <1>8 DEF Waiting
  <2>2. Waiting("failed", s)' = Waiting("failed", s) /\ Waiting("login", s)' \subseteq Waiting("login", s)
    BY <1>4, <2>1
  <2>3. CASE s \in DOMAIN entries /\ s \notin DOMAIN table
    <3>1. s \notin DOMAIN entries' /\ wrong'[s] = 0
      BY <1>1, <1>6, <1>8, <2>3
    <3> QED
      BY <1>7, <3>1, StillCounted DEF ThrottleOK
  <2>4. CASE ~(s \in DOMAIN entries /\ s \notin DOMAIN table)
    <3>1. /\ s \in DOMAIN entries' <=> s \in DOMAIN entries
          /\ s \in DOMAIN entries => entries'[s] = entries[s]
          /\ wrong'[s] = wrong[s]
      BY <1>1, <1>5, <1>6, <1>8, <2>4
    <3> QED
      BY <1>7, <2>2, <3>1, StillCounted DEF ThrottleOK
  <2> QED
    BY <2>3, <2>4
<1>9. ASSUME s0 \in Source, ~(s0 \in DOMAIN table /\ (table[s0].elapsed \/ table[s0].replaced))
      PROVE  Counted(s0)'
  <2>1. /\ r \in Waiting("failed", s0)
        /\ Waiting("failed", s0)' = Waiting("failed", s0) \ {r}
        /\ Waiting("login", s0)' = Waiting("login", s0)
    <3>1. r \in Waiting("failed", s0) /\ r \notin Waiting("login", s0)
      BY <1>0, <1>2 DEF Waiting
    <3> QED
      BY <1>4, <3>1
  <2>2. Failing(s0)' = Failing(s0) - 1 /\ Trying(s0)' = Trying(s0)
    BY <2>1, WaitingBounded, FS_RemoveElement DEF Failing, Trying
  <2>3. /\ Failing(s0) \in Nat /\ Trying(s0) \in Nat /\ Failing(s0)' \in Nat
        /\ Cardinality(Request) \in Nat /\ FailureLimit \in Nat \ {0}
        /\ Trying(s0) + Failing(s0) <= Cardinality(Request)
        /\ wrong[s0] \in Nat
    <3>1. Failing(s0)' \in Nat
      BY <2>1, WaitingBounded, FS_RemoveElement, FS_CardinalityType, FS_Subset DEF Failing
    <3> QED
      BY <1>9, <3>1, WaitingBounded, AdminAssumption DEF ThrottleOK, TableOK
  <2>4. s0 \in DOMAIN entries'
    BY <1>6
  <2>5. Counted(s0)
    BY <1>9 DEF ThrottleOK
  <2>6. CASE StillCounting(table, s0)
    <3>1. /\ s0 \in DOMAIN entries /\ table[s0] = entries[s0] /\ entries[s0] \in Entry
          /\ ~entries[s0].elapsed /\ ~Replaced(s0) /\ wrong'[s0] = wrong[s0]
      BY <1>1, <1>5, <1>9, <2>6 DEF StillCounting, Replaced
    <3>2. entries[s0].failures \in 0..(FailureLimit - 1) /\ entries[s0].locked \in BOOLEAN
      BY <3>1 DEF Entry
    <3>3. wrong[s0] + Trying(s0) <= FailureLimit + Cardinality(Request) - 1
      BY <2>3, <2>5, <3>1, <3>2 DEF Counted
    <3>4. CASE FailureLimit <= entries[s0].failures + 1 \/ entries[s0].locked
      <4>1. entries'[s0].locked
        BY <1>6, <2>6, <3>1, <3>4 DEF Registers
      <4>2. ~Open(s0)'
        BY <4>1 DEF Open
      <4> QED
        BY <2>2, <2>4, <3>1, <3>3, <4>2 DEF Counted
    <3>5. CASE ~(FailureLimit <= entries[s0].failures + 1) /\ ~entries[s0].locked
      <4>1. /\ ~entries'[s0].locked /\ ~entries'[s0].elapsed
            /\ entries'[s0].failures = entries[s0].failures + 1
        BY <1>6, <2>6, <3>1, <3>5 DEF Registers
      <4>2. Open(s0) /\ Open(s0)'
        BY <2>4, <3>1, <3>5, <4>1 DEF Open
      <4>3. wrong[s0] <= entries[s0].failures + Failing(s0)
        BY <2>5, <3>1, <4>2 DEF Counted
      <4>4. wrong'[s0] <= entries'[s0].failures + Failing(s0)'
        BY <2>2, <2>3, <3>1, <3>2, <4>1, <4>3
      <4> QED
        BY <2>4, <4>2, <4>4 DEF Counted
    <3> QED
      BY <3>4, <3>5
  <2>7. CASE ~StillCounting(table, s0)
    <3>0. s0 \notin DOMAIN table
      BY <1>9, <2>7 DEF StillCounting
    <3>1. wrong'[s0] \in Nat /\ wrong'[s0] <= Failing(s0)
      <4>1. CASE s0 \notin DOMAIN entries
        BY <1>1, <1>9, <2>3, <2>5, <4>1 DEF Counted
      <4>2. CASE s0 \in DOMAIN entries
        BY <1>1, <1>9, <2>2, <2>3, <3>0, <4>2
      <4> QED
        BY <4>1, <4>2
    <3>2. CASE FailureLimit <= 1
      <4>1. entries'[s0].locked
        BY <1>6, <2>7, <3>2 DEF Registers
      <4>2. ~Open(s0)'
        BY <4>1 DEF Open
      <4>3. wrong'[s0] + Trying(s0)' <= FailureLimit + Cardinality(Request) - 1
        BY <2>2, <2>3, <3>1
      <4> QED
        BY <2>4, <4>2, <4>3 DEF Counted
    <3>3. CASE ~(FailureLimit <= 1)
      <4>1. ~entries'[s0].locked /\ ~entries'[s0].elapsed /\ entries'[s0].failures = 1
        BY <1>6, <2>7, <3>3 DEF Registers
      <4>2. Open(s0)'
        BY <2>4, <4>1 DEF Open
      <4>3. wrong'[s0] <= entries'[s0].failures + Failing(s0)'
        BY <2>2, <2>3, <3>1, <4>1
      <4> QED
        BY <2>4, <4>2, <4>3 DEF Counted
    <3> QED
      BY <3>2, <3>3
  <2> QED
    BY <2>6, <2>7
<1>10. ASSUME s0 \in DOMAIN table, table[s0].elapsed \/ table[s0].replaced
       PROVE  Counted(s0)'
  <2>1. s0 \in DOMAIN entries' /\ entries'[s0].replaced
    BY <1>6, <1>10 DEF Registers
  <2> QED
    BY <2>1 DEF Counted, Replaced
<1> QED
  BY <1>4, <1>7, <1>8, <1>9, <1>10 DEF ThrottleOK

(* After a login the source starts anew. *)
LEMMA ResetKeepsCounts ==
  ASSUME ThrottleOK, NEW r \in Request, Reset(r)
  PROVE  ThrottleOK'
<1>0. PICK s0 : s0 = request[r].source
  OBVIOUS
<1>1. /\ entries' = Without(entries, s0) /\ wrong' = [wrong EXCEPT ![s0] = 0]
      /\ request[r].at = "verified" /\ DOMAIN request' = Request
      /\ "at" \in DOMAIN request'[r] /\ request'[r].at = "issuing"
      /\ \A q \in Request \ {r} : request'[q] = request[q]
  BY <1>0 DEF Reset, ThrottleOK, RequestsOK, RequestOK
<1>2. RequestOK(request'[r]) /\ \A q \in Request \ {r} : Alike(request[q], request'[q])
  BY <1>1 DEF ThrottleOK, RequestsOK, RequestOK, Alike
<1>3. /\ RequestsOK'
      /\ \A s, at : at \in {"login", "failed"} => Waiting(at, s)' = Waiting(at, s)
  <2>1. /\ RequestsOK'
        /\ \A s, at : at \in {"login", "failed"} => Waiting(at, s)' = Waiting(at, s) \ {r}
    BY <1>1, <1>2, OneMoves DEF ThrottleOK
  <2>2. \A s, at : at \in {"login", "failed"} => r \notin Waiting(at, s)
    BY <1>1 DEF Waiting
  <2> QED
    BY <2>1, <2>2
<1>4. TableOK'
  <2>1. wrong' \in [Source -> Nat]
    BY <1>1 DEF ThrottleOK, TableOK
  <2> QED
    BY <1>1, <2>1 DEF ThrottleOK, TableOK, Without, Restricted
<1>5. ASSUME NEW s \in Source PROVE Counted(s)'
  <2>1. \/ s \notin DOMAIN entries' /\ wrong'[s] = 0
        \/ /\ s \in DOMAIN entries' <=> s \in DOMAIN entries
           /\ s \in DOMAIN entries => entries'[s] = entries[s]
           /\ wrong'[s] = wrong[s]
    BY <1>1, <1>5 DEF ThrottleOK, TableOK, Without, Restricted
  <2> QED
    BY <1>3, <1>4, <2>1, StillCounted DEF ThrottleOK
<1> QED
  BY <1>3, <1>4, <1>5 DEF ThrottleOK

(* PruneSessions takes entries with their counts. *)
LEMMA PruneKeepsCounts ==
  ASSUME ThrottleOK, Prune
  PROVE  ThrottleOK'
<1>1. PICK table \in Pruned(entries) :
        /\ entries' = table
        /\ wrong' = [s \in Source |->
             IF s \in DOMAIN entries /\ s \notin DOMAIN table THEN 0 ELSE wrong[s]]
  BY DEF Prune
<1>2. /\ DOMAIN table \subseteq DOMAIN entries
      /\ \A s \in DOMAIN table : table[s] = entries[s]
  BY <1>1, PrunedTable
<1>3. TableOK'
  BY <1>1, <1>2 DEF ThrottleOK, TableOK
<1> QED
  BY <1>1, <1>2, <1>3, TableShrinks DEF Prune

(* When the window ends, or the lockout after it, those under way are still the
   only ones that can have a wrong password. *)
LEMMA TimeKeepsCounts ==
  ASSUME ThrottleOK, NEW s0 \in DOMAIN entries, WindowEnds(s0) \/ LockoutEnds(s0)
  PROVE  ThrottleOK'
<1>1. /\ wrong' = wrong /\ request' = request /\ DOMAIN entries' = DOMAIN entries
      /\ \A s \in DOMAIN entries \ {s0} : entries'[s] = entries[s]
      /\ entries'[s0] \in Entry /\ entries'[s0].elapsed
      /\ entries'[s0].replaced = entries[s0].replaced
  BY DEF WindowEnds, LockoutEnds, ThrottleOK, TableOK, Entry
<1>2. TableOK'
  BY <1>1 DEF ThrottleOK, TableOK
<1>3. \A s, at : Waiting(at, s)' = Waiting(at, s)
  BY <1>1 DEF Waiting
<1>4. ASSUME NEW s \in Source, s # s0 PROVE Counted(s)'
  BY <1>1, <1>2, <1>3, <1>4, StillCounted DEF ThrottleOK
<1>5. ASSUME s0 \in Source, ~Replaced(s0) PROVE Counted(s0)'
  <2>1. ~Open(s0)' /\ Trying(s0)' = Trying(s0)
    BY <1>1, <1>3 DEF Open, Trying
  <2>2. /\ Failing(s0) \in Nat /\ Trying(s0) \in Nat
        /\ Cardinality(Request) \in Nat /\ FailureLimit \in Nat \ {0}
        /\ Trying(s0) + Failing(s0) <= Cardinality(Request)
    BY WaitingBounded, AdminAssumption
  <2>3. wrong[s0] \in Nat /\ entries[s0].failures \in 0..(FailureLimit - 1)
    BY <1>5 DEF ThrottleOK, TableOK, Entry
  <2>4. wrong[s0] + Trying(s0) <= FailureLimit + Cardinality(Request) - 1
    <3>1. CASE Open(s0)
      BY <1>5, <2>2, <2>3, <3>1 DEF ThrottleOK, Counted
    <3>2. CASE ~Open(s0)
      BY <1>5, <3>2 DEF ThrottleOK, Counted
    <3> QED
      BY <3>1, <3>2
  <2> QED
    BY <1>1, <2>1, <2>4 DEF Counted
<1>6. ASSUME s0 \in Source, Replaced(s0) PROVE Counted(s0)'
  BY <1>1, <1>6 DEF Counted, Replaced
<1> QED
  BY <1>1, <1>2, <1>4, <1>5, <1>6 DEF ThrottleOK, RequestsOK

(* When the service starts nobody has tried a password. *)
LEMMA FreshThrottle ==
  ASSUME entries = <<>>, wrong = [s \in Source |-> 0], request = [r \in Request |-> Idle]
  PROVE  ThrottleOK
<1>1. DOMAIN entries = {} /\ TableOK
  BY DEF TableOK
<1>2. RequestsOK
  BY DEF RequestsOK, RequestOK, Idle
<1>3. ASSUME NEW s \in Source PROVE Counted(s)
  BY <1>1, <1>3, WaitingBounded DEF Counted, Open
<1> QED
  BY <1>1, <1>2, <1>3 DEF ThrottleOK

(* Every step keeps the counts. *)
LEMMA NextKeepsCounts ==
  ASSUME ThrottleOK, [Next]_vars
  PROVE  ThrottleOK'
<1>1. ASSUME NEW r \in Request, NEW s \in Source, Setup(r, s) \/ Login(r, s) PROVE ThrottleOK'
  BY <1>1, CheckKeepsCounts
<1>2. ASSUME NEW r \in Request, VerifyFails(r) \/ Fail(r) \/ Reset(r) PROVE ThrottleOK'
  BY <1>2, VerifyFailsIsCounted, FailCounts, ResetKeepsCounts
<1>3. ASSUME NEW r \in Request,
             \/ \E t \in Token : Issue(r, t) \/ Guard(r, t)
             \/ Super(r) \/ Bearer(r) \/ OwnPassword(r) \/ VerifyOwn(r) \/ Revoke(r)
             \/ \E u \in User :
                  \/ Verify(r, u) \/ SetPassword(r, u)
                  \/ EnableUser(r, u) \/ DisableUser(r, u) \/ RemoveUser(r, u)
                  \/ \E n \in Name : \/ CreateSuperAdmin(r, u, n)
                                     \/ \E super \in BOOLEAN : CreateUser(r, u, n, super)
      PROVE ThrottleOK'
  BY <1>3, HandlersAreQuiet
<1>4. ASSUME NEW t \in Token, Logout(t) PROVE ThrottleOK'
  BY <1>4, UnseenStep DEF Logout
<1>5. CASE Flush
  BY <1>5, UnseenStep DEF Flush
<1>6. CASE Prune
  BY <1>6, PruneKeepsCounts
<1>7. ASSUME NEW t \in DOMAIN sessions, SessionLapses(t) PROVE ThrottleOK'
  BY <1>7, UnseenStep DEF SessionLapses
<1>8. ASSUME NEW s \in DOMAIN entries, WindowEnds(s) \/ LockoutEnds(s) PROVE ThrottleOK'
  BY <1>8, TimeKeepsCounts
<1>9. CASE Restart
  <2>1. entries' = <<>> /\ wrong' = [s \in Source |-> 0] /\ request' = [r \in Request |-> Idle]
    BY <1>9 DEF Restart
  <2>2. DOMAIN entries' = {} /\ TableOK'
    BY <2>1 DEF TableOK
  <2>3. RequestsOK'
    BY <2>1 DEF RequestsOK, RequestOK, Idle
  <2>4. ASSUME NEW s \in Source PROVE Counted(s)'
    BY <2>1, <2>2, <2>4, StillCounted DEF ThrottleOK
  <2> QED
    BY <2>2, <2>3, <2>4 DEF ThrottleOK
<1>10. CASE UNCHANGED vars
  BY <1>10, UnseenStep DEF vars, login
<1> QED
  BY <1>1, <1>2, <1>3, <1>4, <1>5, <1>6, <1>7, <1>8, <1>9, <1>10 DEF Next

(* However many logins are under way together, a source has no more wrong
   passwords than the limit and one less than the handlers at work, until its
   window and its lockout are over: for any limit, sources and handlers. *)
THEOREM WrongPasswordsAreBounded == Spec => []WrongPasswordsBounded
<1>1. Init => ThrottleOK
  BY FreshThrottle DEF Init
<1>2. ThrottleOK /\ [Next]_vars => ThrottleOK'
  BY NextKeepsCounts
<1>3. ThrottleOK => WrongPasswordsBounded
  <2> SUFFICES ASSUME ThrottleOK, NEW s \in Source, s \in DOMAIN entries, ~Replaced(s)
               PROVE  wrong[s] <= FailureLimit + Cardinality(Request) - 1
    BY DEF WrongPasswordsBounded
  <2>1. /\ Failing(s) \in Nat /\ Trying(s) \in Nat
        /\ Cardinality(Request) \in Nat /\ FailureLimit \in Nat \ {0}
        /\ Trying(s) + Failing(s) <= Cardinality(Request)
    BY WaitingBounded, AdminAssumption
  <2>2. wrong[s] \in Nat /\ entries[s].failures \in 0..(FailureLimit - 1)
    BY DEF ThrottleOK, TableOK, Entry
  <2>3. CASE Open(s)
    BY <2>1, <2>2, <2>3 DEF ThrottleOK, Counted
  <2>4. CASE ~Open(s)
    BY <2>1, <2>2, <2>4 DEF ThrottleOK, Counted
  <2> QED
    BY <2>3, <2>4
<1> QED
  BY <1>1, <1>2, <1>3, PTL DEF Spec

----------------------------------------------------------------------------
(* Sessions *)

\* LastSeen orders the sessions: of any of them one is the first.
Ordered(R, D) ==
  /\ R \subseteq D \X D
  /\ \A x, y \in D : <<x, y>> \in R => <<y, x>> \notin R
  /\ \A T \in SUBSET D : T # {} => \E x \in T : \A y \in T \ {x} : <<x, y>> \in R

(* Any part of the sessions is ordered likewise. *)
LEMMA PartIsOrdered ==
  ASSUME NEW R, NEW D, Ordered(R, D), NEW T \in SUBSET D
  PROVE  Ordered(R \cap (T \X T), T)
<1> DEFINE S == R \cap (T \X T)
<1>1. S \subseteq T \X T
  OBVIOUS
<1>2. \A x, y \in T : <<x, y>> \in S <=> <<x, y>> \in R
  OBVIOUS
<1> HIDE DEF S
<1>3. \A x, y \in T : <<x, y>> \in S => <<y, x>> \notin S
  BY <1>2 DEF Ordered
<1>4. ASSUME NEW U \in SUBSET T, U # {}
      PROVE  \E x \in U : \A y \in U \ {x} : <<x, y>> \in S
  <2>1. PICK x \in U : \A y \in U \ {x} : <<x, y>> \in R
    BY <1>4 DEF Ordered
  <2> QED
    BY <2>1, <1>2
<1> QED
  BY <1>1, <1>3, <1>4 DEF Ordered, S

(* A session that takes any place among the others leaves them in order. *)
LEMMA PlacesAreOrdered ==
  ASSUME NEW D, Ordered(earlier, D), NEW T \in SUBSET D, NEW t, t \notin T,
         NEW new \in Places(t, T)
  PROVE  Ordered(new, T \cup {t})
<1> DEFINE order == earlier \cap (T \X T)
<1>1. PICK older \in SUBSET T :
        /\ \A p \in order : p[2] \in older => p[1] \in older
        /\ new = order \cup (older \X {t}) \cup ({t} \X (T \ older))
  BY DEF Places
<1>2. Ordered(order, T)
  BY PartIsOrdered
<1>3. \A x, y \in T : <<x, y>> \in order /\ y \in older => x \in older
  BY <1>1
<1>4. order \subseteq T \X T
  OBVIOUS
<1> HIDE DEF order
<1>5. /\ \A x, y \in T : <<x, y>> \in new <=> <<x, y>> \in order
      /\ \A x \in T : (<<x, t>> \in new <=> x \in older) /\ (<<t, x>> \in new <=> x \notin older)
      /\ <<t, t>> \notin new
  BY <1>1, <1>4
<1>6. new \subseteq (T \cup {t}) \X (T \cup {t})
  BY <1>1, <1>4
<1>7. \A x, y \in T \cup {t} : <<x, y>> \in new => <<y, x>> \notin new
  BY <1>2, <1>5 DEF Ordered
<1>8. ASSUME NEW U \in SUBSET (T \cup {t}), U # {}
      PROVE  \E x \in U : \A y \in U \ {x} : <<x, y>> \in new
  <2>1. CASE U = {t}
    BY <2>1
  <2>2. CASE U \ {t} # {}
    <3>1. U \ {t} \in SUBSET T
      OBVIOUS
    <3>2. PICK x \in U \ {t} : \A y \in (U \ {t}) \ {x} : <<x, y>> \in order
      BY <1>2, <2>2, <3>1 DEF Ordered
    <3>3. CASE t \notin U \/ x \in older
      <4>1. ASSUME NEW y \in U \ {x}
            PROVE  <<x, y>> \in new
        <5>1. CASE y = t
          BY <1>5, <3>1, <3>3, <5>1
        <5>2. CASE y # t
          <6>1. <<x, y>> \in order /\ x \in T /\ y \in T
            BY <3>1, <3>2, <5>2
          <6> QED
            BY <1>5, <6>1
        <5> QED
          BY <5>1, <5>2
      <4> QED
        BY <4>1
    <3>4. CASE t \in U /\ x \notin older
      <4>1. \A y \in U \ {t} : y \notin older
        BY <1>3, <3>1, <3>2, <3>4
      <4> QED
        BY <1>5, <3>1, <3>4, <4>1
    <3> QED
      BY <3>3, <3>4
  <2> QED
    BY <1>8, <2>1, <2>2
<1> QED
  BY <1>6, <1>7, <1>8 DEF Ordered

(* At the cap exactly the session seen longest ago makes room. *)
LEMMA OldestMakesRoom ==
  ASSUME NEW D, Ordered(earlier, D), NEW T \in SUBSET D, IsFiniteSet(T),
         Cardinality(T) <= MaxSessions
  PROVE  /\ MakeRoom(T) \subseteq T
         /\ Cardinality(MakeRoom(T)) < MaxSessions
         /\ \A t \in T \ MakeRoom(T) : /\ Cardinality(T) >= MaxSessions
                                       /\ \A x \in T \ {t} : <<t, x>> \in earlier
<1>1. MaxSessions \in Nat \ {0} /\ Cardinality(T) \in Nat
  BY AdminAssumption, FS_CardinalityType
<1>2. CASE Cardinality(T) < MaxSessions
  BY <1>1, <1>2 DEF MakeRoom
<1>3. CASE Cardinality(T) = MaxSessions
  <2>1. T # {}
    BY <1>1, <1>3, FS_EmptySet
  <2>2. PICK o \in T : \A y \in T \ {o} : <<o, y>> \in earlier
    BY <2>1 DEF Ordered
  <2>3. MakeRoom(T) = {t \in T : \E x \in T : <<x, t>> \in earlier}
    BY <1>1, <1>3 DEF MakeRoom
  <2>4. \A x \in T : <<x, o>> \notin earlier
    BY <2>2 DEF Ordered
  <2>5. MakeRoom(T) = T \ {o}
    BY <2>2, <2>3, <2>4
  <2>6. Cardinality(T \ {o}) = Cardinality(T) - 1
    BY FS_RemoveElement
  <2> QED
    BY <1>1, <1>3, <2>2, <2>5, <2>6
<1> QED
  BY <1>1, <1>2, <1>3

\* The sessions are in the order of LastSeen and within the cap.
SessionsOK ==
  /\ DOMAIN sessions \subseteq Token
  /\ \A t \in DOMAIN sessions :
       DOMAIN sessions[t] = {"user", "super", "name", "lapsed", "mark"}
  /\ Ordered(earlier, DOMAIN sessions)
  /\ SessionsCapped

\* A handler that is about to revoke knows whose sessions and nothing else.
RevokersOK ==
  /\ DOMAIN request = Request
  /\ \A r \in Request : /\ "at" \in DOMAIN request[r]
                        /\ request[r].at = "revoking" => DOMAIN request[r] = {"at", "who"}

(* There are finitely many sessions. *)
LEMMA FewSessions ==
  ASSUME SessionsOK, NEW T \in SUBSET DOMAIN sessions
  PROVE  IsFiniteSet(T) /\ Cardinality(T) \in Nat /\ Cardinality(T) <= MaxSessions
<1>1. IsFiniteSet(Token)
  BY FS_Interval, AdminAssumption DEF Token
<1>2. IsFiniteSet(DOMAIN sessions) /\ IsFiniteSet(T)
  BY <1>1, FS_Subset DEF SessionsOK
<1>3. Cardinality(T) <= Cardinality(DOMAIN sessions)
  BY <1>2, FS_Subset
<1>4. Cardinality(T) \in Nat /\ Cardinality(DOMAIN sessions) \in Nat /\ MaxSessions \in Nat
  BY <1>2, FS_CardinalityType, AdminAssumption
<1> QED
  BY <1>2, <1>3, <1>4 DEF SessionsOK, SessionsCapped

(* Some sessions end, the others stay as they are. *)
LEMMA KeepStep ==
  ASSUME SessionsOK, NEW T \in SUBSET DOMAIN sessions, Keep(T)
  PROVE  /\ SessionsOK'
         /\ DOMAIN sessions' = T /\ \A t \in T : sessions'[t] = sessions[t]
<1>1. DOMAIN sessions' = T /\ \A t \in T : sessions'[t] = sessions[t]
  BY DEF Keep, Restricted
<1>2. Ordered(earlier', T)
  BY PartIsOrdered DEF Keep, SessionsOK
<1>3. Cardinality(T) <= MaxSessions
  BY FewSessions
<1> QED
  BY <1>1, <1>2, <1>3 DEF SessionsOK, SessionsCapped

(* A lookup ends no session but one that has lapsed. *)
LEMMA SeenStep ==
  ASSUME SessionsOK, NEW t, Seen(t)
  PROVE  /\ SessionsOK'
         /\ DOMAIN sessions' \subseteq DOMAIN sessions
         /\ \A x \in DOMAIN sessions' : sessions'[x] = sessions[x]
         /\ \A x \in DOMAIN sessions \ DOMAIN sessions' : x = t /\ sessions[x].lapsed
<1> DEFINE others == DOMAIN sessions \ {t}
<1>1. CASE Found(t) /\ earlier' \in Places(t, others) /\ UNCHANGED sessions
  <2>1. DOMAIN sessions = others \cup {t} /\ Ordered(earlier, DOMAIN sessions)
    BY <1>1 DEF Found, Live, SessionsOK
  <2>2. Ordered(earlier', DOMAIN sessions)
    BY <1>1, <2>1, PlacesAreOrdered
  <2> QED
    BY <1>1, <2>2 DEF SessionsOK, SessionsCapped
<1>2. CASE ~Found(t) /\ Keep(others)
  <2>1. /\ SessionsOK' /\ DOMAIN sessions' = others
        /\ \A x \in others : sessions'[x] = sessions[x]
    BY <1>2, KeepStep
  <2> QED
    BY <1>2, <2>1 DEF Found, Live
<1> QED
  BY <1>1, <1>2 DEF Seen

(* A session that is marked stays the same otherwise. *)
LEMMA OutdatedSession ==
  ASSUME NEW x, NEW u, DOMAIN x = {"user", "super", "name", "lapsed", "mark"}
  PROVE  /\ DOMAIN Outdated(u, x) = DOMAIN x
         /\ Outdated(u, x).user = x.user
         /\ Outdated(u, x).mark = x.mark \/ x.user = u
BY DEF Outdated

(* Issue adds a session, in place of lapsed ones and of the one seen longest
   ago. *)
LEMMA IssueStep ==
  ASSUME SessionsOK, NEW r \in Request, NEW t \in Token, Issue(r, t)
  PROVE  /\ SessionsOK'
         /\ DOMAIN sessions' = MakeRoom(Live) \cup {t}
         /\ t \notin DOMAIN sessions
         /\ \A x \in MakeRoom(Live) : x \in Live /\ sessions'[x] = sessions[x]
         /\ sessions'[t].mark # "outdated"
<1> DEFINE kept == MakeRoom(Live)
<1> DEFINE new == [user |-> request[r].user, super |-> request[r].super,
                   name |-> request[r].name, lapsed |-> FALSE,
                   mark |-> IF request[r].mark = "outdated" THEN "late" ELSE "current"]
<1>1. Live \in SUBSET DOMAIN sessions
  BY DEF Live
<1>2. /\ Ordered(earlier, DOMAIN sessions)
      /\ IsFiniteSet(Live) /\ Cardinality(Live) <= MaxSessions
  BY <1>1, FewSessions DEF SessionsOK
<1>3. kept \subseteq Live /\ Cardinality(kept) < MaxSessions
  BY <1>1, <1>2, OldestMakesRoom
<1>4. t \notin DOMAIN sessions
  BY DEF Issue, NewToken, Unused
<1>5. sessions' = With(Restricted(sessions, kept), t, new) /\ earlier' \in Places(t, kept)
  BY DEF Issue
<1>6. new.mark # "outdated" /\ DOMAIN new = {"user", "super", "name", "lapsed", "mark"}
  OBVIOUS
<1> HIDE DEF kept, new
<1>7. /\ DOMAIN sessions' = kept \cup {t} /\ sessions'[t] = new
      /\ \A x \in kept : sessions'[x] = sessions[x]
  BY <1>1, <1>3, <1>4, <1>5 DEF With, Restricted
<1>8. Ordered(earlier', kept \cup {t})
  BY <1>1, <1>2, <1>3, <1>4, <1>5, PlacesAreOrdered
<1>9. Cardinality(kept \cup {t}) <= MaxSessions
  <2>0. kept \in SUBSET DOMAIN sessions
    BY <1>1, <1>3
  <2>1. IsFiniteSet(kept) /\ Cardinality(kept) \in Nat /\ MaxSessions \in Nat
    BY <2>0, FewSessions, AdminAssumption
  <2>2. t \notin kept
    BY <1>4, <2>0
  <2>4. Cardinality(kept \cup {t}) = Cardinality(kept) + 1
    BY <2>1, <2>2, FS_AddElement
  <2>3. IsFiniteSet(kept \cup {t}) /\ Cardinality(kept \cup {t}) \in Nat
    BY <2>1, FS_AddElement, FS_CardinalityType
  <2> QED
    BY <1>3, <2>1, <2>3, <2>4
<1>10. SessionsOK'
  BY <1>1, <1>3, <1>6, <1>7, <1>8, <1>9 DEF SessionsOK, SessionsCapped
<1> QED
  BY <1>3, <1>4, <1>6, <1>7, <1>10 DEF kept

(* A handler that was not revoking goes on; others may be marked. *)
LEMMA RevokersStay ==
  ASSUME RevokersOK, NEW r \in Request, DOMAIN request' = Request,
         request[r].at # "revoking",
         "at" \in DOMAIN request'[r],
         request'[r].at = "revoking" => DOMAIN request'[r] = {"at", "who"},
         \A q \in Request \ {r} : \/ request'[q] = request[q]
                                  \/ \E u : request'[q] = Outdated(u, request[q])
  PROVE  /\ RevokersOK'
         /\ \A q \in Request : request[q].at = "revoking" => request'[q] = request[q]
<1>1. ASSUME NEW q \in Request \ {r}, NEW u, request'[q] = Outdated(u, request[q])
      PROVE  /\ "at" \in DOMAIN request'[q] /\ DOMAIN request'[q] = DOMAIN request[q]
             /\ request'[q].at = request[q].at
             /\ request[q].at = "revoking" => request'[q] = request[q]
  BY <1>1 DEF RevokersOK, Outdated
<1> QED
  BY <1>1 DEF RevokersOK

(* A step that neither ends a revocation nor outdates a session. *)
LEMMA StillRevoked ==
  ASSUME OutdatedSessionsEnd,
         \A t \in DOMAIN sessions' : sessions'[t].mark = "outdated" =>
           /\ t \in DOMAIN sessions
           /\ sessions[t].mark = "outdated" /\ sessions'[t].user = sessions[t].user,
         \A q \in Request : request[q].at = "revoking" => request'[q] = request[q]
  PROVE  OutdatedSessionsEnd'
BY DEF OutdatedSessionsEnd

\* What keeps every outdated session within reach of a handler that ends it.
SessionInv == SessionsOK /\ RevokersOK /\ OutdatedSessionsEnd

(* A handler's step that leaves the sessions alone. *)
LEMMA SessionsUntouched ==
  ASSUME SessionInv, UNCHANGED sessionVars, RevokersOK',
         \A q \in Request : request[q].at = "revoking" => request'[q] = request[q]
  PROVE  SessionInv'
<1>1. SessionsOK'
  BY DEF SessionInv, SessionsOK, SessionsCapped, sessionVars
<1>2. OutdatedSessionsEnd'
  BY StillRevoked DEF SessionInv, sessionVars
<1> QED
  BY <1>1, <1>2 DEF SessionInv

(* A handler's step that only looks a session up. *)
LEMMA SessionLookedUp ==
  ASSUME SessionInv, NEW t, Seen(t), RevokersOK',
         \A q \in Request : request[q].at = "revoking" => request'[q] = request[q]
  PROVE  SessionInv'
<1>1. /\ SessionsOK'
      /\ DOMAIN sessions' \subseteq DOMAIN sessions
      /\ \A x \in DOMAIN sessions' : sessions'[x] = sessions[x]
  BY SeenStep DEF SessionInv
<1>2. OutdatedSessionsEnd'
  BY <1>1, StillRevoked DEF SessionInv
<1> QED
  BY <1>1, <1>2 DEF SessionInv

(* An administrator was changed: the handler is about to revoke the sessions
   it has just outdated. *)
LEMMA RevocationFollows ==
  ASSUME SessionInv, NEW r \in Request, NEW u, request[r].at # "revoking", ThenRevoke(r, u)
  PROVE  SessionInv'
<1>0. RevokersOK /\ SessionsOK /\ DOMAIN request = Request
  BY DEF SessionInv, RevokersOK
<1>1. CASE /\ request' = [request EXCEPT ![r] = Idle]
           /\ UNCHANGED sessionVars
  <2>1. /\ DOMAIN request' = Request /\ "at" \in DOMAIN request'[r]
        /\ request'[r].at # "revoking" /\ \A q \in Request \ {r} : request'[q] = request[q]
    BY <1>0, <1>1 DEF Idle
  <2> QED
    BY <1>0, <1>1, <2>1, RevokersStay, SessionsUntouched
<1>2. CASE /\ sessions' = [t \in DOMAIN sessions |-> Outdated(u, sessions[t])]
           /\ UNCHANGED earlier
           /\ request' = [q \in Request |-> IF q = r THEN [at |-> "revoking", who |-> u]
                                            ELSE Outdated(u, request[q])]
  <2>1. /\ DOMAIN request' = Request
        /\ request'[r] = [at |-> "revoking", who |-> u]
        /\ \A q \in Request \ {r} : request'[q] = Outdated(u, request[q])
    BY <1>2
  <2>2. /\ "at" \in DOMAIN request'[r] /\ DOMAIN request'[r] = {"at", "who"}
        /\ request'[r].at = "revoking" /\ request'[r].who = u
    BY <2>1
  <2>3. /\ RevokersOK'
        /\ \A q \in Request : request[q].at = "revoking" => request'[q] = request[q]
    BY <1>0, <2>1, <2>2, RevokersStay
  <2>4. /\ DOMAIN sessions' = DOMAIN sessions
        /\ \A t \in DOMAIN sessions :
             /\ DOMAIN sessions'[t] = {"user", "super", "name", "lapsed", "mark"}
             /\ sessions'[t].user = sessions[t].user
             /\ sessions'[t].mark = sessions[t].mark \/ sessions[t].user = u
    BY <1>0, <1>2, OutdatedSession DEF SessionsOK
  <2>5. SessionsOK'
    BY <1>0, <1>2, <2>4 DEF SessionsOK, SessionsCapped
  <2>6. OutdatedSessionsEnd'
    BY <2>2, <2>3, <2>4 DEF SessionInv, OutdatedSessionsEnd
  <2> QED
    BY <2>3, <2>5, <2>6 DEF SessionInv
<1> QED
  BY <1>1, <1>2 DEF ThenRevoke

(* Handlers that leave the sessions alone. *)
LEMMA QuietHandlers ==
  ASSUME SessionInv, NEW r \in Request,
         \/ \E s \in Source : Setup(r, s) \/ Login(r, s)
         \/ VerifyFails(r) \/ Fail(r) \/ Reset(r) \/ Bearer(r) \/ VerifyOwn(r)
         \/ \E u \in User :
              \/ Verify(r, u) \/ EnableUser(r, u)
              \/ \E n \in Name : \/ CreateSuperAdmin(r, u, n)
                                 \/ \E super \in BOOLEAN : CreateUser(r, u, n, super)
  PROVE  SessionInv'
<1>0. RevokersOK /\ DOMAIN request = Request /\ "at" \in DOMAIN request[r]
  BY DEF SessionInv, RevokersOK
<1> DEFINE Moves ==
      /\ UNCHANGED sessionVars
      /\ request[r].at # "revoking"
      /\ DOMAIN request' = Request /\ "at" \in DOMAIN request'[r] /\ request'[r].at # "revoking"
      /\ \A q \in Request \ {r} : request'[q] = request[q]
<1>1. ASSUME NEW s \in Source, Setup(r, s) \/ Login(r, s)
      PROVE  Moves
  BY <1>0, <1>1 DEF Setup, Login, Idle
<1>2. ASSUME VerifyFails(r) \/ Reset(r)
      PROVE  Moves
  BY <1>0, <1>2 DEF VerifyFails, Reset
<1>3. ASSUME Fail(r) \/ Bearer(r) \/ VerifyOwn(r)
      PROVE  Moves
  BY <1>0, <1>3 DEF Fail, Bearer, VerifyOwn, Idle
<1>4. ASSUME NEW u \in User, Verify(r, u) \/ EnableUser(r, u)
      PROVE  Moves
  BY <1>0, <1>4 DEF Verify, EnableUser, Idle
<1>5. ASSUME NEW u \in User, NEW n \in Name, NEW super \in BOOLEAN,
             CreateSuperAdmin(r, u, n) \/ CreateUser(r, u, n, super)
      PROVE  Moves
  BY <1>0, <1>5 DEF CreateSuperAdmin, CreateUser, Idle
<1>6. Moves
  <2> HIDE DEF Moves
  <2> QED
    BY <1>1, <1>2, <1>3, <1>4, <1>5 DEF Moves
<1> QED
  BY <1>0, <1>6, RevokersStay, SessionsUntouched

(* Every step keeps the sessions in order and within the cap, and leaves no
   outdated one that nobody is about to revoke. *)
LEMMA NextKeepsSessions ==
  ASSUME SessionInv, [Next]_vars
  PROVE  SessionInv'
<1>0. /\ SessionsOK /\ RevokersOK /\ OutdatedSessionsEnd /\ DOMAIN request = Request
  BY DEF SessionInv, RevokersOK
<1>1. ASSUME NEW r \in Request,
             \/ \E s \in Source : Setup(r, s) \/ Login(r, s)
             \/ VerifyFails(r) \/ Fail(r) \/ Reset(r) \/ Bearer(r) \/ VerifyOwn(r)
             \/ \E u \in User :
                  \/ Verify(r, u) \/ EnableUser(r, u)
                  \/ \E n \in Name : \/ CreateSuperAdmin(r, u, n)
                                     \/ \E super \in BOOLEAN : CreateUser(r, u, n, super)
      PROVE  SessionInv'
  BY <1>1, QuietHandlers
<1>2. ASSUME NEW r \in Request, NEW t \in Token, Issue(r, t)
      PROVE  SessionInv'
  <2>1. /\ SessionsOK'
        /\ DOMAIN sessions' = MakeRoom(Live) \cup {t}
        /\ \A x \in MakeRoom(Live) : x \in DOMAIN sessions /\ sessions'[x] = sessions[x]
        /\ sessions'[t].mark # "outdated"
    BY <1>0, <1>2, IssueStep DEF Live
  <2>2. /\ request[r].at # "revoking" /\ DOMAIN request' = Request
        /\ "at" \in DOMAIN request'[r] /\ request'[r].at # "revoking"
        /\ \A q \in Request \ {r} : request'[q] = request[q]
    BY <1>0, <1>2 DEF Issue, Idle
  <2>3. RevokersOK' /\ \A q \in Request : request[q].at = "revoking" => request'[q] = request[q]
    BY <1>0, <2>2, RevokersStay
  <2>4. OutdatedSessionsEnd'
    BY <1>0, <2>1, <2>3, StillRevoked
  <2> QED
    BY <2>1, <2>3, <2>4 DEF SessionInv
<1>3. ASSUME NEW r \in Request, NEW t, Seen(t), request[r].at # "revoking",
             DOMAIN request' = Request,
             "at" \in DOMAIN request'[r], request'[r].at # "revoking",
             \A q \in Request \ {r} : request'[q] = request[q]
      PROVE  SessionInv'
  BY <1>0, <1>3, RevokersStay, SessionLookedUp
<1>4. ASSUME NEW r \in Request, NEW t \in Token, Guard(r, t)
      PROVE  SessionInv'
  <2>1. /\ Seen(t) /\ request[r] = Idle
        /\ \/ request' = [request EXCEPT ![r] = Idle]
           \/ request' = [request EXCEPT ![r] = [at |-> "guarded", token |-> t]]
    BY <1>4 DEF Guard
  <2> QED
    BY <1>0, <1>3, <2>1 DEF Idle
<1>5. ASSUME NEW r \in Request, Super(r)
      PROVE  SessionInv'
  <2>1. /\ Seen(request[r].token) /\ request[r].at = "guarded"
        /\ \/ request' = [request EXCEPT ![r] = Idle]
           \/ request' = [request EXCEPT ![r] = [at |-> "admitted"]]
    BY <1>5 DEF Super
  <2> QED
    BY <1>0, <1>3, <2>1 DEF Idle
<1>6. ASSUME NEW r \in Request, OwnPassword(r)
      PROVE  SessionInv'
  <2>1. /\ Seen(request[r].token) /\ request[r].at = "guarded"
        /\ \/ request' = [request EXCEPT ![r] = Idle]
           \/ \E u, n : request' = [request EXCEPT ![r] = [at |-> "own", who |-> u, name |-> n]]
    BY <1>6 DEF OwnPassword
  <2> QED
    BY <1>0, <1>3, <2>1 DEF Idle
<1>7. ASSUME NEW r \in Request, NEW u \in User, SetPassword(r, u)
      PROVE  SessionInv'
  <2>1. request[r].at # "revoking"
    BY <1>7 DEF SetPassword
  <2>2. CASE u \notin DOMAIN users
    <3>1. request' = [request EXCEPT ![r] = Idle] /\ UNCHANGED sessionVars
      BY <1>7, <2>2 DEF SetPassword
    <3>2. /\ DOMAIN request' = Request /\ "at" \in DOMAIN request'[r]
          /\ request'[r].at # "revoking" /\ \A q \in Request \ {r} : request'[q] = request[q]
      BY <1>0, <3>1 DEF Idle
    <3> QED
      BY <1>0, <2>1, <3>1, <3>2, RevokersStay, SessionsUntouched
  <2>3. CASE u \in DOMAIN users
    BY <1>7, <2>1, <2>3, RevocationFollows DEF SetPassword
  <2> QED
    BY <2>2, <2>3
<1>8. ASSUME NEW r \in Request, NEW u \in User, DisableUser(r, u) \/ RemoveUser(r, u)
      PROVE  SessionInv'
  BY <1>8, RevocationFollows DEF DisableUser, RemoveUser
<1>9. ASSUME NEW r \in Request, Revoke(r)
      PROVE  SessionInv'
  <2>1. /\ request[r].at = "revoking" /\ Keep(OthersSessions(request[r].who))
        /\ request' = [request EXCEPT ![r] = Idle]
    BY <1>9 DEF Revoke
  <2>2. /\ SessionsOK'
        /\ DOMAIN sessions' = OthersSessions(request[r].who)
        /\ \A t \in DOMAIN sessions' : sessions'[t] = sessions[t]
    BY <1>0, <2>1, KeepStep DEF OthersSessions
  <2>3. /\ RevokersOK'
        /\ \A q \in Request \ {r} : request'[q] = request[q]
    BY <1>0, <2>1 DEF RevokersOK, Idle
  <2>4. OutdatedSessionsEnd'
    BY <1>0, <2>2, <2>3 DEF OutdatedSessionsEnd, OthersSessions
  <2> QED
    BY <2>2, <2>3, <2>4 DEF SessionInv
<1>10. ASSUME NEW T \in SUBSET DOMAIN sessions, Keep(T), UNCHANGED request
       PROVE  SessionInv'
  <2>1. SessionsOK' /\ DOMAIN sessions' = T /\ \A t \in T : sessions'[t] = sessions[t]
    BY <1>0, <1>10, KeepStep
  <2>2. OutdatedSessionsEnd'
    BY <1>0, <1>10, <2>1, StillRevoked
  <2> QED
    BY <1>0, <1>10, <2>1, <2>2 DEF SessionInv, RevokersOK
<1>11. ASSUME NEW t \in Token, Logout(t)
       PROVE  SessionInv'
  BY <1>10, <1>11 DEF Logout
<1>12. CASE Prune
  BY <1>10, <1>12 DEF Prune, Live
<1>13. ASSUME NEW t \in DOMAIN sessions, SessionLapses(t)
       PROVE  SessionInv'
  <2>1. /\ DOMAIN sessions' = DOMAIN sessions /\ UNCHANGED <<earlier, request>>
        /\ \A x \in DOMAIN sessions :
             /\ DOMAIN sessions'[x] = DOMAIN sessions[x]
             /\ sessions'[x].user = sessions[x].user /\ sessions'[x].mark = sessions[x].mark
    BY <1>0, <1>13 DEF SessionLapses, SessionsOK
  <2>2. SessionsOK'
    BY <1>0, <2>1 DEF SessionsOK, SessionsCapped
  <2>3. OutdatedSessionsEnd'
    BY <1>0, <2>1, StillRevoked
  <2> QED
    BY <1>0, <2>1, <2>2, <2>3 DEF SessionInv, RevokersOK
<1>14. CASE UNCHANGED <<sessionVars, request>>
  BY <1>0, <1>14, SessionsUntouched DEF RevokersOK
<1>15. CASE Restart
  <2>1. DOMAIN sessions' = {} /\ earlier' = {} /\ request' = [r \in Request |-> Idle]
    BY <1>15 DEF Restart
  <2>2. SessionsOK' /\ OutdatedSessionsEnd'
    BY <2>1, FS_EmptySet, AdminAssumption DEF SessionsOK, SessionsCapped, Ordered, OutdatedSessionsEnd
  <2>3. RevokersOK'
    BY <2>1 DEF RevokersOK, Idle
  <2> QED
    BY <2>2, <2>3 DEF SessionInv
<1>16. CASE Flush \/ \E s \in DOMAIN entries : WindowEnds(s) \/ LockoutEnds(s)
  BY <1>14, <1>16 DEF Flush, WindowEnds, LockoutEnds
<1>17. CASE UNCHANGED vars
  BY <1>14, <1>17 DEF vars, sessionVars
<1> QED
  BY <1>1, <1>2, <1>4, <1>5, <1>6, <1>7, <1>8, <1>9, <1>11, <1>12, <1>13, <1>15, <1>16, <1>17
     DEF Next

(* These hold in all reachable states. *)
LEMMA SessionsInOrder == Spec => []SessionInv
<1>1. Init => SessionInv
  <2> SUFFICES ASSUME Init PROVE SessionInv
    OBVIOUS
  <2>1. DOMAIN sessions = {} /\ earlier = {} /\ request = [r \in Request |-> Idle]
    BY DEF Init
  <2>2. SessionsOK /\ OutdatedSessionsEnd
    BY <2>1, FS_EmptySet, AdminAssumption DEF SessionsOK, SessionsCapped, Ordered, OutdatedSessionsEnd
  <2>3. RevokersOK
    BY <2>1 DEF RevokersOK, Idle
  <2> QED
    BY <2>2, <2>3 DEF SessionInv
<1>2. SessionInv /\ [Next]_vars => SessionInv'
  BY NextKeepsSessions
<1> QED
  BY <1>1, <1>2, PTL DEF Spec

(* A session that began before a saved change of its administrator is gone, or
   a handler is about to revoke it: for any number of administrators, handlers
   and sessions. *)
THEOREM OutdatedSessionsDoEnd == Spec => []OutdatedSessionsEnd
<1>1. SessionInv => OutdatedSessionsEnd
  BY DEF SessionInv
<1> QED
  BY <1>1, SessionsInOrder, PTL

(* Whatever runs together, there are never more sessions than the cap. *)
THEOREM SessionsAreCapped == Spec => []SessionsCapped
<1>1. SessionInv => SessionsCapped
  BY DEF SessionInv, SessionsOK
<1> QED
  BY <1>1, SessionsInOrder, PTL

(* A session only ends because it lapsed or by its owner, its administrator's
   change, a restart, or, at the cap, as the one seen longest ago: whatever the
   order in which handlers came by the lock. *)
THEOREM SessionsOnlyEndForAReason == Spec => SessionsEndForAReason
<1> DEFINE Reason(t) ==
      \/ sessions[t].lapsed
      \/ Logout(t)
      \/ \E r \in Request : Revoke(r) /\ request[r].who = sessions[t].user
      \/ Restart
      \/ /\ \E r \in Request, new \in Token : Issue(r, new)
         /\ Cardinality(Live) >= MaxSessions
         /\ \A x \in Live \ {t} : <<t, x>> \in earlier
<1>1. ASSUME SessionInv, Next, NEW t \in DOMAIN sessions \ DOMAIN sessions'
      PROVE  Reason(t)
  <2>0. SessionsOK
    BY <1>1 DEF SessionInv
  <2>1. ASSUME NEW r \in Request, NEW new \in Token, Issue(r, new)
        PROVE  Reason(t)
    <3>1. t \notin MakeRoom(Live)
      BY <1>1, <2>0, <2>1, IssueStep
    <3>2. CASE t \notin Live
      BY <3>2 DEF Live
    <3>3. CASE t \in Live
      <4>1. Live \in SUBSET DOMAIN sessions /\ Ordered(earlier, DOMAIN sessions)
        BY <2>0 DEF Live, SessionsOK
      <4>2. /\ IsFiniteSet(Live) /\ Cardinality(Live) <= MaxSessions
        BY <2>0, <4>1, FewSessions
      <4>3. /\ Cardinality(Live) >= MaxSessions
            /\ \A x \in Live \ {t} : <<t, x>> \in earlier
        BY <3>1, <3>3, <4>1, <4>2, OldestMakesRoom
      <4> QED
        BY <2>1, <4>3
    <3> QED
      BY <3>2, <3>3
  <2>2. ASSUME NEW x, Seen(x)
        PROVE  Reason(t)
    BY <1>1, <2>0, <2>2, SeenStep
  <2>3. ASSUME NEW r \in Request,
               (\E x \in Token : Guard(r, x)) \/ Super(r) \/ OwnPassword(r)
        PROVE  Reason(t)
    <3>1. \E y : Seen(y)
      BY <2>3 DEF Guard, Super, OwnPassword
    <3> HIDE DEF Reason
    <3> QED
      BY <2>2, <3>1
  <2>4. ASSUME NEW r \in Request, Revoke(r)
        PROVE  Reason(t)
    <3>1. OthersSessions(request[r].who) \in SUBSET DOMAIN sessions
      BY DEF OthersSessions
    <3>2. DOMAIN sessions' = OthersSessions(request[r].who)
      BY <2>0, <2>4, <3>1, KeepStep DEF Revoke
    <3> QED
      BY <1>1, <2>4, <3>2 DEF OthersSessions
  <2>5. ASSUME NEW x \in Token, Logout(x)
        PROVE  Reason(t)
    <3>1. DOMAIN sessions' = DOMAIN sessions \ {x}
      BY <2>0, <2>5, KeepStep DEF Logout
    <3> QED
      BY <1>1, <2>5, <3>1
  <2>6. CASE Prune
    BY <1>1, <2>0, <2>6, KeepStep DEF Prune, Live
  <2>7. CASE Restart
    BY <2>7
  <2>8. CASE DOMAIN sessions' = DOMAIN sessions
    BY <1>1, <2>8
  <2>9. ASSUME NEW x \in DOMAIN sessions, SessionLapses(x)
        PROVE  DOMAIN sessions' = DOMAIN sessions
    BY <2>9 DEF SessionLapses
  <2>10. ASSUME NEW r \in Request, NEW u \in User,
                SetPassword(r, u) \/ DisableUser(r, u) \/ RemoveUser(r, u)
         PROVE  DOMAIN sessions' = DOMAIN sessions
    BY <2>10 DEF SetPassword, DisableUser, RemoveUser, ThenRevoke, sessionVars
  <2>11. ASSUME NEW r \in Request,
                \/ \E s \in Source : Setup(r, s) \/ Login(r, s)
                \/ VerifyFails(r) \/ Fail(r) \/ Reset(r) \/ Bearer(r) \/ VerifyOwn(r)
                \/ \E u \in User :
                     \/ Verify(r, u) \/ EnableUser(r, u)
                     \/ \E n \in Name : \/ CreateSuperAdmin(r, u, n)
                                        \/ \E super \in BOOLEAN : CreateUser(r, u, n, super)
         PROVE  DOMAIN sessions' = DOMAIN sessions
    BY <2>11 DEF Setup, Login, VerifyFails, Fail, Reset, Bearer, VerifyOwn, Verify, EnableUser,
                 CreateSuperAdmin, CreateUser, sessionVars
  <2>12. CASE Flush \/ \E s \in DOMAIN entries : WindowEnds(s) \/ LockoutEnds(s)
    BY <2>8, <2>12 DEF Flush, WindowEnds, LockoutEnds, sessionVars
  <2> HIDE DEF Reason
  <2> QED
    BY <1>1, <2>1, <2>3, <2>4, <2>5, <2>6, <2>7, <2>8, <2>9, <2>10, <2>11, <2>12 DEF Next
<1>2. SessionInv /\ [Next]_vars =>
        [\A t \in DOMAIN sessions \ DOMAIN sessions' : Reason(t)]_vars
  <2> HIDE DEF Reason
  <2> QED
    BY <1>1
<1> QED
  BY <1>2, SessionsInOrder, PTL DEF Spec, SessionsEndForAReason
=============================================================================
