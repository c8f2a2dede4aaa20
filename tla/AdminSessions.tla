--------------------------- MODULE AdminSessions ---------------------------
(***************************************************************************)
(* The administrators of a service, their sessions and the throttle on     *)
(* failed logins: store/admin.go and the methods of Store about            *)
(* administrators, security.SessionStore, security.Throttle, and the       *)
(* handlers of package admin that use all three.                           *)
(*                                                                         *)
(* Each of the three has a mutex of its own and a handler takes one after  *)
(* the other, so a handler is a request that goes through several steps    *)
(* while others do the same.  Whether a password is right is left to the   *)
(* environment.  Time only shows as the ends of windows, lockouts and      *)
(* sessions; a window (10 minutes) begins with its lockout (15 minutes)    *)
(* at the latest, so it ends first.                                        *)
(***************************************************************************)
EXTENDS Naturals, FiniteSets

CONSTANTS
  Name,        \* user names of administrators
  Source,      \* where logins come from
  Request,     \* handlers that may run at the same time
  MaxUsers,    \* bound: identifiers of administrators in use at one time
  MaxTokens,   \* bound: session tokens in use at one time
  FailureLimit,\* failures before a lockout (5 in the code)
  MaxEntries,  \* sources the throttle remembers (4096)
  MaxSessions  \* sessions kept (512)

ASSUME AdminAssumption ==
  /\ MaxUsers \in Nat /\ MaxTokens \in Nat
  /\ FailureLimit \in Nat \ {0} /\ MaxEntries \in Nat \ {0} /\ MaxSessions \in Nat \ {0}
  /\ IsFiniteSet(Request)

\* Identifiers and tokens are random: a new one is any that nothing in the
\* service still refers to.
User == 1..MaxUsers
Token == 1..MaxTokens

Administrator == [name: Name, super: BOOLEAN, enabled: BOOLEAN]

VARIABLES
  users,     \* Config.Users in memory: identifier -> Administrator
  saved,     \* the same in the file
  sessions,  \* SessionStore.sessions: token -> session
  earlier,   \* pairs of tokens: LastSeen of the first is the earlier one
  entries,   \* Throttle.entries: source -> its failures
  wrong,     \* wrong passwords of a source until its window and lockout are over
  request    \* what every handler is about to do

vars == <<users, saved, sessions, earlier, entries, wrong, request>>
store == <<users, saved>>
sessionVars == <<sessions, earlier>>
login == <<entries, wrong>>

Idle == [at |-> "idle"]

\* What records refer to in a field that not all of them have.
References(records, field) == {x[field] : x \in {y \in records : field \in DOMAIN y}}

Records == {sessions[t] : t \in DOMAIN sessions} \cup {request[r] : r \in Request}

Unused(pool, used) == {x \in pool \ used : \A y \in pool \ used : x <= y}

NewUser ==
  Unused(User, DOMAIN users \cup DOMAIN saved
                 \cup References(Records, "user") \cup References(Records, "who"))

NewToken == Unused(Token, DOMAIN sessions \cup References(Records, "token"))

-----------------------------------------------------------------------------
(* security.Throttle *)

Restricted(f, S) == [x \in DOMAIN f \cap S |-> f[x]]

Without(f, x) == Restricted(f, DOMAIN f \ {x})

With(f, x, value) == [y \in DOMAIN f \cup {x} |-> IF y = x THEN value ELSE f[y]]

LockedOut(s) == s \in DOMAIN entries /\ entries[s].locked

Replaced(s) == s \in DOMAIN entries /\ entries[s].replaced

\* Check, for a source that is not locked out.
Checked(s) ==
  IF s \in DOMAIN entries /\ entries[s].elapsed
  THEN entries' = Without(entries, s) /\ wrong' = [wrong EXCEPT ![s] = 0]
  ELSE UNCHANGED login

\* pruneLocked: what is over goes, and beyond MaxEntries any others.
Pruned(table) ==
  LET kept == {s \in DOMAIN table : table[s].locked \/ ~table[s].elapsed}
  IN {Restricted(table, S) :
        S \in {T \in SUBSET kept : \/ T = kept /\ Cardinality(T) <= MaxEntries
                                   \/ Cardinality(T) = MaxEntries}}

\* An entry counts on until its window is over.
StillCounting(table, s) == s \in DOMAIN table /\ ~table[s].elapsed

\* One more failure in an entry, or the first one of a new entry.  A new one may
\* take the place of one that is still locked, when a login that passed Check
\* before the lockout fails after the window: then the lockout ends early.
\* replaced, history, marks such an entry until it goes.
FailedUpTo(limit, table, s) ==
  LET failures == IF StillCounting(table, s) THEN table[s].failures + 1 ELSE 1
      locks == failures >= limit
  IN With(table, s,
       [failures |-> IF locks THEN 0 ELSE failures,
        locked |-> locks \/ (StillCounting(table, s) /\ table[s].locked),
        elapsed |-> FALSE,
        replaced |-> s \in DOMAIN table /\ (table[s].elapsed \/ table[s].replaced)])

\* Faulty variant: the lockout begins one failure late.
FailedBeyond(table, s) == FailedUpTo(FailureLimit + 1, table, s)

Failed(table, s) == FailedUpTo(FailureLimit, table, s)

-----------------------------------------------------------------------------
(* security.SessionStore *)

\* What pruneLocked leaves.
Live == {t \in DOMAIN sessions : ~sessions[t].lapsed}

\* Faulty variant: the sessions of all users are revoked.
NobodysSessions(u) == {}

\* What RevokeUser leaves.
OthersSessions(u) == {t \in DOMAIN sessions : sessions[t].user # u}

\* Of the sessions only those of T are kept.
Keep(T) ==
  /\ sessions' = Restricted(sessions, T)
  /\ earlier' = earlier \cap (T \X T)

\* Session t takes its place among those of T.  Issue and Lookup read the clock
\* before they lock, so others that came later may be in already.
Places(t, T) ==
  LET order == earlier \cap (T \X T)
  IN  {order \cup (older \X {t}) \cup ({t} \X (T \ older)) :
         older \in {S \in SUBSET T : \A p \in order : p[2] \in S => p[1] \in S}}

Found(t) == t \in Live

\* Lookup of a token that has a session: it sets LastSeen, or removes a session
\* that has lapsed.
Seen(t) ==
  LET others == DOMAIN sessions \ {t}
  IN  \/ Found(t) /\ earlier' \in Places(t, others) /\ UNCHANGED sessions
      \/ ~Found(t) /\ Keep(others)

\* Faulty variant: the cap is one too high.
AboveTheCap(T) ==
  IF Cardinality(T) > MaxSessions
  THEN {t \in T : \E x \in T : <<x, t>> \in earlier} ELSE T

\* Issue at the cap drops the session seen longest ago: the others remain.
MakeRoom(T) ==
  IF Cardinality(T) >= MaxSessions
  THEN {t \in T : \E x \in T : <<x, t>> \in earlier} ELSE T

-----------------------------------------------------------------------------
(* Administrators *)

\* The outcomes of persistLocked, after memory has been changed.
Persisted == saved' = users' \/ UNCHANGED saved

\* u may not log in as before: its sessions, and logins verified but without
\* a session, are outdated from now on.
Outdated(u, x) == IF "user" \in DOMAIN x /\ "mark" \in DOMAIN x /\ x.user = u /\ x.mark = "current"
                  THEN [x EXCEPT !.mark = "outdated"] ELSE x

\* Faulty variant: the handler forgets to revoke.
ThenReport(r, u) ==
  /\ saved' = users'
  /\ sessions' = [t \in DOMAIN sessions |-> Outdated(u, sessions[t])]
  /\ UNCHANGED earlier
  /\ request' = [q \in Request |-> IF q = r THEN Idle ELSE Outdated(u, request[q])]

\* A handler has changed an administrator.  If that was saved, it goes on to
\* revoke the sessions; if not, it reports an error and ends.
ThenRevoke(r, u) ==
  \/ /\ saved' = users'
     /\ sessions' = [t \in DOMAIN sessions |-> Outdated(u, sessions[t])]
     /\ UNCHANGED earlier
     /\ request' = [q \in Request |-> IF q = r THEN [at |-> "revoking", who |-> u]
                                      ELSE Outdated(u, request[q])]
  \/ /\ request' = [request EXCEPT ![r] = Idle]
     /\ UNCHANGED <<saved, sessionVars>>

Supers == {u \in DOMAIN users : users[u].super}

-----------------------------------------------------------------------------
(* Setup and login *)

\* handleSetup up to its body: both checks let it through.
Setup(r, s) ==
  /\ request[r] = Idle
  /\ ~LockedOut(s)
  /\ DOMAIN users = {}
  /\ Checked(s)
  /\ request' = [request EXCEPT ![r] = [at |-> "setup"]]
  /\ UNCHANGED <<store, sessionVars>>

\* CreateSuperAdmin asks again, under the lock.
CreateSuperAdmin(r, u, n) ==
  /\ request[r].at = "setup"
  /\ u \in NewUser
  /\ request' = [request EXCEPT ![r] = Idle]
  /\ IF DOMAIN users # {} THEN UNCHANGED store
     ELSE /\ users' = With(users, u, [name |-> n, super |-> TRUE, enabled |-> TRUE])
          /\ Persisted
  /\ UNCHANGED <<sessionVars, login>>

Login(r, s) ==
  /\ request[r] = Idle
  /\ ~LockedOut(s)
  /\ DOMAIN users # {}
  /\ Checked(s)
  /\ request' = [request EXCEPT ![r] = [at |-> "login", source |-> s]]
  /\ UNCHANGED <<store, sessionVars>>

\* VerifyAdmin: no such name, a disabled administrator or a wrong password ...
VerifyFails(r) ==
  /\ request[r].at = "login"
  /\ request' = [request EXCEPT ![r].at = "failed"]
  /\ wrong' = IF Replaced(request[r].source) THEN wrong
              ELSE [wrong EXCEPT ![request[r].source] = @ + 1]
  /\ UNCHANGED <<store, sessionVars, entries>>

\* ... or a snapshot of the administrator.
Verify(r, u) ==
  /\ request[r].at = "login"
  /\ u \in DOMAIN users
  /\ users[u].enabled
  /\ request' = [request EXCEPT ![r] =
       [at |-> "verified", source |-> request[r].source, user |-> u,
        super |-> users[u].super, name |-> users[u].name, mark |-> "current"]]
  /\ UNCHANGED <<store, sessionVars, login>>

Fail(r) ==
  /\ request[r].at = "failed"
  /\ LET s == request[r].source IN
     \E table \in Pruned(entries) :
       /\ entries' = Failed(table, s)
       /\ wrong' = [x \in Source |->
            IF x \in DOMAIN table \/ x \notin DOMAIN entries THEN wrong[x]
            ELSE IF x = s THEN 1 ELSE 0]
  /\ request' = [request EXCEPT ![r] = Idle]
  /\ UNCHANGED <<store, sessionVars>>

\* Throttle.Reset
Reset(r) ==
  /\ request[r].at = "verified"
  /\ entries' = Without(entries, request[r].source)
  /\ wrong' = [wrong EXCEPT ![request[r].source] = 0]
  /\ request' = [request EXCEPT ![r].at = "issuing"]
  /\ UNCHANGED <<store, sessionVars>>

\* SessionStore.Issue, for the snapshot.  A session that was outdated before
\* it began is marked as late.
Issue(r, t) ==
  /\ request[r].at = "issuing"
  /\ t \in NewToken
  /\ LET kept == MakeRoom(Live) IN
     /\ sessions' = With(Restricted(sessions, kept), t,
          [user |-> request[r].user, super |-> request[r].super,
           name |-> request[r].name, lapsed |-> FALSE,
           mark |-> IF request[r].mark = "outdated" THEN "late" ELSE "current"])
     /\ earlier' \in Places(t, kept)
  /\ request' = [request EXCEPT ![r] = Idle]
  /\ UNCHANGED <<store, login>>

Logout(t) ==
  /\ t \in DOMAIN sessions
  /\ Keep(DOMAIN sessions \ {t})
  /\ UNCHANGED <<store, login, request>>

-----------------------------------------------------------------------------
(* Handlers behind guard and super *)

\* guard: authorize looks the session up; without one the request is refused.
\* Routes that only read end here or after a second lookup.
Guard(r, t) ==
  /\ request[r] = Idle
  /\ t \in DOMAIN sessions
  /\ Seen(t)
  /\ request' = [request EXCEPT ![r] = IF Found(t) THEN [at |-> "guarded", token |-> t]
                                                   ELSE Idle]
  /\ UNCHANGED <<store, login>>

\* super looks the session up again.  A session that ended in between leaves
\* none, which is taken for the management token.
Super(r) ==
  /\ request[r].at = "guarded"
  /\ Seen(request[r].token)
  /\ request' = [request EXCEPT ![r] =
       IF Found(request[r].token) => sessions[request[r].token].super
       THEN [at |-> "admitted"] ELSE Idle]
  /\ UNCHANGED <<store, login>>

\* A request with the management token.
Bearer(r) ==
  /\ request[r] = Idle
  /\ request' = [request EXCEPT ![r] = [at |-> "admitted"]]
  /\ UNCHANGED <<store, sessionVars, login>>

\* handlePassword needs a session.
OwnPassword(r) ==
  /\ request[r].at = "guarded"
  /\ Seen(request[r].token)
  /\ request' = [request EXCEPT ![r] =
       IF ~Found(request[r].token) THEN Idle
       ELSE LET session == sessions[request[r].token]
            IN [at |-> "own", who |-> session.user, name |-> session.name]]
  /\ UNCHANGED <<store, login>>

\* VerifyAdmin by the name in the session, for the current password.
VerifyOwn(r) ==
  /\ request[r].at = "own"
  /\ \/ /\ \E u \in DOMAIN users : users[u].enabled /\ users[u].name = request[r].name
        /\ request' = [request EXCEPT ![r] = [at |-> "changing", who |-> request[r].who]]
     \/ request' = [request EXCEPT ![r] = Idle]
  /\ UNCHANGED <<store, sessionVars, login>>

\* SetAdminPassword, for oneself or by a super administrator.
SetPassword(r, u) ==
  /\ \/ request[r].at = "admitted"
     \/ request[r].at = "changing" /\ request[r].who = u
  /\ UNCHANGED <<users, login>>
  /\ IF u \notin DOMAIN users
     THEN /\ request' = [request EXCEPT ![r] = Idle]
          /\ UNCHANGED <<saved, sessionVars>>
     ELSE ThenRevoke(r, u)

CreateUser(r, u, n, super) ==
  /\ request[r].at = "admitted"
  /\ u \in NewUser
  /\ request' = [request EXCEPT ![r] = Idle]
  /\ IF DOMAIN users = {} \/ \E v \in DOMAIN users : users[v].name = n
     THEN UNCHANGED store
     ELSE /\ users' = With(users, u, [name |-> n, super |-> super, enabled |-> TRUE])
          /\ Persisted
  /\ UNCHANGED <<sessionVars, login>>

EnableUser(r, u) ==
  /\ request[r].at = "admitted"
  /\ u \in DOMAIN users
  /\ users' = [users EXCEPT ![u].enabled = TRUE]
  /\ Persisted
  /\ request' = [request EXCEPT ![r] = Idle]
  /\ UNCHANGED <<sessionVars, login>>

DisableUser(r, u) ==
  /\ request[r].at = "admitted"
  /\ u \in DOMAIN users \ Supers
  /\ users' = [users EXCEPT ![u].enabled = FALSE]
  /\ ThenRevoke(r, u)
  /\ UNCHANGED <<login>>

\* Faulty variant: nobody counts the super administrators.
RemoveAnyUser(r, u) ==
  /\ request[r].at = "admitted"
  /\ u \in DOMAIN users
  /\ users' = Without(users, u)
  /\ ThenRevoke(r, u)
  /\ UNCHANGED login

RemoveUser(r, u) ==
  /\ request[r].at = "admitted"
  /\ u \in DOMAIN users
  /\ u \in Supers => Supers # {u}
  /\ users' = Without(users, u)
  /\ ThenRevoke(r, u)
  /\ UNCHANGED <<login>>

\* SessionStore.RevokeUser
Revoke(r) ==
  /\ request[r].at = "revoking"
  /\ Keep(OthersSessions(request[r].who))
  /\ request' = [request EXCEPT ![r] = Idle]
  /\ UNCHANGED <<store, login>>

-----------------------------------------------------------------------------
(* The background loops, time and restarts *)

\* Store.Flush: a login, or a booking of the gateway, has set the flag.
Flush ==
  /\ saved # users
  /\ saved' = users
  /\ UNCHANGED <<users, sessionVars, login, request>>

\* PruneSessions
Prune ==
  /\ Keep(Live)
  /\ \E table \in Pruned(entries) :
       /\ entries' = table
       /\ wrong' = [s \in Source |->
            IF s \in DOMAIN entries /\ s \notin DOMAIN table THEN 0 ELSE wrong[s]]
  /\ UNCHANGED <<store, request>>

SessionLapses(t) ==
  /\ sessions' = [sessions EXCEPT ![t].lapsed = TRUE]
  /\ UNCHANGED <<store, earlier, login, request>>

WindowEnds(s) ==
  /\ ~entries[s].elapsed
  /\ entries' = [entries EXCEPT ![s].elapsed = TRUE]
  /\ UNCHANGED <<store, sessionVars, wrong, request>>

LockoutEnds(s) ==
  /\ entries[s].locked
  /\ entries[s].elapsed
  /\ entries' = [entries EXCEPT ![s].locked = FALSE]
  /\ UNCHANGED <<store, sessionVars, wrong, request>>

\* initCredentialsLocked may create a first administrator from the environment;
\* `laskah reset-password` may have changed and enabled one meanwhile.
Started(stored) ==
  IF DOMAIN stored = {}
  THEN {stored} \cup {With(stored, u, [name |-> n, super |-> TRUE, enabled |-> TRUE]) :
                        u \in NewUser, n \in Name}
  ELSE {stored} \cup {[stored EXCEPT ![u].enabled = TRUE] : u \in DOMAIN stored}

\* Sessions, the throttle and running handlers are gone.  Load writes the file.
Restart ==
  /\ users' \in Started(saved)
  /\ saved' = users'
  /\ sessions' = <<>> /\ earlier' = {}
  /\ entries' = <<>>
  /\ wrong' = [s \in Source |-> 0]
  /\ request' = [r \in Request |-> Idle]

-----------------------------------------------------------------------------
Init ==
  /\ users = <<>> /\ saved = <<>>
  /\ sessions = <<>> /\ earlier = {}
  /\ entries = <<>> /\ wrong = [s \in Source |-> 0]
  /\ request = [r \in Request |-> Idle]

Next ==
  \/ \E r \in Request :
       \/ \E s \in Source : Setup(r, s) \/ Login(r, s)
       \/ VerifyFails(r) \/ Fail(r) \/ Reset(r)
       \/ \E t \in Token : Issue(r, t) \/ Guard(r, t)
       \/ Super(r) \/ Bearer(r) \/ OwnPassword(r) \/ VerifyOwn(r) \/ Revoke(r)
       \/ \E u \in User :
            \/ Verify(r, u) \/ SetPassword(r, u)
            \/ EnableUser(r, u) \/ DisableUser(r, u) \/ RemoveUser(r, u)
            \/ \E n \in Name : \/ CreateSuperAdmin(r, u, n)
                               \/ \E super \in BOOLEAN : CreateUser(r, u, n, super)
  \/ \E t \in Token : Logout(t)
  \/ Flush
  \/ Prune
  \/ \E t \in DOMAIN sessions : SessionLapses(t)
  \/ \E s \in DOMAIN entries : WindowEnds(s) \/ LockoutEnds(s)
  \/ Restart

Spec == Init /\ [][Next]_vars

-----------------------------------------------------------------------------
(* Properties *)

\* CreateSuperAdmin, CreateAdminUser, SetAdminEnabled and RemoveAdminUser: once
\* the service was set up, it can be administered.  In memory and in the file
\* alike there is a super administrator who is enabled, and a name leads to
\* one administrator, whatever handlers run together, fail to write or die.
Administrable(set) ==
  /\ DOMAIN set # {} => \E u \in DOMAIN set : set[u].super /\ set[u].enabled
  /\ \A u, v \in DOMAIN set : set[u].name = set[v].name => u = v

AlwaysAdministrable == Administrable(users) /\ Administrable(saved)

\* setUserEnabled, deleteUser and the two ways to change a password revoke the
\* sessions of the administrator after the change was saved.  A session that
\* began before such a change is gone, or its handler is about to revoke it.
\* (A login verified before and issued after the revocation is marked "late".)
OutdatedSessionsEnd ==
  \A t \in DOMAIN sessions : sessions[t].mark = "outdated" =>
    \E r \in Request : request[r].at = "revoking" /\ request[r].who = sessions[t].user

\* Throttle: Check comes before the password and Fail after it, so logins under
\* way at one time all pass the same Check.  Until its window and its lockout are
\* over, a login succeeds or too many sources push its entry out, a source gets
\* no more wrong passwords than the limit and one less than the handlers at work.
\* The exception: a login that passed Check before the lockout and fails after
\* the window, while the lockout goes on, lifts it (throttle.go:70), although
\* README.md:563 says 15 minutes.  Replaced marks such entries.
WrongPasswordsBounded ==
  \A s \in Source : s \in DOMAIN entries /\ ~Replaced(s) =>
    wrong[s] <= FailureLimit + Cardinality(Request) - 1

\* Nobody loses a session for somebody else's sake (the comment on
\* handlePassword: "only this account has to log in again"): a session ends
\* when it has lapsed, by logging out, by the revocation of its user, with the
\* process, or as the one unseen for longest when all places are taken.
SessionsEndForAReason ==
  [][\A t \in DOMAIN sessions \ DOMAIN sessions' :
       \/ sessions[t].lapsed
       \/ Logout(t)
       \/ \E r \in Request : Revoke(r) /\ request[r].who = sessions[t].user
       \/ Restart
       \/ /\ \E r \in Request, new \in Token : Issue(r, new)
          /\ Cardinality(Live) >= MaxSessions
          /\ \A x \in Live \ {t} : <<t, x>> \in earlier]_vars

\* SessionStore.Issue makes room for one session at the cap, and does so before
\* it adds one: there are never more than the cap, however late the handlers
\* come with their readings of the clock.
SessionsCapped == Cardinality(DOMAIN sessions) <= MaxSessions
=============================================================================
