------------------------------- MODULE Accounts --------------------------------
(***************************************************************************)
(* Users, sessions and the sign-in policy (backend/auth/routes.py,         *)
(* auth/dependencies.py, auth/policy.py, admin/routes.py).                 *)
(*                                                                         *)
(* A handler and the check of its caller's session run without an await,   *)
(* so each request is one step; the difficulty is in long sequences of     *)
(* requests of several users.  Time is present as the expiry of sessions   *)
(* and of lockouts.                                                        *)
(***************************************************************************)
EXTENDS Naturals, FiniteSets

CONSTANTS
  Users,         \* user names
  Kept,          \* sessions a login leaves beside the new one (4 in the code)
  Limits,        \* values of maxFailedLogins
  MaxAttempts,   \* the count of wrong passwords stays here, past every limit
  MaxLogins,     \* bound on successful logins
  MaxPasswords   \* bound on the passwords a user sets

ASSUME KeptAssumption == Kept \in Nat
ASSUME LimitsAssumption == Limits # {} /\ Limits \subseteq Nat \ {0}
ASSUME BoundsAssumption ==
  /\ MaxLogins \in Nat /\ MaxPasswords \in Nat \ {0}
  /\ MaxAttempts \in Nat /\ \A n \in Limits : n < MaxAttempts

VARIABLES
  users,       \* rows of the users table
  admins,      \* users with the role administrator
  enabled,     \* users with is_active
  mustChange,  \* users with must_change_password
  password,    \* password[u]: how many times it was set
  attempts,    \* failed_login_attempts
  locked,      \* users whose locked_until lies ahead
  sessions,    \* rows of the sessions table; ids in the order of creation
  logins,      \* id of the newest session
  limit,       \* maxFailedLogins of the policy
  tried        \* history: wrong passwords of u looked at since the last
               \* success or the start of the last lockout

vars == <<users, admins, enabled, mustChange, password, attempts, locked, sessions,
          logins, limit, tried>>
people == <<users, admins, enabled, mustChange, password>>
signIn == <<attempts, locked, tried>>

SessionRows == [id: 1..MaxLogins, user: Users, revoked: BOOLEAN, expired: BOOLEAN,
                password: 1..MaxPasswords]

Init ==
  /\ users = {} /\ admins = {} /\ enabled = {} /\ mustChange = {}
  /\ password = [u \in Users |-> 1]
  /\ attempts = [u \in Users |-> 0]
  /\ locked = {}
  /\ sessions = {} /\ logins = 0
  /\ limit \in Limits
  /\ tried = [u \in Users |-> 0]

-------------------------------------------------------------------------------
(* Signing in *)

\* Mutant: one failure more than the policy says.
LocksOut(n) == n > limit

Locks(n) == n >= limit

\* A wrong password.
LoginFails(u) ==
  LET n == IF attempts[u] < MaxAttempts THEN attempts[u] + 1 ELSE attempts[u] IN
  /\ u \in (users \cap enabled) \ locked
  /\ attempts' = [attempts EXCEPT ![u] = n]
  /\ locked' = IF Locks(n) THEN locked \cup {u} ELSE locked
  /\ tried' = [tried EXCEPT ![u] = IF Locks(n) THEN 0 ELSE @ + 1]
  /\ UNCHANGED <<people, sessions, logins, limit>>

Unrevoked(u) == {s \in sessions : s.user = u /\ ~s.revoked}

\* The sessions of u that a login revokes: all but the newest Kept.
Overflow(u) ==
  {s \in Unrevoked(u) : ~s.expired /\
    Cardinality({t \in Unrevoked(u) : ~t.expired /\ t.id > s.id}) >= Kept}

Revoked(ss) == {[s EXCEPT !.revoked = TRUE] : s \in ss}

\* The right password: expired rows of all users are deleted, the user's oldest
\* sessions revoked and a new one is added.
Opens(u) ==
  LET new == [id |-> logins + 1, user |-> u, revoked |-> FALSE, expired |-> FALSE,
              password |-> password[u]]
      fresh == {s \in sessions : ~s.expired} IN
  /\ logins < MaxLogins
  /\ logins' = logins + 1
  /\ sessions' = (fresh \ Overflow(u)) \cup Revoked(Overflow(u)) \cup {new}
  /\ attempts' = [attempts EXCEPT ![u] = 0]
  /\ tried' = [tried EXCEPT ![u] = 0]
  /\ locked' = locked \ {u}

\* The first credentials of an empty database create the administrator.
Bootstrap(u) ==
  /\ users = {}
  /\ users' = {u} /\ admins' = {u} /\ enabled' = {u} /\ mustChange' = {}
  /\ Opens(u)
  /\ UNCHANGED <<password, limit>>

Login(u) ==
  /\ u \in (users \cap enabled) \ locked
  /\ Opens(u)
  /\ UNCHANGED <<people, limit>>

-------------------------------------------------------------------------------
(* Requests of a session *)

\* get_current_user
Authenticated(s) == s \in sessions /\ ~s.revoked /\ ~s.expired /\ s.user \in users \cap enabled

\* require_permission of an administrator's permission
Permitted(s) == Authenticated(s) /\ s.user \notin mustChange /\ s.user \in admins

Logout(s) ==
  /\ Authenticated(s)
  /\ sessions' = (sessions \ {s}) \cup Revoked({s})
  /\ UNCHANGED <<people, signIn, logins, limit>>

\* Mutant: the sessions opened with the old password stay.
OthersNone(s) == {}

Others(s) == Unrevoked(s.user) \ {s}

ChangePassword(s) ==
  LET u == s.user IN
  /\ Authenticated(s) /\ password[u] < MaxPasswords
  /\ password' = [password EXCEPT ![u] = @ + 1]
  /\ mustChange' = mustChange \ {u}
  /\ sessions' = (sessions \ Others(s)) \cup Revoked(Others(s))
  /\ UNCHANGED <<users, admins, enabled, signIn, logins, limit>>

\* The administrators that would remain without u.
OtherAdministrators(u) == (users \cap enabled \cap admins) \ {u}

\* Mutant: a disabled administrator counts.
KeepsEnabled(u, administrator, active) ==
  u \in enabled \cap admins /\ (~active \/ ~administrator) => (users \cap admins) \ {u} # {}

\* protect_last_administrator
KeepsAdministrator(u, administrator, active) ==
  u \in enabled \cap admins /\ (~active \/ ~administrator) => OtherAdministrators(u) # {}

Put(set, u, member) == IF member THEN set \cup {u} ELSE set \ {u}

CreateUser(s, u, administrator) ==
  /\ Permitted(s) /\ u \notin users
  /\ users' = users \cup {u}
  /\ admins' = Put(admins, u, administrator)
  /\ enabled' = enabled \cup {u}
  /\ mustChange' = mustChange \cup {u}
  /\ UNCHANGED <<password, signIn, sessions, logins, limit>>

\* update_user; sessions of a disabled user are not revoked.
UpdateUser(s, u, administrator, active) ==
  /\ Permitted(s) /\ u \in users
  /\ KeepsAdministrator(u, administrator, active)
  /\ admins' = Put(admins, u, administrator)
  /\ enabled' = Put(enabled, u, active)
  /\ UNCHANGED <<users, mustChange, password, signIn, sessions, logins, limit>>

\* delete_user; the foreign key of the sessions refuses a user with rows there.
DeleteUser(s, u) ==
  /\ Permitted(s) /\ u \in users \ {s.user}
  /\ KeepsAdministrator(u, FALSE, FALSE)
  /\ \A t \in sessions : t.user # u
  /\ users' = users \ {u} /\ admins' = admins \ {u}
  /\ enabled' = enabled \ {u} /\ mustChange' = mustChange \ {u}
  /\ attempts' = [attempts EXCEPT ![u] = 0]
  /\ tried' = [tried EXCEPT ![u] = 0]
  /\ locked' = locked \ {u}
  /\ UNCHANGED <<password, sessions, logins, limit>>

\* update_settings of an administrator, section security
ChangePolicy(s, n) ==
  /\ Authenticated(s) /\ s.user \in admins
  /\ n # limit /\ limit' = n
  /\ UNCHANGED <<people, signIn, sessions, logins>>

-------------------------------------------------------------------------------
(* Time *)

Expire(s) ==
  /\ s \in sessions /\ ~s.expired
  /\ sessions' = (sessions \ {s}) \cup {[s EXCEPT !.expired = TRUE]}
  /\ UNCHANGED <<people, signIn, logins, limit>>

\* A lockout ends; failed_login_attempts stays where it is.
LockEnds(u) ==
  /\ u \in locked
  /\ locked' = locked \ {u}
  /\ UNCHANGED <<people, attempts, tried, sessions, logins, limit>>

Next ==
  \/ \E u \in Users : LoginFails(u) \/ Bootstrap(u) \/ Login(u) \/ LockEnds(u)
  \/ \E s \in sessions :
       \/ Logout(s) \/ ChangePassword(s) \/ Expire(s)
       \/ \E n \in Limits : ChangePolicy(s, n)
       \/ \E u \in Users :
            \/ DeleteUser(s, u)
            \/ \E administrator \in BOOLEAN : CreateUser(s, u, administrator)
            \/ \E administrator, active \in BOOLEAN : UpdateUser(s, u, administrator, active)

Spec == Init /\ [][Next]_vars
===============================================================================
