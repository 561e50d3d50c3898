--------------------------- MODULE AccountsProperties ---------------------------
(* What user administration and sign-in promise. *)
EXTENDS Accounts

TypeOK ==
  /\ {users, admins, enabled, mustChange, locked} \subseteq SUBSET Users
  /\ password \in [Users -> 1..MaxPasswords]
  /\ attempts \in [Users -> Nat] /\ tried \in [Users -> Nat]
  /\ sessions \subseteq SessionRows /\ logins \in 0..MaxLogins
  /\ limit \in Limits

\* No sequence of promotions, demotions, disablings and deletions leaves users
\* without an enabled administrator.
AdministratorRemains == users # {} => users \cap enabled \cap admins # {}

\* A usable session was opened with the user's present password, except the one
\* session from which the password was changed.
OldPasswordIsOut ==
  \A u \in Users : \A s, t \in Unrevoked(u) :
    s.password # password[u] /\ t.password # password[u] => s = t

\* Between two lockouts, and between a success and a lockout, fewer wrong
\* passwords are looked at than the largest limit the policy had, whatever the
\* policy was changed to meanwhile.
LockoutBounds == \A u \in Users : \E n \in Limits : tried[u] < n

\* Does not hold (see the README).  auth/routes.py:77: a fifth login revokes the oldest session.
NextLoginRevokes ==
  \A u \in Users : Cardinality({s \in sessions : s.user = u /\ Authenticated(s)}) <= Kept
===============================================================================
