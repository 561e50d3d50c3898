----------------------------- MODULE AccountsProofs -----------------------------
(***************************************************************************)
(* Proofs about Accounts, for every set of users, number of sessions kept, *)
(* set of limits and length of a history.                                  *)
(***************************************************************************)
EXTENDS AccountsProperties, TLAPS

\* The wrong passwords looked at are among those counted.
Bounded == \A u \in Users : tried[u] <= attempts[u]

IInv == TypeOK /\ Bounded /\ AdministratorRemains /\ OldPasswordIsOut /\ LockoutBounds

-------------------------------------------------------------------------------

\* The initial states: no user, no session, no wrong password.
LEMMA Initially == Init => IInv
<1> USE LimitsAssumption, BoundsAssumption
<1>1. Init => TypeOK
  BY DEF Init, TypeOK
<1>2. Init => Bounded /\ LockoutBounds
  BY DEF Init, Bounded, LockoutBounds
<1>3. Init => AdministratorRemains /\ OldPasswordIsOut
  BY DEF Init, AdministratorRemains, OldPasswordIsOut, Unrevoked
<1> QED
  BY <1>1, <1>2, <1>3 DEF IInv

\* A revoked row is a row of the same user.
LEMMA RevokedRows ==
  ASSUME NEW ss, ss \subseteq SessionRows
  PROVE  /\ Revoked(ss) \subseteq SessionRows
         /\ \A r \in Revoked(ss) : r.revoked /\ \E s \in ss : r.user = s.user
<1>1. ASSUME NEW s \in ss
      PROVE  /\ [s EXCEPT !.revoked = TRUE] \in SessionRows
             /\ [s EXCEPT !.revoked = TRUE].revoked
             /\ [s EXCEPT !.revoked = TRUE].user = s.user
  BY DEF SessionRows
<1> QED
  BY <1>1 DEF Revoked

\* The rows a login revokes are rows of the table.
LEMMA OverflowRows == ASSUME NEW u PROVE Overflow(u) \subseteq sessions
  BY DEF Overflow, Unrevoked

\* The new row of a login.
LEMMA NewRow ==
  ASSUME TypeOK, NEW u \in Users, logins < MaxLogins
  PROVE  [id |-> logins + 1, user |-> u, revoked |-> FALSE, expired |-> FALSE,
          password |-> password[u]] \in SessionRows
<1>1. logins + 1 \in 1..MaxLogins
  BY BoundsAssumption DEF TypeOK
<1>2. password[u] \in 1..MaxPasswords
  BY DEF TypeOK
<1> QED
  BY <1>1, <1>2 DEF SessionRows

\* Every step keeps the types.
LEMMA TypesKept == ASSUME TypeOK, [Next]_vars PROVE TypeOK'
<1> USE LimitsAssumption, BoundsAssumption DEF TypeOK, people, signIn
<1>1. ASSUME NEW u \in Users, LoginFails(u) PROVE TypeOK'
  BY <1>1 DEF LoginFails, Authenticated, Permitted, Put
<1>2. ASSUME NEW u \in Users, Bootstrap(u) PROVE TypeOK'
  <2>1. logins' \in 0..MaxLogins
    BY <1>2 DEF Bootstrap, Opens
  <2>2. Overflow(u) \subseteq SessionRows /\ Revoked(Overflow(u)) \subseteq SessionRows
    BY RevokedRows, OverflowRows
  <2>3. sessions' \subseteq SessionRows
    BY <1>2, <2>2, NewRow DEF Bootstrap, Opens
  <2>4. attempts' \in [Users -> Nat] /\ tried' \in [Users -> Nat] /\ locked' \subseteq Users
    BY <1>2 DEF Bootstrap, Opens
  <2> QED
    BY <1>2, <2>1, <2>3, <2>4 DEF Bootstrap, Opens
<1>3. ASSUME NEW u \in Users, Login(u) PROVE TypeOK'
  <2>1. logins' \in 0..MaxLogins
    BY <1>3 DEF Login, Opens
  <2>2. Overflow(u) \subseteq SessionRows /\ Revoked(Overflow(u)) \subseteq SessionRows
    BY RevokedRows, OverflowRows
  <2>3. sessions' \subseteq SessionRows
    BY <1>3, <2>2, NewRow DEF Login, Opens
  <2>4. attempts' \in [Users -> Nat] /\ tried' \in [Users -> Nat] /\ locked' \subseteq Users
    BY <1>3 DEF Login, Opens
  <2> QED
    BY <1>3, <2>1, <2>3, <2>4 DEF Login, Opens
<1>4. ASSUME NEW u \in Users, LockEnds(u) PROVE TypeOK'
  BY <1>4 DEF LockEnds, Authenticated, Permitted, Put
<1>5. ASSUME NEW s \in sessions, Logout(s) PROVE TypeOK'
  <2>1. Revoked({s}) \subseteq SessionRows
    BY RevokedRows
  <2> QED
    BY <1>5, <2>1 DEF Logout
<1>6. ASSUME NEW s \in sessions, ChangePassword(s) PROVE TypeOK'
  <2>1. Revoked(Others(s)) \subseteq SessionRows
    BY RevokedRows DEF Others, Unrevoked
  <2>2. password' \in [Users -> 1..MaxPasswords]
    BY <1>6 DEF ChangePassword, SessionRows
  <2>3. mustChange' \subseteq Users /\ sessions' \subseteq SessionRows
    BY <1>6, <2>1 DEF ChangePassword
  <2> QED
    BY <1>6, <2>2, <2>3 DEF ChangePassword
<1>7. ASSUME NEW s \in sessions, Expire(s) PROVE TypeOK'
  <2>1. [s EXCEPT !.expired = TRUE] \in SessionRows
    BY DEF SessionRows
  <2> QED
    BY <1>7, <2>1 DEF Expire
<1>8. ASSUME NEW s \in sessions, NEW n \in Limits, ChangePolicy(s, n) PROVE TypeOK'
  BY <1>8 DEF ChangePolicy, Authenticated, Permitted, Put
<1>9. ASSUME NEW s \in sessions, NEW u \in Users, DeleteUser(s, u) PROVE TypeOK'
  BY <1>9 DEF DeleteUser, Authenticated, Permitted, Put
<1>10. ASSUME NEW s \in sessions, NEW u \in Users, NEW administrator \in BOOLEAN,
             CreateUser(s, u, administrator) PROVE TypeOK'
  BY <1>10 DEF CreateUser, Authenticated, Permitted, Put
<1>11. ASSUME NEW s \in sessions, NEW u \in Users, NEW administrator, NEW active,
             UpdateUser(s, u, administrator, active) PROVE TypeOK'
  BY <1>11 DEF UpdateUser, Authenticated, Permitted, Put
<1>12. ASSUME UNCHANGED vars PROVE TypeOK'
  BY <1>12 DEF vars, people, signIn
<1> QED
  BY <1>1, <1>2, <1>3, <1>4, <1>5, <1>6, <1>7, <1>8, <1>9, <1>10, <1>11, <1>12
    DEF Next

\* An administrator who may go leaves another behind; one who creates a user
\* remains.
LEMMA AdministratorKept == ASSUME TypeOK, AdministratorRemains, [Next]_vars PROVE AdministratorRemains'
<1> USE DEF TypeOK, AdministratorRemains, people, signIn
<1>1. ASSUME NEW u \in Users, LoginFails(u) PROVE AdministratorRemains'
  BY <1>1 DEF LoginFails, Authenticated, Permitted, Put, Opens, KeepsAdministrator, OtherAdministrators
<1>2. ASSUME NEW u \in Users, Bootstrap(u) PROVE AdministratorRemains'
  BY <1>2 DEF Bootstrap, Authenticated, Permitted, Put, Opens, KeepsAdministrator, OtherAdministrators
<1>3. ASSUME NEW u \in Users, Login(u) PROVE AdministratorRemains'
  BY <1>3 DEF Login, Authenticated, Permitted, Put, Opens, KeepsAdministrator, OtherAdministrators
<1>4. ASSUME NEW u \in Users, LockEnds(u) PROVE AdministratorRemains'
  BY <1>4 DEF LockEnds, Authenticated, Permitted, Put, Opens, KeepsAdministrator, OtherAdministrators
<1>5. ASSUME NEW s \in sessions, Logout(s) PROVE AdministratorRemains'
  BY <1>5 DEF Logout, Authenticated, Permitted, Put, Opens, KeepsAdministrator, OtherAdministrators
<1>6. ASSUME NEW s \in sessions, ChangePassword(s) PROVE AdministratorRemains'
  BY <1>6 DEF ChangePassword, Authenticated, Permitted, Put, Opens, KeepsAdministrator, OtherAdministrators
<1>7. ASSUME NEW s \in sessions, Expire(s) PROVE AdministratorRemains'
  BY <1>7 DEF Expire, Authenticated, Permitted, Put, Opens, KeepsAdministrator, OtherAdministrators
<1>8. ASSUME NEW s \in sessions, NEW n \in Limits, ChangePolicy(s, n) PROVE AdministratorRemains'
  BY <1>8 DEF ChangePolicy, Authenticated, Permitted, Put, Opens, KeepsAdministrator, OtherAdministrators
<1>9. ASSUME NEW s \in sessions, NEW u \in Users, DeleteUser(s, u) PROVE AdministratorRemains'
  BY <1>9 DEF DeleteUser, Authenticated, Permitted, Put, Opens, KeepsAdministrator, OtherAdministrators
<1>10. ASSUME NEW s \in sessions, NEW u \in Users, NEW administrator \in BOOLEAN,
             CreateUser(s, u, administrator) PROVE AdministratorRemains'
  BY <1>10 DEF CreateUser, Authenticated, Permitted, Put, Opens, KeepsAdministrator, OtherAdministrators
<1>11. ASSUME NEW s \in sessions, NEW u \in Users, NEW administrator, NEW active,
             UpdateUser(s, u, administrator, active) PROVE AdministratorRemains'
  BY <1>11 DEF UpdateUser, Authenticated, Permitted, Put, Opens, KeepsAdministrator, OtherAdministrators
<1>12. ASSUME UNCHANGED vars PROVE AdministratorRemains'
  BY <1>12 DEF vars, people, signIn
<1> QED
  BY <1>1, <1>2, <1>3, <1>4, <1>5, <1>6, <1>7, <1>8, <1>9, <1>10, <1>11, <1>12
    DEF Next

\* A wrong password is counted when it is looked at, and both counts are reset
\* together.
LEMMA CountsKept == ASSUME TypeOK, Bounded, [Next]_vars PROVE Bounded'
<1> USE LimitsAssumption, BoundsAssumption DEF TypeOK, Bounded, people, signIn
<1>1. ASSUME NEW u \in Users, LoginFails(u) PROVE Bounded'
  <2>1. attempts[u] >= MaxAttempts => Locks(attempts[u])
    BY DEF Locks
  <2> QED
    BY <1>1, <2>1 DEF LoginFails
<1>2. ASSUME NEW u \in Users, Bootstrap(u) PROVE Bounded'
  BY <1>2 DEF Bootstrap, Opens, Authenticated, Permitted
<1>3. ASSUME NEW u \in Users, Login(u) PROVE Bounded'
  BY <1>3 DEF Login, Opens, Authenticated, Permitted
<1>4. ASSUME NEW u \in Users, LockEnds(u) PROVE Bounded'
  BY <1>4 DEF LockEnds, Opens, Authenticated, Permitted
<1>5. ASSUME NEW s \in sessions, Logout(s) PROVE Bounded'
  BY <1>5 DEF Logout, Opens, Authenticated, Permitted
<1>6. ASSUME NEW s \in sessions, ChangePassword(s) PROVE Bounded'
  BY <1>6 DEF ChangePassword, Opens, Authenticated, Permitted
<1>7. ASSUME NEW s \in sessions, Expire(s) PROVE Bounded'
  BY <1>7 DEF Expire, Opens, Authenticated, Permitted
<1>8. ASSUME NEW s \in sessions, NEW n \in Limits, ChangePolicy(s, n) PROVE Bounded'
  BY <1>8 DEF ChangePolicy, Opens, Authenticated, Permitted
<1>9. ASSUME NEW s \in sessions, NEW u \in Users, DeleteUser(s, u) PROVE Bounded'
  BY <1>9 DEF DeleteUser, Opens, Authenticated, Permitted
<1>10. ASSUME NEW s \in sessions, NEW u \in Users, NEW administrator \in BOOLEAN,
             CreateUser(s, u, administrator) PROVE Bounded'
  BY <1>10 DEF CreateUser, Opens, Authenticated, Permitted
<1>11. ASSUME NEW s \in sessions, NEW u \in Users, NEW administrator, NEW active,
             UpdateUser(s, u, administrator, active) PROVE Bounded'
  BY <1>11 DEF UpdateUser, Opens, Authenticated, Permitted
<1>12. ASSUME UNCHANGED vars PROVE Bounded'
  BY <1>12 DEF vars, people, signIn
<1> QED
  BY <1>1, <1>2, <1>3, <1>4, <1>5, <1>6, <1>7, <1>8, <1>9, <1>10, <1>11, <1>12
    DEF Next

\* A count that is not yet at the limit is below it when it has been raised.
LEMMA LimitKept == ASSUME TypeOK, Bounded, LockoutBounds, [Next]_vars PROVE LockoutBounds'
<1> USE LimitsAssumption, BoundsAssumption DEF TypeOK, LockoutBounds, people, signIn
<1>1. ASSUME NEW u \in Users, LoginFails(u) PROVE LockoutBounds'
  <2>1. attempts[u] < MaxAttempts /\ ~Locks(attempts[u] + 1) => tried'[u] < limit
    BY <1>1 DEF LoginFails, Locks, Bounded
  <2>2. attempts[u] < MaxAttempts /\ Locks(attempts[u] + 1) => tried'[u] = 0
    BY <1>1 DEF LoginFails
  <2>3. ~(attempts[u] < MaxAttempts) => Locks(attempts[u]) /\ tried'[u] = 0
    BY <1>1 DEF LoginFails, Locks
  <2>4. \A v \in Users \ {u} : tried'[v] = tried[v]
    BY <1>1 DEF LoginFails
  <2> QED
    BY <2>1, <2>2, <2>3, <2>4
<1>2. ASSUME NEW u \in Users, Bootstrap(u) PROVE LockoutBounds'
  BY <1>2 DEF Bootstrap, Opens, Authenticated, Permitted
<1>3. ASSUME NEW u \in Users, Login(u) PROVE LockoutBounds'
  BY <1>3 DEF Login, Opens, Authenticated, Permitted
<1>4. ASSUME NEW u \in Users, LockEnds(u) PROVE LockoutBounds'
  BY <1>4 DEF LockEnds, Opens, Authenticated, Permitted
<1>5. ASSUME NEW s \in sessions, Logout(s) PROVE LockoutBounds'
  BY <1>5 DEF Logout, Opens, Authenticated, Permitted
<1>6. ASSUME NEW s \in sessions, ChangePassword(s) PROVE LockoutBounds'
  BY <1>6 DEF ChangePassword, Opens, Authenticated, Permitted
<1>7. ASSUME NEW s \in sessions, Expire(s) PROVE LockoutBounds'
  BY <1>7 DEF Expire, Opens, Authenticated, Permitted
<1>8. ASSUME NEW s \in sessions, NEW n \in Limits, ChangePolicy(s, n) PROVE LockoutBounds'
  BY <1>8 DEF ChangePolicy, Opens, Authenticated, Permitted
<1>9. ASSUME NEW s \in sessions, NEW u \in Users, DeleteUser(s, u) PROVE LockoutBounds'
  BY <1>9 DEF DeleteUser, Opens, Authenticated, Permitted
<1>10. ASSUME NEW s \in sessions, NEW u \in Users, NEW administrator \in BOOLEAN,
             CreateUser(s, u, administrator) PROVE LockoutBounds'
  BY <1>10 DEF CreateUser, Opens, Authenticated, Permitted
<1>11. ASSUME NEW s \in sessions, NEW u \in Users, NEW administrator, NEW active,
             UpdateUser(s, u, administrator, active) PROVE LockoutBounds'
  BY <1>11 DEF UpdateUser, Opens, Authenticated, Permitted
<1>12. ASSUME UNCHANGED vars PROVE LockoutBounds'
  BY <1>12 DEF vars, people, signIn
<1> QED
  BY <1>1, <1>2, <1>3, <1>4, <1>5, <1>6, <1>7, <1>8, <1>9, <1>10, <1>11, <1>12
    DEF Next

\* A step that only revokes sessions, or opens some with the present password,
\* makes no other session of an old one.
LEMMA OldUnrevoked ==
  ASSUME TypeOK, OldPasswordIsOut, password' = password,
         sessions' \subseteq sessions \cup Revoked(sessions)
                               \cup {t \in sessions' : t.password = password[t.user]}
  PROVE  OldPasswordIsOut'
<1> SUFFICES ASSUME NEW u \in Users, NEW s \in Unrevoked(u)', NEW t \in Unrevoked(u)',
                    s.password # password[u], t.password # password[u]
             PROVE  s = t
  BY DEF OldPasswordIsOut
<1>1. \A r \in Revoked(sessions) : r.revoked
  BY RevokedRows DEF TypeOK
<1> QED
  BY <1>1 DEF OldPasswordIsOut, Unrevoked

\* A change of the password leaves the session it was made from.
LEMMA PasswordsKept == ASSUME TypeOK, OldPasswordIsOut, [Next]_vars PROVE OldPasswordIsOut'
<1> USE DEF people, signIn
<1>1. ASSUME NEW u \in Users, LoginFails(u) PROVE OldPasswordIsOut'
  BY <1>1 DEF LoginFails, OldPasswordIsOut, Unrevoked
<1>2. ASSUME NEW u \in Users, Bootstrap(u) PROVE OldPasswordIsOut'
  <2>1. Revoked(Overflow(u)) \subseteq Revoked(sessions)
    BY OverflowRows DEF Revoked
  <2>2. /\ sessions' \subseteq sessions \cup Revoked(sessions)
                                \cup {t \in sessions' : t.password = password[t.user]}
        /\ password' = password
    BY <1>2, <2>1 DEF Bootstrap, Opens
  <2> QED
    BY <2>2, OldUnrevoked
<1>3. ASSUME NEW u \in Users, Login(u) PROVE OldPasswordIsOut'
  <2>1. Revoked(Overflow(u)) \subseteq Revoked(sessions)
    BY OverflowRows DEF Revoked
  <2>2. /\ sessions' \subseteq sessions \cup Revoked(sessions)
                                \cup {t \in sessions' : t.password = password[t.user]}
        /\ password' = password
    BY <1>3, <2>1 DEF Login, Opens
  <2> QED
    BY <2>2, OldUnrevoked
<1>4. ASSUME NEW u \in Users, LockEnds(u) PROVE OldPasswordIsOut'
  BY <1>4 DEF LockEnds, OldPasswordIsOut, Unrevoked
<1>5. ASSUME NEW s \in sessions, Logout(s) PROVE OldPasswordIsOut'
  <2>1. Revoked({s}) \subseteq Revoked(sessions)
    BY DEF Revoked
  <2>2. /\ sessions' \subseteq sessions \cup Revoked(sessions)
                                \cup {t \in sessions' : t.password = password[t.user]}
        /\ password' = password
    BY <1>5, <2>1 DEF Logout, Opens
  <2> QED
    BY <2>2, OldUnrevoked
<1>6. ASSUME NEW s \in sessions, ChangePassword(s) PROVE OldPasswordIsOut'
  <2>1. Others(s) \subseteq sessions /\ \A t \in Others(s) : t.user = s.user
    BY DEF Others, Unrevoked
  <2>2. \A r \in Revoked(Others(s)) : r.revoked
    BY <2>1, RevokedRows DEF TypeOK
  <2>3. s \in SessionRows /\ s.user \in Users
    BY DEF TypeOK, SessionRows
  <2>4. ASSUME NEW t \in Unrevoked(s.user)' PROVE t = s
    <3>1. t \in sessions \ Others(s) /\ t.user = s.user /\ ~t.revoked
      BY <1>6, <2>2 DEF ChangePassword, Unrevoked
    <3> QED
      BY <3>1 DEF Others, Unrevoked
  <2>5. \A u \in Users \ {s.user} : /\ Unrevoked(u)' \subseteq Unrevoked(u)
                                    /\ password'[u] = password[u]
    BY <1>6, <2>2 DEF ChangePassword, Unrevoked, TypeOK
  <2> QED
    BY <2>4, <2>5 DEF OldPasswordIsOut
<1>7. ASSUME NEW s \in sessions, Expire(s) PROVE OldPasswordIsOut'
  <2> DEFINE old == [s EXCEPT !.expired = TRUE]
  <2>1. /\ old.user = s.user /\ old.password = s.password /\ old.revoked = s.revoked
        /\ sessions' = (sessions \ {s}) \cup {old} /\ password' = password
    BY <1>7 DEF Expire, TypeOK, SessionRows
  <2> HIDE DEF old
  <2>2. ASSUME NEW u \in Users, NEW t \in Unrevoked(u)', NEW r \in Unrevoked(u)',
               t.password # password[u], r.password # password[u]
        PROVE  t = r
    BY <2>1, <2>2 DEF OldPasswordIsOut, Unrevoked
  <2> QED
    BY <2>1, <2>2 DEF OldPasswordIsOut
<1>8. ASSUME NEW s \in sessions, NEW n \in Limits, ChangePolicy(s, n) PROVE OldPasswordIsOut'
  BY <1>8 DEF ChangePolicy, OldPasswordIsOut, Unrevoked
<1>9. ASSUME NEW s \in sessions, NEW u \in Users, DeleteUser(s, u) PROVE OldPasswordIsOut'
  BY <1>9 DEF DeleteUser, OldPasswordIsOut, Unrevoked
<1>10. ASSUME NEW s \in sessions, NEW u \in Users, NEW administrator \in BOOLEAN,
             CreateUser(s, u, administrator) PROVE OldPasswordIsOut'
  BY <1>10 DEF CreateUser, OldPasswordIsOut, Unrevoked
<1>11. ASSUME NEW s \in sessions, NEW u \in Users, NEW administrator, NEW active,
             UpdateUser(s, u, administrator, active) PROVE OldPasswordIsOut'
  BY <1>11 DEF UpdateUser, OldPasswordIsOut, Unrevoked
<1>12. ASSUME UNCHANGED vars PROVE OldPasswordIsOut'
  BY <1>12 DEF vars, people, signIn, OldPasswordIsOut, Unrevoked
<1> QED
  BY <1>1, <1>2, <1>3, <1>4, <1>5, <1>6, <1>7, <1>8, <1>9, <1>10, <1>11, <1>12
    DEF Next

-------------------------------------------------------------------------------

\* The invariant of sign-in and user administration holds in every state.
THEOREM AccountsInvariance == Spec => []IInv
<1>1. IInv /\ [Next]_vars => IInv'
  BY TypesKept, AdministratorKept, CountsKept, LimitKept, PasswordsKept DEF IInv
<1> QED
  BY Initially, <1>1, PTL DEF Spec

\* User administration never ends without an enabled administrator.
THEOREM AdministratorAlways == Spec => []AdministratorRemains
<1>1. IInv => AdministratorRemains
  BY DEF IInv
<1> QED
  BY AccountsInvariance, <1>1, PTL

\* Of the sessions opened with an earlier password at most one is usable.
THEOREM OldPasswordsOut == Spec => []OldPasswordIsOut
<1>1. IInv => OldPasswordIsOut
  BY DEF IInv
<1> QED
  BY AccountsInvariance, <1>1, PTL

\* The lockout bounds the wrong passwords looked at, also when the policy changes.
THEOREM LockoutAlwaysBounds == Spec => []LockoutBounds
<1>1. IInv => LockoutBounds
  BY DEF IInv
<1> QED
  BY AccountsInvariance, <1>1, PTL
===============================================================================
