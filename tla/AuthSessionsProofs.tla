------------------------- MODULE AuthSessionsProofs -------------------------
(***************************************************************************)
(* Proofs about AuthSessions, for any users, login attempts and requests.  *)
(***************************************************************************)
EXTENDS AuthSessions, TLAPS

\* A disabled account whose tokens have been removed has, in flight or in the
\* store, only logins that were in flight when they were removed.
OnlyLateLogins ==
  \A l \in Logins :
    /\ InFlight(l) \/ l \in live
    /\ account[login[l].user] = "disabled"
    /\ ~Purging(login[l].user)
    => late[l]

\* A request between the two middlewares that still has its token belongs to
\* an account that is not disabled, or whose disable is not finished.
CheckedHoldsToken ==
  \A q \in Requests :
    /\ request[q].state = "checked"
    /\ request[q].token \in live
    /\ account[UserOf(q)] = "disabled"
    => Purging(UserOf(q))

\* The inductive invariant.
IInv ==
  /\ TypeOK
  /\ RoleBacked
  /\ OnlyLateLogins
  /\ CheckedHoldsToken

USE DEF Roles, AccountStates, LoginStates, RequestStates, accountVars

\* Every initial state satisfies the inductive invariant: no login has begun.
LEMMA InitIInv == Init => IInv
<1> SUFFICES ASSUME Init PROVE IInv
  OBVIOUS
<1> USE AuthAssumption DEF Init, NewLogin, Idle
<1>1. TypeOK
  BY DEF TypeOK
<1>2. RoleBacked
  BY DEF RoleBacked
<1>3. OnlyLateLogins /\ CheckedHoldsToken
  BY DEF OnlyLateLogins, CheckedHoldsToken, InFlight
<1> QED
  BY <1>1, <1>2, <1>3 DEF IInv

\* Each step keeps every variable in its type.
LEMMA StepTypeOK == TypeOK /\ [Next]_vars => TypeOK'
<1> SUFFICES ASSUME TypeOK, [Next]_vars PROVE TypeOK'
  OBVIOUS
<1> USE AuthAssumption DEF TypeOK, NewLogin, Idle, InFlight
<1>1. ASSUME NEW l \in Logins, NEW u \in Users, LocalMatch(l, u) PROVE TypeOK'
  BY <1>1 DEF LocalMatch
<1>2. ASSUME NEW l \in Logins, NEW u \in Users, LocalDenied(l, u) PROVE TypeOK'
  BY <1>2 DEF LocalDenied
<1>3. ASSUME NEW l \in Logins, NEW u \in Users, NotFound(l, u) PROVE TypeOK'
  BY <1>3 DEF NotFound
<1>4. ASSUME NEW l \in Logins, LdapMatch(l) PROVE TypeOK'
  BY <1>4 DEF LdapMatch
<1>5. ASSUME NEW l \in Logins, LoginFails(l) PROVE TypeOK'
  BY <1>5, SMTT(30) DEF LoginFails
<1>6. ASSUME NEW l \in Logins, AddSession(l) PROVE TypeOK'
  BY <1>6, SMTT(30) DEF AddSession
<1>7. ASSUME NEW l \in Logins, Expire(l) PROVE TypeOK'
  BY <1>7 DEF Expire
<1>8. ASSUME NEW l \in Logins, Forget(l) PROVE TypeOK'
  BY <1>8 DEF Forget
<1>9. ASSUME NEW q \in Requests, NEW l \in Logins, Identify(q, l) PROVE TypeOK'
  BY <1>9 DEF Identify
<1>10. ASSUME NEW q \in Requests, CheckAccount(q) PROVE TypeOK'
  <2>1. /\ request' \in [Requests -> [state: RequestStates, token: Logins \cup {None},
                                      target: Users \cup {None}]]
        /\ \A p \in Requests : request'[p].state # "idle" =>
             request'[p].token = request[p].token /\ request[p].state # "idle"
    BY <1>10, SMTT(30) DEF CheckAccount
  <2>2. UNCHANGED <<account, role, login, live, restarts, late>>
    BY <1>10 DEF CheckAccount
  <2> QED
    BY <2>1, <2>2
<1>11. ASSUME NEW q \in Requests, EvictDisabled(q) PROVE TypeOK'
  BY <1>11 DEF EvictDisabled
<1>12. ASSUME NEW q \in Requests, RefuseName(q) PROVE TypeOK'
  BY <1>12, SMTT(30) DEF RefuseName
<1>13. ASSUME NEW q \in Requests, CheckCSRF(q) PROVE TypeOK'
  <2>1. /\ request' \in [Requests -> [state: RequestStates, token: Logins \cup {None},
                                      target: Users \cup {None}]]
        /\ \A p \in Requests : request'[p].state # "idle" =>
             request'[p].token = request[p].token /\ request[p].state # "idle"
    BY <1>13, SMTT(30) DEF CheckCSRF
  <2>2. UNCHANGED <<account, role, login, live, restarts, late>>
    BY <1>13 DEF CheckCSRF
  <2> QED
    BY <2>1, <2>2
<1>14. ASSUME NEW q \in Requests, Finish(q) PROVE TypeOK'
  BY <1>14 DEF Finish
<1>15. ASSUME NEW q \in Requests, Logout(q) PROVE TypeOK'
  BY <1>15 DEF Logout
<1>16. ASSUME NEW q \in Requests, NEW v \in Users, NEW r \in Roles, CreateUser(q, v, r) PROVE TypeOK'
  BY <1>16 DEF CreateUser
<1>17. ASSUME NEW q \in Requests, NEW v \in Users, Enable(q, v) PROVE TypeOK'
  BY <1>17 DEF Enable, MaySetStatus
<1>18. ASSUME NEW q \in Requests, NEW v \in Users, Disable(q, v) PROVE TypeOK'
  <2>1. request' = [request EXCEPT ![q] = [state |-> "purging", token |-> request[q].token,
                                           target |-> v]]
    BY <1>18 DEF Disable
  <2>2. request[q].state # "idle"
    BY <1>18 DEF Disable, MaySetStatus
  <2>3. UNCHANGED <<role, login, live, restarts, late>>
    BY <1>18 DEF Disable
  <2>4. account' \in [Users -> AccountStates]
    BY <1>18 DEF Disable
  <2> QED
    BY <2>1, <2>2, <2>3, <2>4
<1>19. ASSUME NEW q \in Requests, Purge(q) PROVE TypeOK'
  BY <1>19 DEF Purge
<1>20. CASE Restart
  BY <1>20, SMTT(30) DEF Restart
<1>21. CASE UNCHANGED vars
  BY <1>21 DEF vars
<1> HIDE DEF TypeOK, NewLogin, Idle, InFlight
<1>22. ASSUME NEW l \in Logins, LoginStep(l) PROVE TypeOK'
  BY <1>22, <1>1, <1>2, <1>3, <1>4, <1>5, <1>6, <1>7, <1>8 DEF LoginStep
<1>23. ASSUME NEW q \in Requests, RequestStep(q) PROVE TypeOK'
  BY <1>23, <1>9, <1>10, <1>11, <1>12, <1>13, <1>14, <1>15, <1>16, <1>17, <1>18, <1>19
     DEF RequestStep
<1> QED
  BY <1>20, <1>21, <1>22, <1>23 DEF Next

\* No step leaves an administrator's session without an administrator's
\* account: accounts are never removed and only Restart rewrites a role.
LEMMA StepRoleBacked == TypeOK /\ RoleBacked /\ [Next]_vars => RoleBacked'
<1> SUFFICES ASSUME TypeOK, RoleBacked, [Next]_vars PROVE RoleBacked'
  OBVIOUS
<1> USE AuthAssumption DEF TypeOK, RoleBacked, NewLogin, InFlight
<1>1. ASSUME NEW l \in Logins, NEW u \in Users, LocalMatch(l, u) PROVE RoleBacked'
  BY <1>1 DEF LocalMatch
<1>2. ASSUME NEW l \in Logins, NEW u \in Users, LocalDenied(l, u) PROVE RoleBacked'
  BY <1>2 DEF LocalDenied
<1>3. ASSUME NEW l \in Logins, NEW u \in Users, NotFound(l, u) PROVE RoleBacked'
  BY <1>3 DEF NotFound
<1>4. ASSUME NEW l \in Logins, LdapMatch(l) PROVE RoleBacked'
  BY <1>4 DEF LdapMatch
<1>5. ASSUME NEW l \in Logins, LoginFails(l) PROVE RoleBacked'
  BY <1>5 DEF LoginFails
<1>6. ASSUME NEW l \in Logins, AddSession(l) PROVE RoleBacked'
  BY <1>6 DEF AddSession
<1>7. ASSUME NEW l \in Logins, Expire(l) PROVE RoleBacked'
  BY <1>7 DEF Expire
<1>8. ASSUME NEW l \in Logins, Forget(l) PROVE RoleBacked'
  BY <1>8 DEF Forget
<1>9. ASSUME NEW q \in Requests, NEW l \in Logins, Identify(q, l) PROVE RoleBacked'
  BY <1>9 DEF Identify
<1>10. ASSUME NEW q \in Requests, CheckAccount(q) PROVE RoleBacked'
  BY <1>10 DEF CheckAccount
<1>11. ASSUME NEW q \in Requests, EvictDisabled(q) PROVE RoleBacked'
  BY <1>11 DEF EvictDisabled
<1>12. ASSUME NEW q \in Requests, RefuseName(q) PROVE RoleBacked'
  BY <1>12 DEF RefuseName
<1>13. ASSUME NEW q \in Requests, CheckCSRF(q) PROVE RoleBacked'
  BY <1>13 DEF CheckCSRF
<1>14. ASSUME NEW q \in Requests, Finish(q) PROVE RoleBacked'
  BY <1>14 DEF Finish
<1>15. ASSUME NEW q \in Requests, Logout(q) PROVE RoleBacked'
  BY <1>15 DEF Logout
<1>16. ASSUME NEW q \in Requests, NEW v \in Users, NEW r \in Roles, CreateUser(q, v, r) PROVE RoleBacked'
  BY <1>16 DEF CreateUser
<1>17. ASSUME NEW q \in Requests, NEW v \in Users, Enable(q, v) PROVE RoleBacked'
  BY <1>17 DEF Enable, MaySetStatus
<1>18. ASSUME NEW q \in Requests, NEW v \in Users, Disable(q, v) PROVE RoleBacked'
  BY <1>18 DEF Disable, MaySetStatus
<1>19. ASSUME NEW q \in Requests, Purge(q) PROVE RoleBacked'
  BY <1>19 DEF Purge
<1>20. CASE Restart
  BY <1>20 DEF Restart
<1>21. CASE UNCHANGED vars
  BY <1>21 DEF vars
<1> HIDE DEF TypeOK, RoleBacked, NewLogin, InFlight
<1>22. ASSUME NEW l \in Logins, LoginStep(l) PROVE RoleBacked'
  BY <1>22, <1>1, <1>2, <1>3, <1>4, <1>5, <1>6, <1>7, <1>8 DEF LoginStep
<1>23. ASSUME NEW q \in Requests, RequestStep(q) PROVE RoleBacked'
  BY <1>23, <1>9, <1>10, <1>11, <1>12, <1>13, <1>14, <1>15, <1>16, <1>17, <1>18, <1>19
     DEF RequestStep
<1> QED
  BY <1>20, <1>21, <1>22, <1>23 DEF Next

\* No step lets a login of a disabled account slip past removeUsername unless
\* it was in flight.
LEMMA StepOnlyLate == TypeOK /\ OnlyLateLogins /\ [Next]_vars => OnlyLateLogins'
<1> SUFFICES ASSUME TypeOK, OnlyLateLogins, [Next]_vars PROVE OnlyLateLogins'
  OBVIOUS
<1> USE AuthAssumption DEF TypeOK, OnlyLateLogins, NewLogin, Idle, InFlight, Purging
<1>1. ASSUME NEW l \in Logins, NEW u \in Users, LocalMatch(l, u) PROVE OnlyLateLogins'
  BY <1>1 DEF LocalMatch
<1>2. ASSUME NEW l \in Logins, NEW u \in Users, LocalDenied(l, u) PROVE OnlyLateLogins'
  BY <1>2 DEF LocalDenied
<1>3. ASSUME NEW l \in Logins, NEW u \in Users, NotFound(l, u) PROVE OnlyLateLogins'
  BY <1>3 DEF NotFound
<1>4. ASSUME NEW l \in Logins, LdapMatch(l) PROVE OnlyLateLogins'
  BY <1>4 DEF LdapMatch
<1>5. ASSUME NEW l \in Logins, LoginFails(l) PROVE OnlyLateLogins'
  BY <1>5 DEF LoginFails
<1>6. ASSUME NEW l \in Logins, AddSession(l) PROVE OnlyLateLogins'
  BY <1>6 DEF AddSession
<1>7. ASSUME NEW l \in Logins, Expire(l) PROVE OnlyLateLogins'
  BY <1>7 DEF Expire
<1>8. ASSUME NEW l \in Logins, Forget(l) PROVE OnlyLateLogins'
  BY <1>8 DEF Forget
<1>9. ASSUME NEW q \in Requests, NEW l \in Logins, Identify(q, l) PROVE OnlyLateLogins'
  BY <1>9 DEF Identify
<1>10. ASSUME NEW q \in Requests, CheckAccount(q) PROVE OnlyLateLogins'
  BY <1>10, SMTT(30) DEF CheckAccount
<1>11. ASSUME NEW q \in Requests, EvictDisabled(q) PROVE OnlyLateLogins'
  BY <1>11 DEF EvictDisabled
<1>12. ASSUME NEW q \in Requests, RefuseName(q) PROVE OnlyLateLogins'
  BY <1>12 DEF RefuseName
<1>13. ASSUME NEW q \in Requests, CheckCSRF(q) PROVE OnlyLateLogins'
  BY <1>13 DEF CheckCSRF
<1>14. ASSUME NEW q \in Requests, Finish(q) PROVE OnlyLateLogins'
  BY <1>14 DEF Finish
<1>15. ASSUME NEW q \in Requests, Logout(q) PROVE OnlyLateLogins'
  BY <1>15 DEF Logout
<1>16. ASSUME NEW q \in Requests, NEW v \in Users, NEW r \in Roles, CreateUser(q, v, r) PROVE OnlyLateLogins'
  BY <1>16 DEF CreateUser
<1>17. ASSUME NEW q \in Requests, NEW v \in Users, Enable(q, v) PROVE OnlyLateLogins'
  BY <1>17, ZenonT(30) DEF Enable, MaySetStatus
<1>18. ASSUME NEW q \in Requests, NEW v \in Users, Disable(q, v) PROVE OnlyLateLogins'
  BY <1>18 DEF Disable, MaySetStatus
<1>19. ASSUME NEW q \in Requests, Purge(q) PROVE OnlyLateLogins'
  <2> SUFFICES ASSUME NEW l \in Logins,
                      InFlight(l) \/ l \in live',
                      account[login[l].user] = "disabled",
                      ~Purging(login[l].user)'
               PROVE  late'[l]
    BY <1>19 DEF Purge
  <2>1. CASE login[l].user = request[q].target
    <3>1. l \in TokensOf(request[q].target) /\ l \notin live'
      BY <1>19, <2>1 DEF Purge, TokensOf
    <3> QED
      BY <1>19, <3>1 DEF Purge
  <2>2. CASE login[l].user # request[q].target
    <3>1. ~Purging(login[l].user)
      BY <1>19, <2>2 DEF Purge
    <3>2. InFlight(l) \/ l \in live
      BY <1>19 DEF Purge
    <3>3. late[l]
      BY <3>1, <3>2
    <3> QED
      BY <1>19, <3>3 DEF Purge
  <2> QED
    BY <2>1, <2>2
<1>20. CASE Restart
  BY <1>20 DEF Restart
<1>21. CASE UNCHANGED vars
  BY <1>21 DEF vars
<1> HIDE DEF TypeOK, OnlyLateLogins, NewLogin, Idle, InFlight, Purging
<1>22. ASSUME NEW l \in Logins, LoginStep(l) PROVE OnlyLateLogins'
  BY <1>22, <1>1, <1>2, <1>3, <1>4, <1>5, <1>6, <1>7, <1>8 DEF LoginStep
<1>23. ASSUME NEW q \in Requests, RequestStep(q) PROVE OnlyLateLogins'
  BY <1>23, <1>9, <1>10, <1>11, <1>12, <1>13, <1>14, <1>15, <1>16, <1>17, <1>18, <1>19
     DEF RequestStep
<1> QED
  BY <1>20, <1>21, <1>22, <1>23 DEF Next

\* No step leaves a checked request of a disabled account with its token.
LEMMA StepChecked == TypeOK /\ CheckedHoldsToken /\ [Next]_vars => CheckedHoldsToken'
<1> SUFFICES ASSUME TypeOK, CheckedHoldsToken, [Next]_vars PROVE CheckedHoldsToken'
  OBVIOUS
<1> USE AuthAssumption DEF TypeOK, CheckedHoldsToken, NewLogin, Idle, InFlight, Purging, UserOf
<1>1. ASSUME NEW l \in Logins, NEW u \in Users, LocalMatch(l, u) PROVE CheckedHoldsToken'
  BY <1>1 DEF LocalMatch
<1>2. ASSUME NEW l \in Logins, NEW u \in Users, LocalDenied(l, u) PROVE CheckedHoldsToken'
  BY <1>2 DEF LocalDenied
<1>3. ASSUME NEW l \in Logins, NEW u \in Users, NotFound(l, u) PROVE CheckedHoldsToken'
  BY <1>3 DEF NotFound
<1>4. ASSUME NEW l \in Logins, LdapMatch(l) PROVE CheckedHoldsToken'
  BY <1>4 DEF LdapMatch
<1>5. ASSUME NEW l \in Logins, LoginFails(l) PROVE CheckedHoldsToken'
  BY <1>5 DEF LoginFails
<1>6. ASSUME NEW l \in Logins, AddSession(l) PROVE CheckedHoldsToken'
  BY <1>6 DEF AddSession
<1>7. ASSUME NEW l \in Logins, Expire(l) PROVE CheckedHoldsToken'
  BY <1>7 DEF Expire
<1>8. ASSUME NEW l \in Logins, Forget(l) PROVE CheckedHoldsToken'
  BY <1>8 DEF Forget
<1>9. ASSUME NEW q \in Requests, NEW l \in Logins, Identify(q, l) PROVE CheckedHoldsToken'
  BY <1>9 DEF Identify
<1>10. ASSUME NEW q \in Requests, CheckAccount(q) PROVE CheckedHoldsToken'
  BY <1>10 DEF CheckAccount
<1>11. ASSUME NEW q \in Requests, EvictDisabled(q) PROVE CheckedHoldsToken'
  BY <1>11 DEF EvictDisabled
<1>12. ASSUME NEW q \in Requests, RefuseName(q) PROVE CheckedHoldsToken'
  BY <1>12, SMTT(30) DEF RefuseName
<1>13. ASSUME NEW q \in Requests, CheckCSRF(q) PROVE CheckedHoldsToken'
  BY <1>13, SMTT(30) DEF CheckCSRF
<1>14. ASSUME NEW q \in Requests, Finish(q) PROVE CheckedHoldsToken'
  BY <1>14 DEF Finish
<1>15. ASSUME NEW q \in Requests, Logout(q) PROVE CheckedHoldsToken'
  BY <1>15, ZenonT(30) DEF Logout
<1>16. ASSUME NEW q \in Requests, NEW v \in Users, NEW r \in Roles, CreateUser(q, v, r) PROVE CheckedHoldsToken'
  BY <1>16 DEF CreateUser
<1>17. ASSUME NEW q \in Requests, NEW v \in Users, Enable(q, v) PROVE CheckedHoldsToken'
  BY <1>17, SMTT(30) DEF Enable, MaySetStatus
<1>18. ASSUME NEW q \in Requests, NEW v \in Users, Disable(q, v) PROVE CheckedHoldsToken'
  BY <1>18 DEF Disable, MaySetStatus
<1>19. ASSUME NEW q \in Requests, Purge(q) PROVE CheckedHoldsToken'
  BY <1>19 DEF Purge, TokensOf
<1>20. CASE Restart
  BY <1>20 DEF Restart
<1>21. CASE UNCHANGED vars
  BY <1>21, SMTT(30) DEF vars
<1> HIDE DEF TypeOK, CheckedHoldsToken, NewLogin, Idle, InFlight, Purging, UserOf
<1>22. ASSUME NEW l \in Logins, LoginStep(l) PROVE CheckedHoldsToken'
  BY <1>22, <1>1, <1>2, <1>3, <1>4, <1>5, <1>6, <1>7, <1>8 DEF LoginStep
<1>23. ASSUME NEW q \in Requests, RequestStep(q) PROVE CheckedHoldsToken'
  BY <1>23, <1>9, <1>10, <1>11, <1>12, <1>13, <1>14, <1>15, <1>16, <1>17, <1>18, <1>19
     DEF RequestStep
<1> QED
  BY <1>20, <1>21, <1>22, <1>23 DEF Next

\* The inductive invariant holds in every reachable state.
THEOREM Inductive == Spec => []IInv
<1>1. IInv /\ [Next]_vars => IInv'
  BY StepTypeOK, StepRoleBacked, StepOnlyLate, StepChecked DEF IInv
<1> QED
  BY <1>1, InitIInv, PTL DEF Spec

\* Type correctness: in particular a token is in the store only when its
\* login has finished, and a running request carries such a token.
THEOREM TypeCorrect == Spec => []TypeOK
<1>1. IInv => TypeOK
  BY DEF IInv
<1> QED
  BY <1>1, Inductive, PTL

\* requireAdmin may rely on the role in the session: it is the account's.
THEOREM SessionRoleIsBacked == Spec => []RoleBacked
<1>1. IInv => RoleBacked
  BY DEF IInv
<1> QED
  BY <1>1, Inductive, PTL

\* A finished disable leaves a disabled account only late sessions.
THEOREM DisableEndsSessions == Spec => []DisabledTokensAreLate
<1>1. IInv => DisabledTokensAreLate
  BY DEF IInv, OnlyLateLogins, DisabledTokensAreLate, TypeOK
<1> QED
  BY <1>1, Inductive, PTL

\* Only CheckCSRF takes a request from "checked" to "passed".
LEMMA PassingNeedsToken ==
  ASSUME TypeOK, [Next]_vars, NEW p \in Requests,
         request[p].state = "checked", request'[p].state = "passed"
  PROVE  request[p].token \in live
<1> USE DEF TypeOK, Idle
<1>1. ASSUME NEW l \in Logins, LoginStep(l) PROVE FALSE
  BY <1>1 DEF LoginStep, LocalMatch, LocalDenied, NotFound, LdapMatch, LoginFails,
              AddSession, Expire, Forget
<1>2. ASSUME NEW q \in Requests, CheckCSRF(q) PROVE request[p].token \in live
  BY <1>2 DEF CheckCSRF
<1>3. ASSUME NEW q \in Requests, RequestStep(q), ~CheckCSRF(q) PROVE FALSE
  <2>1. ASSUME NEW l \in Logins, Identify(q, l) PROVE FALSE
    BY <2>1 DEF Identify
  <2>2. CASE CheckAccount(q) \/ RefuseName(q)
    BY <2>2 DEF CheckAccount, RefuseName
  <2>3. CASE EvictDisabled(q) \/ Finish(q) \/ Logout(q) \/ Purge(q)
    BY <2>3, SMTT(30) DEF EvictDisabled, Finish, Logout, Purge
  <2>4. ASSUME NEW v \in Users, Enable(q, v) \/ \E r \in Roles : CreateUser(q, v, r)
        PROVE  FALSE
    BY <2>4 DEF Enable, CreateUser
  <2>5. ASSUME NEW v \in Users, Disable(q, v) PROVE FALSE
    BY <2>5 DEF Disable
  <2> QED
    BY <1>3, <2>1, <2>2, <2>3, <2>4, <2>5 DEF RequestStep
<1>4. CASE Restart
  BY <1>4 DEF Restart
<1>5. CASE UNCHANGED vars
  BY <1>5 DEF vars
<1> QED
  BY <1>1, <1>2, <1>3, <1>4, <1>5 DEF Next

\* requireCSRF stops every POST of an account whose disable has finished.
THEOREM DisableStopsWrites == Spec => RevokedCannotWrite
<1>1. IInv /\ [Next]_vars =>
        [\A q \in Requests :
           request[q].state = "checked" /\ request'[q].state = "passed" =>
             account[UserOf(q)] # "disabled" \/ Purging(UserOf(q))]_vars
  BY PassingNeedsToken DEF IInv, CheckedHoldsToken
<1> QED
  BY <1>1, Inductive, PTL DEF Spec, RevokedCannotWrite

\* The last enabled administrator is lost only to a request whose own account
\* was disabled after requireAuthentication had checked it.
THEOREM LockoutNeedsStaleRequest == Spec => LastAdminOnlyByStaleRequest
<1>1. IInv /\ [Next]_vars =>
        [EnabledAdmins # {} /\ EnabledAdmins' = {} =>
           \E q \in Requests :
             request[q].state = "passed" /\ account[UserOf(q)] = "disabled"]_vars
  <2> SUFFICES ASSUME IInv, [Next]_vars, NEW w \in Users,
                      account[w] = "enabled", role[w] = "admin", EnabledAdmins' = {}
               PROVE  \E q \in Requests :
                        request[q].state = "passed" /\ account[UserOf(q)] = "disabled"
    BY DEF EnabledAdmins
  <2>0. \A u \in Users : ~(account'[u] = "enabled" /\ role'[u] = "admin")
    BY DEF EnabledAdmins
  <2> USE AuthAssumption DEF IInv, TypeOK
  <2>1. ASSUME NEW l \in Logins, LoginStep(l) PROVE FALSE
    BY <2>0, <2>1 DEF LoginStep, LocalMatch, LocalDenied, NotFound, LdapMatch, LoginFails,
                AddSession, Expire, Forget
  <2>2. ASSUME NEW q \in Requests, NEW v \in Users, Disable(q, v)
        PROVE  request[q].state = "passed" /\ account[UserOf(q)] = "disabled"
    <3>1. UserOf(q) \in Users /\ UserOf(q) # v
      BY <2>2 DEF Disable, MaySetStatus, UserOf
    <3>2. account[UserOf(q)] # "absent" /\ role[UserOf(q)] = "admin"
      BY <2>2 DEF Disable, MaySetStatus, UserOf, IsAdmin, RoleBacked
    <3>3. account'[UserOf(q)] = account[UserOf(q)] /\ role' = role
      BY <2>2, <3>1, SMTT(30) DEF Disable
    <3> QED
      BY <2>0, <2>2, <3>1, <3>2, <3>3 DEF Disable, MaySetStatus
  <2>3. ASSUME NEW q \in Requests, RequestStep(q), ~(\E v \in Users : Disable(q, v))
        PROVE  FALSE
    BY <2>0, <2>3, ZenonT(30) DEF RequestStep, Identify, CheckAccount, EvictDisabled, RefuseName,
                      CheckCSRF, Finish, Logout, CreateUser, Enable, MaySetStatus, Purge
  <2>4. CASE Restart
    BY <2>0, <2>4 DEF Restart
  <2>5. CASE UNCHANGED vars
    BY <2>0, <2>5 DEF vars
  <2> QED
    BY <2>1, <2>2, <2>3, <2>4, <2>5 DEF Next
<1> QED
  BY <1>1, Inductive, PTL DEF Spec, LastAdminOnlyByStaleRequest
=============================================================================
