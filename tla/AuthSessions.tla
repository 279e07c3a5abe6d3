---------------------------- MODULE AuthSessions ----------------------------
(***************************************************************************)
(* Accounts, sessions and the middleware chain of internal/web/app.go and  *)
(* internal/web/platform_users.go: login, requireAuthentication,           *)
(* requireCSRF, requireAdmin, logout, createPlatformUser and               *)
(* setPlatformUserStatus, over the sessionStore (in memory) and the        *)
(* UserStore (SQLite, internal/platform/users.go).                         *)
(*                                                                         *)
(* Every database statement and every locked section of the sessionStore   *)
(* is one action, because other requests run in between.  A login attempt  *)
(* makes at most one random token, so the token has the attempt's name.    *)
(* The LDAP directory is external: it accepts or it does not.              *)
(***************************************************************************)
EXTENDS Naturals

CONSTANTS Users,        \* user names a browser may send
          ValidNames,   \* those that platform.ValidateUsername accepts
          EnvAdmin,     \* OPENHPC_ADMIN_USERNAME
          Logins,       \* POST /login attempts
          Requests,     \* handler goroutines of the protected routes
          MaxRestarts,  \* bound on restarts of the service
          None

ASSUME AuthAssumption == /\ ValidNames \subseteq Users
                         /\ EnvAdmin \in ValidNames
                         /\ MaxRestarts \in Nat
                         /\ None \notin Users \cup Logins

VARIABLES
  account,   \* the enabled column of platform_users, or "absent"
  role,      \* the role column
  login,     \* per attempt: where login is, and the user and role it found
  live,      \* tokens of the sessionStore that have not expired
  request,   \* per goroutine: where it is, its cookie's token, its target
  restarts,
  late       \* history: removeUsername ran while this login was in flight

accountVars == <<account, role>>
vars == <<account, role, login, live, request, restarts, late>>

Roles == {"admin", "user"}
AccountStates == {"absent", "enabled", "disabled"}
LoginStates == {"new", "ldap", "accepted", "done"}
RequestStates == {"idle", "identified", "checked", "passed", "purging", "refused"}

NewLogin == [state |-> "new", user |-> None, role |-> "user"]
Idle == [state |-> "idle", token |-> None, target |-> None]

\* The process starts with any database; New has upserted the administrator.
Init ==
  /\ account \in [Users -> AccountStates]
  /\ role \in [Users -> Roles]
  /\ \A u \in Users : account[u] = "absent" => role[u] = "user"
  /\ \A u \in Users \ ValidNames : account[u] = "absent"
  /\ account[EnvAdmin] = "enabled"
  /\ role[EnvAdmin] = "admin"
  /\ login = [l \in Logins |-> NewLogin]
  /\ live = {}
  /\ request = [q \in Requests |-> Idle]
  /\ restarts = 0
  /\ late = [l \in Logins |-> FALSE]

InFlight(l) == login[l].state \in {"ldap", "accepted"}
TokensOf(u) == {l \in Logins : login[l].user = u}
UserOf(q) == login[request[q].token].user
IsAdmin(q) == login[request[q].token].role = "admin"

-----------------------------------------------------------------------------
(* login *)

\* The account is found and enabled and the password matches its hash.
LocalMatch(l, u) ==
  /\ login[l].state = "new"
  /\ account[u] = "enabled"
  /\ login' = [login EXCEPT ![l] = [state |-> "accepted", user |-> u, role |-> role[u]]]
  /\ UNCHANGED <<accountVars, live, request, restarts, late>>

\* Found, but disabled or with another password: LDAP is not asked.
LocalDenied(l, u) ==
  /\ login[l].state = "new"
  /\ account[u] # "absent"
  /\ login' = [login EXCEPT ![l] = [state |-> "done", user |-> u, role |-> "user"]]
  /\ UNCHANGED <<accountVars, live, request, restarts, late>>

\* No such account.  A name that ValidateUsername rejects is not looked up,
\* which leaves found = false as well.
NotFound(l, u) ==
  /\ login[l].state = "new"
  /\ account[u] = "absent"
  /\ login' = [login EXCEPT ![l] = [state |-> "ldap", user |-> u, role |-> "user"]]
  /\ UNCHANGED <<accountVars, live, request, restarts, late>>

\* The directory authenticates the user: role "user".
LdapMatch(l) ==
  /\ login[l].state = "ldap"
  /\ login' = [login EXCEPT ![l].state = "accepted"]
  /\ UNCHANGED <<accountVars, live, request, restarts, late>>

\* The directory refuses or fails; or no token can be drawn or the success
\* cannot be recorded.
LoginFails(l) ==
  /\ InFlight(l)
  /\ login' = [login EXCEPT ![l].state = "done"]
  /\ UNCHANGED <<accountVars, live, request, restarts, late>>

\* sessions.add, which also drops the tokens that have expired.
AddSession(l) ==
  /\ login[l].state = "accepted"
  /\ login' = [login EXCEPT ![l].state = "done"]
  /\ live' = live \cup {l}
  /\ UNCHANGED <<accountVars, request, restarts, late>>

\* Twelve hours have passed.
Expire(l) ==
  /\ l \in live
  /\ live' = live \ {l}
  /\ UNCHANGED <<accountVars, login, request, restarts, late>>

\* The token is nowhere any more: its name may stand for another attempt.
Forget(l) ==
  /\ login[l].state = "done"
  /\ l \notin live
  /\ \A q \in Requests : request[q].token # l
  /\ login' = [login EXCEPT ![l] = NewLogin]
  /\ late' = [late EXCEPT ![l] = FALSE]
  /\ UNCHANGED <<accountVars, live, request, restarts>>

-----------------------------------------------------------------------------
(* requireAuthentication and requireCSRF *)

\* sessions.identity finds the token of the cookie.
Identify(q, l) ==
  /\ request[q].state = "idle"
  /\ l \in live
  /\ request' = [request EXCEPT ![q] = [Idle EXCEPT !.state = "identified", !.token = l]]
  /\ UNCHANGED <<accountVars, login, live, restarts, late>>

\* platformUsers.Get: absent (a user of the directory) or enabled.
CheckAccount(q) ==
  /\ request[q].state = "identified"
  /\ UserOf(q) \in ValidNames
  /\ account[UserOf(q)] # "disabled"
  /\ request' = [request EXCEPT ![q].state = "checked"]
  /\ UNCHANGED <<accountVars, login, live, restarts, late>>

\* Get finds the account disabled: the token is removed, back to /login.
EvictDisabled(q) ==
  /\ request[q].state = "identified"
  /\ account[UserOf(q)] = "disabled"
  /\ live' = live \ {request[q].token}
  /\ request' = [request EXCEPT ![q] = Idle]
  /\ UNCHANGED <<accountVars, login, restarts, late>>

\* Get returns the error of ValidateUsername: 503.
RefuseName(q) ==
  /\ request[q].state = "identified"
  /\ UserOf(q) \notin ValidNames
  /\ request' = [request EXCEPT ![q].state = "refused"]
  /\ UNCHANGED <<accountVars, login, live, restarts, late>>

\* Mutant of CheckCSRF: exists is not looked at.
CheckCSRFStale(q) ==
  /\ request[q].state = "checked"
  /\ request' = [request EXCEPT ![q].state = "passed"]
  /\ UNCHANGED <<accountVars, login, live, restarts, late>>

\* A POST must still have its token in the store.
CheckCSRF(q) ==
  /\ request[q].state = "checked"
  /\ request[q].token \in live
  /\ request' = [request EXCEPT ![q].state = "passed"]
  /\ UNCHANGED <<accountVars, login, live, restarts, late>>

\* The request ends without touching accounts or sessions: a page is shown,
\* or it is turned down (403, 400, a database error, a duplicate name).
Finish(q) ==
  /\ request[q].state \in {"identified", "checked", "passed", "refused"}
  /\ request' = [request EXCEPT ![q] = Idle]
  /\ UNCHANGED <<accountVars, login, live, restarts, late>>

-----------------------------------------------------------------------------
(* The handlers that change accounts and sessions *)

Logout(q) ==
  /\ request[q].state = "passed"
  /\ live' = live \ {request[q].token}
  /\ request' = [request EXCEPT ![q] = Idle]
  /\ UNCHANGED <<accountVars, login, restarts, late>>

\* Mutant of CreateUser: Upsert is called where Create should be.
CreateUserUpsert(q, v, r) ==
  /\ request[q].state = "passed"
  /\ IsAdmin(q)
  /\ v \in ValidNames
  /\ account' = [account EXCEPT ![v] = "enabled"]
  /\ role' = [role EXCEPT ![v] = r]
  /\ request' = [request EXCEPT ![q] = Idle]
  /\ UNCHANGED <<login, live, restarts, late>>

\* createPlatformUser: the INSERT fails for a name that exists.
CreateUser(q, v, r) ==
  /\ request[q].state = "passed"
  /\ IsAdmin(q)
  /\ v \in ValidNames
  /\ account[v] = "absent"
  /\ account' = [account EXCEPT ![v] = "enabled"]
  /\ role' = [role EXCEPT ![v] = r]
  /\ request' = [request EXCEPT ![q] = Idle]
  /\ UNCHANGED <<login, live, restarts, late>>

\* Mutant of MaySetStatus: the comparison with the current user is missing.
MaySetStatusOwn(q, v) ==
  /\ request[q].state = "passed"
  /\ IsAdmin(q)
  /\ account[v] # "absent"

\* setPlatformUserStatus: never one's own account, only one that exists.
MaySetStatus(q, v) ==
  /\ request[q].state = "passed"
  /\ IsAdmin(q)
  /\ v # UserOf(q)
  /\ account[v] # "absent"

Enable(q, v) ==
  /\ MaySetStatus(q, v)
  /\ account' = [account EXCEPT ![v] = "enabled"]
  /\ request' = [request EXCEPT ![q] = Idle]
  /\ UNCHANGED <<role, login, live, restarts, late>>

\* SetEnabled(username, false) has committed.
Disable(q, v) ==
  /\ MaySetStatus(q, v)
  /\ account' = [account EXCEPT ![v] = "disabled"]
  /\ request' = [request EXCEPT ![q] = [state |-> "purging", token |-> @.token, target |-> v]]
  /\ UNCHANGED <<role, login, live, restarts, late>>

\* Mutant of Purge: remove is called where removeUsername should be.
PurgeOwnToken(q) ==
  /\ request[q].state = "purging"
  /\ live' = live \ {request[q].token}
  /\ late' = [l \in Logins |-> late[l] \/ (l \in TokensOf(request[q].target) /\ InFlight(l))]
  /\ request' = [request EXCEPT ![q] = Idle]
  /\ UNCHANGED <<accountVars, login, restarts>>

\* sessions.removeUsername.
Purge(q) ==
  /\ request[q].state = "purging"
  /\ live' = live \ TokensOf(request[q].target)
  /\ late' = [l \in Logins |-> late[l] \/ (l \in TokensOf(request[q].target) /\ InFlight(l))]
  /\ request' = [request EXCEPT ![q] = Idle]
  /\ UNCHANGED <<accountVars, login, restarts>>

\* The process ends at any point and starts again: sessions and goroutines
\* are gone, and New upserts the administrator of the environment.
Restart ==
  /\ restarts < MaxRestarts
  /\ restarts' = restarts + 1
  /\ live' = {}
  /\ login' = [l \in Logins |-> IF InFlight(l) THEN [login[l] EXCEPT !.state = "done"]
                                               ELSE login[l]]
  /\ request' = [q \in Requests |-> Idle]
  /\ account' = [account EXCEPT ![EnvAdmin] = "enabled"]
  /\ role' = [role EXCEPT ![EnvAdmin] = "admin"]
  /\ UNCHANGED late

-----------------------------------------------------------------------------
LoginStep(l) ==
  \/ \E u \in Users : LocalMatch(l, u) \/ LocalDenied(l, u) \/ NotFound(l, u)
  \/ LdapMatch(l) \/ LoginFails(l) \/ AddSession(l) \/ Expire(l) \/ Forget(l)

RequestStep(q) ==
  \/ \E l \in Logins : Identify(q, l)
  \/ CheckAccount(q) \/ EvictDisabled(q) \/ RefuseName(q) \/ CheckCSRF(q)
  \/ Finish(q) \/ Logout(q) \/ Purge(q)
  \/ \E v \in Users : Enable(q, v) \/ Disable(q, v) \/ \E r \in Roles : CreateUser(q, v, r)

Next ==
  \/ \E l \in Logins : LoginStep(l)
  \/ \E q \in Requests : RequestStep(q)
  \/ Restart

Spec == Init /\ [][Next]_vars

-----------------------------------------------------------------------------
\* Every variable keeps its type; a token in the store, or in the hands of a
\* request, is that of a login that has come to its end (login adds it last).
TypeOK ==
  /\ account \in [Users -> AccountStates]
  /\ role \in [Users -> Roles]
  /\ login \in [Logins -> [state: LoginStates, user: Users \cup {None}, role: Roles]]
  /\ \A l \in Logins : login[l].state # "new" => login[l].user \in Users
  /\ live \in SUBSET {l \in Logins : login[l].state = "done"}
  /\ request \in [Requests -> [state: RequestStates, token: Logins \cup {None},
                               target: Users \cup {None}]]
  /\ \A q \in Requests : request[q].state # "idle" =>
       request[q].token \in Logins /\ login[request[q].token].state = "done"
  /\ restarts \in 0..MaxRestarts
  /\ late \in [Logins -> BOOLEAN]

Purging(u) == \E q \in Requests : request[q].state = "purging" /\ request[q].target = u
EnabledAdmins == {u \in Users : account[u] = "enabled" /\ role[u] = "admin"}

\* A session never outranks its account: requireAdmin looks only at the role
\* copied into the session at login, so that role must still be the account's
\* after any interleaving of logins, user creation and restarts.
RoleBacked ==
  \A l \in Logins : login[l].role = "admin" =>
    account[login[l].user] # "absent" /\ role[login[l].user] = "admin"

\* Disabling a user ends their sessions: once removeUsername has run, the only
\* tokens of a disabled account are those of logins that had read the account
\* before it was disabled and were added afterwards.
DisabledTokensAreLate ==
  \A l \in live :
    account[login[l].user] = "disabled" /\ ~Purging(login[l].user) => late[l]

\* After a disable has returned, no POST of that user gets past requireCSRF,
\* not even one that requireAuthentication had already let through, and not
\* one of a late session: both middlewares look at the store again.
RevokedCannotWrite ==
  [][\A q \in Requests :
       request[q].state = "checked" /\ request'[q].state = "passed" =>
         account[UserOf(q)] # "disabled" \/ Purging(UserOf(q))]_vars

\* setPlatformUserStatus refuses one's own account so that an administrator
\* remains.  The last enabled administrator can be lost only when two of them
\* disable each other at the same time: by a request whose own account had
\* been disabled after it was checked.
LastAdminOnlyByStaleRequest ==
  [][EnabledAdmins # {} /\ EnabledAdmins' = {} =>
       \E q \in Requests :
         request[q].state = "passed" /\ account[UserOf(q)] = "disabled"]_vars

\* docs/deployment-centos7.md:12: users of the directory can log in with their
\* directory account.  A session they were given is one requests can use.
LdapSessionWorks ==
  \A q \in Requests : request[q].state # "refused"
=============================================================================
