-------------------------- MODULE TerminalSessions --------------------------
(***************************************************************************)
(* The SSH terminal of internal/web/terminal.go: createTerminalSession and *)
(* terminalSocket requests, the terminalSessionStore they share, the       *)
(* 30-minute timers, and the three callers that close terminals from       *)
(* outside: logout (app.go), setPlatformUserStatus (platform_users.go) and *)
(* Handler.Close (app.go).                                                 *)
(*                                                                         *)
(* One locked section of the store is one action.  Removing an entry from  *)
(* the map and closing its SSH connection are two actions, because the     *)
(* code closes after the unlock.  A create request and the SSH session it  *)
(* may open share one name; the login node is external and either refuses  *)
(* or accepts.  A user has one web session, authenticated[u].              *)
(***************************************************************************)
EXTENDS Naturals, FiniteSets

CONSTANTS Users,
          Requests,    \* POST /terminal/sessions, one SSH session at most each
          Sockets,     \* GET /terminal/sessions/:id/socket
          MaxTerminalSessions,         \* maxTerminalSessions
          MaxTerminalSessionsPerUser,  \* maxTerminalSessionsPerUser
          None

ASSUME TerminalAssumption ==
  /\ MaxTerminalSessions \in Nat
  /\ MaxTerminalSessionsPerUser \in Nat
  /\ None \notin Users
  /\ None \notin Requests
  /\ IsFiniteSet(Requests)

VARIABLES
  authenticated, \* the user's web session is in sessionStore
  leaving,       \* progress of logout or of an account disable, per user
  life,          \* the server: serving, draining (Shutdown), closed (Close)
  create,        \* where each create request is
  owner,         \* managed.owner
  ssh,           \* the SSH connection of the session
  stored,        \* the session is in s.sessions
  claimed,       \* managed.claimed
  timer,         \* managed.timer is running
  closer,        \* the goroutine that took the entry out and must close it
  socket,        \* where each WebSocket request is, for whom and which session
  \* History variables: they record what happened and guard nothing.
  gone,          \* the last logout or disable of the user is complete
  late           \* CloseUsername ran while the session was being created

handlerVars == <<authenticated, leaving, life, gone>>
sessionVars == <<create, owner, ssh, stored, claimed, timer, closer, late>>
vars == <<authenticated, leaving, life, gone, create, owner, ssh, stored,
          claimed, timer, closer, late, socket>>

LeaveStates == {"no", "removed", "closing"}
CreateStates == {"new", "opening", "opened", "added", "replied", "rejected", "done"}
SocketStates == {"new", "upgraded", "streaming", "closed", "audited", "done"}
Closers == {"nobody", "leave", "other"}  \* leave: a goroutine in CloseUsername

Init ==
  /\ authenticated = [u \in Users |-> FALSE]
  /\ leaving = [u \in Users |-> "no"]
  /\ life = "serving"
  /\ gone = [u \in Users |-> FALSE]
  /\ create = [r \in Requests |-> "new"]
  /\ owner = [r \in Requests |-> None]
  /\ ssh = [r \in Requests |-> "none"]
  /\ stored = [r \in Requests |-> FALSE]
  /\ claimed = [r \in Requests |-> FALSE]
  /\ timer = [r \in Requests |-> FALSE]
  /\ closer = [r \in Requests |-> "nobody"]
  /\ late = [r \in Requests |-> FALSE]
  /\ socket = [s \in Sockets |-> [state |-> "new", user |-> None, id |-> None]]

-----------------------------------------------------------------------------
(* The store *)

InStore == {r \in Requests : stored[r]}
InStoreOf(u) == {r \in Requests : stored[r] /\ owner[r] = u}

\* Entries leave the map under the lock; their closer will stop the timer and
\* close the connection.
TakeOut(R, who) ==
  /\ stored' = [r \in Requests |-> stored[r] /\ r \notin R]
  /\ closer' = [r \in Requests |-> IF r \in R /\ stored[r] THEN who ELSE closer[r]]

\* timer.Stop() and managed.Close() after the unlock; close.Do makes the
\* second of two closers harmless.
CloseTakenOut(r) ==
  /\ closer[r] # "nobody"
  /\ closer' = [closer EXCEPT ![r] = "nobody"]
  /\ timer' = [timer EXCEPT ![r] = FALSE]
  /\ ssh' = [ssh EXCEPT ![r] = "closed"]
  /\ UNCHANGED <<handlerVars, create, owner, stored, claimed, late, socket>>

\* Mutant of TimerFires: only an attached session is released.
TimerFiresAttached(r) ==
  /\ timer[r]
  /\ stored[r]
  /\ claimed[r]
  /\ TakeOut({r}, "other")
  /\ UNCHANGED <<handlerVars, create, owner, ssh, claimed, timer, late, socket>>

\* The function of time.AfterFunc is Release(id).
TimerFires(r) ==
  /\ timer[r]
  /\ stored[r]
  /\ TakeOut({r}, "other")
  /\ UNCHANGED <<handlerVars, create, owner, ssh, claimed, timer, late, socket>>

-----------------------------------------------------------------------------
(* createTerminalSession *)

\* The request passes requireAuthentication.
StartCreate(r, u) ==
  /\ life = "serving"
  /\ create[r] = "new"
  /\ authenticated[u]
  /\ create' = [create EXCEPT ![r] = "opening"]
  /\ owner' = [owner EXCEPT ![r] = u]
  /\ late' = [late EXCEPT ![r] = (leaving[u] = "closing")]
  /\ UNCHANGED <<handlerVars, ssh, stored, claimed, timer, closer, socket>>

\* terminalClient.Open returns an error: it has closed whatever it opened.
OpenFails(r) ==
  /\ create[r] = "opening"
  /\ create' = [create EXCEPT ![r] = "done"]
  /\ UNCHANGED <<handlerVars, owner, ssh, stored, claimed, timer, closer, late, socket>>

OpenSucceeds(r) ==
  /\ create[r] = "opening"
  /\ create' = [create EXCEPT ![r] = "opened"]
  /\ ssh' = [ssh EXCEPT ![r] = "open"]
  /\ UNCHANGED <<handlerVars, owner, stored, claimed, timer, closer, late, socket>>

\* Mutant of Add: the comparison with maxTerminalSessions is off by one.
AddOneTooMany(r) ==
  /\ create[r] = "opened"
  /\ Cardinality(InStore) <= MaxTerminalSessions
  /\ Cardinality(InStoreOf(owner[r])) < MaxTerminalSessionsPerUser
  /\ stored' = [stored EXCEPT ![r] = TRUE]
  /\ timer' = [timer EXCEPT ![r] = TRUE]
  /\ create' = [create EXCEPT ![r] = "added"]
  /\ UNCHANGED <<handlerVars, owner, ssh, claimed, closer, late, socket>>

\* Both limits are counted and the entry is made under one lock.
Add(r) ==
  /\ create[r] = "opened"
  /\ Cardinality(InStore) < MaxTerminalSessions
  /\ Cardinality(InStoreOf(owner[r])) < MaxTerminalSessionsPerUser
  /\ stored' = [stored EXCEPT ![r] = TRUE]
  /\ timer' = [timer EXCEPT ![r] = TRUE]
  /\ create' = [create EXCEPT ![r] = "added"]
  /\ UNCHANGED <<handlerVars, owner, ssh, claimed, closer, late, socket>>

\* Mutant of AddFails: the session that was not admitted stays open.
AddFailsLeavingOpen(r) ==
  /\ create[r] = "opened"
  /\ create' = [create EXCEPT ![r] = "done"]
  /\ UNCHANGED <<handlerVars, owner, ssh, stored, claimed, timer, closer, late, socket>>

\* A limit is reached, or randomToken fails.
AddFails(r) ==
  /\ create[r] = "opened"
  /\ create' = [create EXCEPT ![r] = "rejected"]
  /\ UNCHANGED <<handlerVars, owner, ssh, stored, claimed, timer, closer, late, socket>>

\* session.Close() of the request that was not admitted, answered 429.
CloseRejected(r) ==
  /\ create[r] = "rejected"
  /\ ssh' = [ssh EXCEPT ![r] = "closed"]
  /\ create' = [create EXCEPT ![r] = "done"]
  /\ UNCHANGED <<handlerVars, owner, stored, claimed, timer, closer, late, socket>>

\* The success is on record: the client learns the session id.
Reply(r) ==
  /\ create[r] = "added"
  /\ create' = [create EXCEPT ![r] = "replied"]
  /\ UNCHANGED <<handlerVars, owner, ssh, stored, claimed, timer, closer, late, socket>>

\* The success cannot be recorded: Release(id), answered 503.
AuditFails(r) ==
  /\ create[r] = "added"
  /\ create' = [create EXCEPT ![r] = "done"]
  /\ TakeOut({r}, "other")
  /\ UNCHANGED <<handlerVars, owner, ssh, claimed, timer, late, socket>>

-----------------------------------------------------------------------------
(* terminalSocket and streamTerminal *)

\* An authenticated client opens the WebSocket with an id it was given (by
\* Reply, or by whoever was).
Upgrade(s, u, r) ==
  /\ life = "serving"
  /\ socket[s].state = "new"
  /\ authenticated[u]
  /\ create[r] = "replied"
  /\ socket' = [socket EXCEPT ![s] = [state |-> "upgraded", user |-> u, id |-> r]]
  /\ UNCHANGED <<handlerVars, sessionVars>>

\* Mutant of Claimable: an id can be used again.
ClaimableAgain(s) ==
  LET r == socket[s].id
  IN  stored[r] /\ owner[r] = socket[s].user

\* Claim finds the id, unused and of this owner.
Claimable(s) ==
  LET r == socket[s].id
  IN  stored[r] /\ ~claimed[r] /\ owner[r] = socket[s].user

Claim(s) ==
  /\ socket[s].state = "upgraded"
  /\ Claimable(s)
  /\ claimed' = [claimed EXCEPT ![socket[s].id] = TRUE]
  /\ socket' = [socket EXCEPT ![s].state = "streaming"]
  /\ UNCHANGED <<handlerVars, create, owner, ssh, stored, timer, closer, late>>

ClaimFails(s) ==
  /\ socket[s].state = "upgraded"
  /\ ~Claimable(s)
  /\ socket' = [socket EXCEPT ![s].state = "done"]
  /\ UNCHANGED <<handlerVars, sessionVars>>

\* The receive loop ends (the client left, sent a bad message or typed into a
\* closed session, or the deadline passed): connection and session are closed.
StreamEnds(s) ==
  /\ socket[s].state = "streaming"
  /\ ssh' = [ssh EXCEPT ![socket[s].id] = "closed"]
  /\ socket' = [socket EXCEPT ![s].state = "closed"]
  /\ UNCHANGED <<handlerVars, create, owner, stored, claimed, timer, closer, late>>

\* Output drained or one second passed; the outcome "closed" is recorded.
StreamAudit(s) ==
  /\ socket[s].state = "closed"
  /\ socket' = [socket EXCEPT ![s].state = "audited"]
  /\ UNCHANGED <<handlerVars, sessionVars>>

\* The deferred Release(id).
StreamReleases(s) ==
  /\ socket[s].state = "audited"
  /\ socket' = [socket EXCEPT ![s].state = "done"]
  /\ TakeOut({socket[s].id}, "other")
  /\ UNCHANGED <<handlerVars, create, owner, ssh, claimed, timer, late>>

-----------------------------------------------------------------------------
(* Login, logout, disabled accounts and shutdown *)

Login(u) ==
  /\ life = "serving"
  /\ ~authenticated[u]
  /\ leaving[u] = "no"
  /\ authenticated' = [authenticated EXCEPT ![u] = TRUE]
  /\ gone' = [gone EXCEPT ![u] = FALSE]
  /\ UNCHANGED <<leaving, life, sessionVars, socket>>

Creating(r) == create[r] \in {"opening", "opened"}

\* Mutant of CloseUsername: only attached sessions are closed.
CloseUsernameAttached(u) ==
  /\ TakeOut({r \in InStoreOf(u) : claimed[r]}, "leave")
  /\ late' = [r \in Requests |-> late[r] \/ (owner[r] = u /\ Creating(r))]
  /\ leaving' = [leaving EXCEPT ![u] = "closing"]
  /\ UNCHANGED <<create, owner, ssh, claimed, timer, socket>>

\* CloseUsername(u): the locked part.
CloseUsername(u) ==
  /\ TakeOut(InStoreOf(u), "leave")
  /\ late' = [r \in Requests |-> late[r] \/ (owner[r] = u /\ Creating(r))]
  /\ leaving' = [leaving EXCEPT ![u] = "closing"]
  /\ UNCHANGED <<create, owner, ssh, claimed, timer, socket>>

\* logout closes the terminals first and removes the token afterwards.
Logout(u) ==
  /\ life = "serving"
  /\ authenticated[u]
  /\ leaving[u] = "no"
  /\ CloseUsername(u)
  /\ UNCHANGED <<authenticated, life, gone>>

\* setPlatformUserStatus removes the tokens first.
Disable(u) ==
  /\ life = "serving"
  /\ leaving[u] = "no"
  /\ authenticated' = [authenticated EXCEPT ![u] = FALSE]
  /\ leaving' = [leaving EXCEPT ![u] = "removed"]
  /\ UNCHANGED <<life, gone, sessionVars, socket>>

DisableCloses(u) ==
  /\ leaving[u] = "removed"
  /\ CloseUsername(u)
  /\ UNCHANGED <<authenticated, life, gone>>

\* CloseUsername has closed all it took out; logout removes the token.
LeaveEnds(u) ==
  /\ leaving[u] = "closing"
  /\ \A r \in Requests : owner[r] = u => closer[r] # "leave"
  /\ leaving' = [leaving EXCEPT ![u] = "no"]
  /\ authenticated' = [authenticated EXCEPT ![u] = FALSE]
  /\ gone' = [gone EXCEPT ![u] = TRUE]
  /\ UNCHANGED <<life, sessionVars, socket>>

\* SIGTERM: no new requests; Shutdown gives the running ones ten seconds and
\* does not wait for WebSockets.
Shutdown ==
  /\ life = "serving"
  /\ life' = "draining"
  /\ UNCHANGED <<authenticated, leaving, gone, sessionVars, socket>>

\* terminalSessions.Close() of Handler.Close.
StoreClose ==
  /\ life = "draining"
  /\ life' = "closed"
  /\ TakeOut(Requests, "other")
  /\ UNCHANGED <<authenticated, leaving, gone, create, owner, ssh, claimed, timer,
                 late, socket>>

-----------------------------------------------------------------------------
CreateStep(r) ==
  \/ OpenFails(r) \/ OpenSucceeds(r) \/ Add(r) \/ AddFails(r)
  \/ CloseRejected(r) \/ Reply(r) \/ AuditFails(r)

StreamStep(s) ==
  \/ Claim(s) \/ ClaimFails(s) \/ StreamEnds(s) \/ StreamAudit(s) \/ StreamReleases(s)

Next ==
  \/ \E r \in Requests : CreateStep(r) \/ CloseTakenOut(r) \/ TimerFires(r)
  \/ \E r \in Requests, u \in Users : StartCreate(r, u)
  \/ \E s \in Sockets : StreamStep(s)
  \/ \E s \in Sockets, u \in Users, r \in Requests : Upgrade(s, u, r)
  \/ \E u \in Users : Login(u) \/ Logout(u) \/ Disable(u) \/ DisableCloses(u) \/ LeaveEnds(u)
  \/ Shutdown
  \/ StoreClose

\* Handlers run on, Open has a timeout, the runtime fires the timers, and
\* goroutines that must close a session get to it.  Nothing obliges a client
\* to attach; an attached stream ends at its 30-minute deadline.
Fairness ==
  /\ \A r \in Requests : WF_vars(CreateStep(r)) /\ WF_vars(CloseTakenOut(r))
                         /\ WF_vars(TimerFires(r))
  /\ \A s \in Sockets : WF_vars(StreamStep(s))

Spec == Init /\ [][Next]_vars
FairSpec == Spec /\ Fairness

-----------------------------------------------------------------------------
\* Every variable keeps its type; a socket request keeps the user and the
\* session id it came with apart.
TypeOK ==
  /\ authenticated \in [Users -> BOOLEAN]
  /\ leaving \in [Users -> LeaveStates]
  /\ life \in {"serving", "draining", "closed"}
  /\ gone \in [Users -> BOOLEAN]
  /\ create \in [Requests -> CreateStates]
  /\ owner \in [Requests -> Users \cup {None}]
  /\ ssh \in [Requests -> {"none", "open", "closed"}]
  /\ stored \in [Requests -> BOOLEAN]
  /\ claimed \in [Requests -> BOOLEAN]
  /\ timer \in [Requests -> BOOLEAN]
  /\ closer \in [Requests -> Closers]
  /\ late \in [Requests -> BOOLEAN]
  /\ socket \in [Sockets -> [state: SocketStates, user: Users \cup {None},
                             id: Requests \cup {None}]]

\* Every open SSH connection has somebody who will close it: its create
\* request until Add has decided, the store (whose timer is running) while it
\* is in the map, and the goroutine that took it out afterwards.  No mixture
\* of timers, logouts, failed audits and shutdown leaves an orphan.
NoOrphan ==
  \A r \in Requests :
    ssh[r] = "open" =>
      \/ create[r] \in {"opened", "rejected"}
      \/ stored[r] /\ timer[r]
      \/ closer[r] # "nobody"

\* The store never holds more than its two limits, although the SSH sessions
\* are opened before Add counts (terminal.go: maxTerminalSessions).
WithinLimits ==
  /\ Cardinality(InStore) <= MaxTerminalSessions
  /\ \A u \in Users : Cardinality(InStoreOf(u)) <= MaxTerminalSessionsPerUser

Attached(s) == socket[s].state \in {"streaming", "closed", "audited"}

\* A session is bound to its creator and attached at most once, also when
\* several sockets race for the same id: no two streams share a session and
\* no stream belongs to anybody but the owner.
AttachedOnceByOwner ==
  \A s \in Sockets : Attached(s) =>
    /\ socket[s].user = owner[socket[s].id]
    /\ \A t \in Sockets : Attached(t) /\ socket[t].id = socket[s].id => t = s

\* After a logout or a disable has completed, the user's only terminals in
\* the store are those whose creation CloseUsername ran alongside of.
OnlyLateSurvive ==
  \A r \in Requests :
    owner[r] \in Users /\ stored[r] => (gone[owner[r]] => late[r])

\* README.md, "SSH terminal": a session is closed when its user logs out.
LogoutCloses ==
  \A r \in Requests : owner[r] \in Users /\ gone[owner[r]] => ~stored[r]

\* A terminal does not stay open for ever: it is closed even when nobody
\* attaches to it or its creator never learns its id.
EveryTerminalCloses ==
  \A r \in Requests : ssh[r] = "open" ~> ssh[r] = "closed"
=============================================================================
