----------------------- MODULE TerminalSessionsProofs -----------------------
(***************************************************************************)
(* Proofs about TerminalSessions, for any users, any number of requests    *)
(* and sockets, and any two limits.                                        *)
(***************************************************************************)
EXTENDS TerminalSessions, FiniteSetTheorems, TLAPS

\* A session is in the store only between its Add and its removal, and a
\* session that has begun has an owner.
StoredIsAdded ==
  \A r \in Requests :
    /\ stored[r] => create[r] \in {"added", "replied"}
    /\ create[r] # "new" => owner[r] \in Users

\* A socket past its handshake names a session that was handed out, and the
\* one that attached has used up its claim.
SocketInv ==
  \A s \in Sockets :
    /\ socket[s].state # "new" => /\ socket[s].id \in Requests
                                  /\ create[socket[s].id] = "replied"
    /\ Attached(s) => claimed[socket[s].id]

\* From CloseUsername until the next login, whatever the user has in the
\* store or on its way there is marked late.
LateInv ==
  /\ \A u \in Users : gone[u] => ~authenticated[u]
  /\ \A r \in Requests, u \in Users :
       /\ owner[r] = u
       /\ Creating(r) \/ stored[r]
       /\ gone[u] \/ leaving[u] = "closing"
       => late[r]

\* The inductive invariant.
IInv ==
  /\ TypeOK
  /\ NoOrphan
  /\ StoredIsAdded
  /\ SocketInv
  /\ AttachedOnceByOwner
  /\ LateInv
  /\ WithinLimits

\* A socket that moves on keeps its user and session.
LEMMA SocketMoves ==
  ASSUME NEW s \in Sockets, NEW state \in SocketStates,
         socket \in [Sockets -> [state: SocketStates, user: Users \cup {None},
                                 id: Requests \cup {None}]],
         socket' = [socket EXCEPT ![s].state = state]
  PROVE  socket' \in [Sockets -> [state: SocketStates, user: Users \cup {None},
                                  id: Requests \cup {None}]]
  BY SMTT(30)

\* Each step keeps every variable in its type.
LEMMA StepTypeOK == TypeOK /\ [Next]_vars => TypeOK'
<1> SUFFICES ASSUME TypeOK, [Next]_vars PROVE TypeOK'
  OBVIOUS
<1> USE DEF TypeOK, handlerVars, sessionVars, LeaveStates, CreateStates, SocketStates, Closers
<1>1. ASSUME NEW r \in Requests, OpenFails(r) PROVE TypeOK'
  BY <1>1 DEF OpenFails
<1>2. ASSUME NEW r \in Requests, OpenSucceeds(r) PROVE TypeOK'
  BY <1>2 DEF OpenSucceeds
<1>3. ASSUME NEW r \in Requests, Add(r) PROVE TypeOK'
  BY <1>3 DEF Add
<1>4. ASSUME NEW r \in Requests, AddFails(r) PROVE TypeOK'
  BY <1>4 DEF AddFails
<1>5. ASSUME NEW r \in Requests, CloseRejected(r) PROVE TypeOK'
  BY <1>5 DEF CloseRejected
<1>6. ASSUME NEW r \in Requests, Reply(r) PROVE TypeOK'
  BY <1>6 DEF Reply
<1>7. ASSUME NEW r \in Requests, AuditFails(r) PROVE TypeOK'
  BY <1>7 DEF AuditFails, TakeOut
<1>8. ASSUME NEW r \in Requests, CloseTakenOut(r) PROVE TypeOK'
  BY <1>8 DEF CloseTakenOut
<1>9. ASSUME NEW r \in Requests, TimerFires(r) PROVE TypeOK'
  BY <1>9 DEF TimerFires, TakeOut
<1>10. ASSUME NEW r \in Requests, NEW u \in Users, StartCreate(r, u) PROVE TypeOK'
  BY <1>10 DEF StartCreate
<1>11. ASSUME NEW s \in Sockets, Claim(s) PROVE TypeOK'
  <2>1. socket' \in [Sockets -> [state: SocketStates, user: Users \cup {None},
                                id: Requests \cup {None}]]
    BY <1>11, SocketMoves, "streaming" \in SocketStates DEF Claim
  <2>2. claimed' \in [Requests -> BOOLEAN]
    BY <1>11 DEF Claim
  <2>3. UNCHANGED <<handlerVars, create, owner, ssh, stored, timer, closer, late>>
    BY <1>11 DEF Claim
  <2> QED
    BY <2>1, <2>2, <2>3
<1>12. ASSUME NEW s \in Sockets, ClaimFails(s) PROVE TypeOK'
  <2>1. socket' \in [Sockets -> [state: SocketStates, user: Users \cup {None},
                                id: Requests \cup {None}]]
    BY <1>12, SocketMoves, "done" \in SocketStates DEF ClaimFails
  <2>2. UNCHANGED <<handlerVars, sessionVars>>
    BY <1>12 DEF ClaimFails
  <2> QED
    BY <2>1, <2>2
<1>13. ASSUME NEW s \in Sockets, StreamEnds(s) PROVE TypeOK'
  <2>1. socket' \in [Sockets -> [state: SocketStates, user: Users \cup {None},
                                id: Requests \cup {None}]]
    BY <1>13, SocketMoves, "closed" \in SocketStates DEF StreamEnds
  <2>2. ssh' \in [Requests -> {"none", "open", "closed"}]
    BY <1>13 DEF StreamEnds
  <2>3. UNCHANGED <<handlerVars, create, owner, stored, claimed, timer, closer, late>>
    BY <1>13 DEF StreamEnds
  <2> QED
    BY <2>1, <2>2, <2>3
<1>14. ASSUME NEW s \in Sockets, StreamAudit(s) PROVE TypeOK'
  <2>1. socket' \in [Sockets -> [state: SocketStates, user: Users \cup {None},
                                id: Requests \cup {None}]]
    BY <1>14, SocketMoves, "audited" \in SocketStates DEF StreamAudit
  <2>2. UNCHANGED <<handlerVars, sessionVars>>
    BY <1>14 DEF StreamAudit
  <2> QED
    BY <2>1, <2>2
<1>15. ASSUME NEW s \in Sockets, StreamReleases(s) PROVE TypeOK'
  <2>1. socket' \in [Sockets -> [state: SocketStates, user: Users \cup {None},
                                id: Requests \cup {None}]]
    BY <1>15, SocketMoves, "done" \in SocketStates DEF StreamReleases
  <2>2. stored' \in [Requests -> BOOLEAN] /\ closer' \in [Requests -> Closers]
    BY <1>15 DEF StreamReleases, TakeOut
  <2>3. UNCHANGED <<handlerVars, create, owner, ssh, claimed, timer, late>>
    BY <1>15 DEF StreamReleases
  <2> QED
    BY <2>1, <2>2, <2>3
<1>16. ASSUME NEW s \in Sockets, NEW u \in Users, NEW r \in Requests, Upgrade(s, u, r) PROVE TypeOK'
  BY <1>16 DEF Upgrade
<1>17. ASSUME NEW u \in Users, Login(u) PROVE TypeOK'
  BY <1>17 DEF Login
<1>18. ASSUME NEW u \in Users, Logout(u) PROVE TypeOK'
  BY <1>18 DEF Logout, CloseUsername, TakeOut
<1>19. ASSUME NEW u \in Users, Disable(u) PROVE TypeOK'
  BY <1>19 DEF Disable
<1>20. ASSUME NEW u \in Users, DisableCloses(u) PROVE TypeOK'
  BY <1>20 DEF DisableCloses, CloseUsername, TakeOut
<1>21. ASSUME NEW u \in Users, LeaveEnds(u) PROVE TypeOK'
  BY <1>21 DEF LeaveEnds
<1>22. CASE Shutdown
  BY <1>22 DEF Shutdown
<1>23. CASE StoreClose
  BY <1>23 DEF StoreClose, TakeOut
<1>24. CASE UNCHANGED vars
  BY <1>24 DEF vars
<1> QED
  BY <1>1, <1>2, <1>3, <1>4, <1>5, <1>6, <1>7, <1>8, <1>9, <1>10, <1>11, <1>12, <1>13, <1>14, <1>15, <1>16, <1>17, <1>18, <1>19, <1>20, <1>21, <1>22, <1>23, <1>24 DEF Next, CreateStep, StreamStep

\* Each step hands every open connection on to somebody who will close it.
LEMMA StepNoOrphan ==
  ASSUME TypeOK, NoOrphan, TypeOK', [Next]_vars
  PROVE NoOrphan'
<1> USE DEF TypeOK, handlerVars, sessionVars, NoOrphan
<1>1. ASSUME NEW r \in Requests, OpenFails(r) PROVE NoOrphan'
  BY <1>1 DEF OpenFails
<1>2. ASSUME NEW r \in Requests, OpenSucceeds(r) PROVE NoOrphan'
  BY <1>2 DEF OpenSucceeds
<1>3. ASSUME NEW r \in Requests, Add(r) PROVE NoOrphan'
  BY <1>3 DEF Add
<1>4. ASSUME NEW r \in Requests, AddFails(r) PROVE NoOrphan'
  BY <1>4 DEF AddFails
<1>5. ASSUME NEW r \in Requests, CloseRejected(r) PROVE NoOrphan'
  BY <1>5 DEF CloseRejected
<1>6. ASSUME NEW r \in Requests, Reply(r) PROVE NoOrphan'
  BY <1>6 DEF Reply
<1>7. ASSUME NEW r \in Requests, AuditFails(r) PROVE NoOrphan'
  BY <1>7 DEF AuditFails, TakeOut
<1>8. ASSUME NEW r \in Requests, CloseTakenOut(r) PROVE NoOrphan'
  BY <1>8 DEF CloseTakenOut
<1>9. ASSUME NEW r \in Requests, TimerFires(r) PROVE NoOrphan'
  BY <1>9 DEF TimerFires, TakeOut
<1>10. ASSUME NEW r \in Requests, NEW u \in Users, StartCreate(r, u) PROVE NoOrphan'
  BY <1>10 DEF StartCreate
<1>11. ASSUME NEW s \in Sockets, StreamEnds(s) PROVE NoOrphan'
  BY <1>11 DEF StreamEnds
<1>12. ASSUME NEW s \in Sockets, StreamReleases(s) PROVE NoOrphan'
  BY <1>12 DEF StreamReleases, TakeOut
<1>13. ASSUME NEW u \in Users, Logout(u) PROVE NoOrphan'
  BY <1>13 DEF Logout, CloseUsername, TakeOut
<1>14. ASSUME NEW u \in Users, DisableCloses(u) PROVE NoOrphan'
  BY <1>14 DEF DisableCloses, CloseUsername, TakeOut
<1>15. CASE StoreClose
  BY <1>15 DEF StoreClose, TakeOut
<1>16. ASSUME UNCHANGED <<create, ssh, stored, timer, closer>> PROVE NoOrphan'
  BY <1>16
<1>17. ASSUME NEW s \in Sockets,
             Claim(s) \/ ClaimFails(s) \/ StreamAudit(s)
      PROVE UNCHANGED <<create, ssh, stored, timer, closer>>
  BY <1>17 DEF Claim, ClaimFails, Claimable, StreamAudit
<1>18. ASSUME NEW s \in Sockets, NEW u \in Users, NEW r \in Requests,
             Upgrade(s, u, r)
      PROVE UNCHANGED <<create, ssh, stored, timer, closer>>
  BY <1>18 DEF Upgrade
<1>19. ASSUME NEW u \in Users,
             Login(u) \/ Disable(u) \/ LeaveEnds(u)
      PROVE UNCHANGED <<create, ssh, stored, timer, closer>>
  BY <1>19 DEF Disable, LeaveEnds, Login
<1>20. Shutdown => UNCHANGED <<create, ssh, stored, timer, closer>>
  BY DEF Shutdown
<1>21. UNCHANGED vars => UNCHANGED <<create, ssh, stored, timer, closer>>
  BY DEF vars
<1> QED
  BY <1>1, <1>2, <1>3, <1>4, <1>5, <1>6, <1>7, <1>8, <1>9, <1>10, <1>11, <1>12, <1>13, <1>14, <1>15, <1>16, <1>17, <1>18, <1>19, <1>20, <1>21 DEF Next, CreateStep, StreamStep

\* Each step keeps the store within the sessions that were added.
LEMMA StepStoredIsAdded ==
  ASSUME TypeOK, StoredIsAdded, TypeOK', [Next]_vars
  PROVE StoredIsAdded'
<1> USE DEF TypeOK, handlerVars, sessionVars, StoredIsAdded
<1>1. ASSUME NEW r \in Requests, OpenFails(r) PROVE StoredIsAdded'
  BY <1>1 DEF OpenFails
<1>2. ASSUME NEW r \in Requests, OpenSucceeds(r) PROVE StoredIsAdded'
  BY <1>2 DEF OpenSucceeds
<1>3. ASSUME NEW r \in Requests, Add(r) PROVE StoredIsAdded'
  BY <1>3 DEF Add
<1>4. ASSUME NEW r \in Requests, AddFails(r) PROVE StoredIsAdded'
  BY <1>4 DEF AddFails
<1>5. ASSUME NEW r \in Requests, CloseRejected(r) PROVE StoredIsAdded'
  BY <1>5 DEF CloseRejected
<1>6. ASSUME NEW r \in Requests, Reply(r) PROVE StoredIsAdded'
  BY <1>6 DEF Reply
<1>7. ASSUME NEW r \in Requests, AuditFails(r) PROVE StoredIsAdded'
  BY <1>7 DEF AuditFails, TakeOut
<1>8. ASSUME NEW r \in Requests, TimerFires(r) PROVE StoredIsAdded'
  BY <1>8 DEF TimerFires, TakeOut
<1>9. ASSUME NEW r \in Requests, NEW u \in Users, StartCreate(r, u) PROVE StoredIsAdded'
  BY <1>9 DEF StartCreate
<1>10. ASSUME NEW s \in Sockets, StreamReleases(s) PROVE StoredIsAdded'
  BY <1>10 DEF StreamReleases, TakeOut
<1>11. ASSUME NEW u \in Users, Logout(u) PROVE StoredIsAdded'
  BY <1>11 DEF Logout, CloseUsername, TakeOut
<1>12. ASSUME NEW u \in Users, DisableCloses(u) PROVE StoredIsAdded'
  BY <1>12 DEF DisableCloses, CloseUsername, TakeOut
<1>13. CASE StoreClose
  BY <1>13 DEF StoreClose, TakeOut
<1>14. ASSUME UNCHANGED <<create, stored, owner>> PROVE StoredIsAdded'
  BY <1>14
<1>15. ASSUME NEW r \in Requests,
             CloseTakenOut(r)
      PROVE UNCHANGED <<create, stored, owner>>
  BY <1>15 DEF CloseTakenOut
<1>16. ASSUME NEW s \in Sockets,
             Claim(s) \/ ClaimFails(s) \/ StreamEnds(s) \/ StreamAudit(s)
      PROVE UNCHANGED <<create, stored, owner>>
  BY <1>16 DEF Claim, ClaimFails, Claimable, StreamAudit, StreamEnds
<1>17. ASSUME NEW s \in Sockets, NEW u \in Users, NEW r \in Requests,
             Upgrade(s, u, r)
      PROVE UNCHANGED <<create, stored, owner>>
  BY <1>17 DEF Upgrade
<1>18. ASSUME NEW u \in Users,
             Login(u) \/ Disable(u) \/ LeaveEnds(u)
      PROVE UNCHANGED <<create, stored, owner>>
  BY <1>18 DEF Disable, LeaveEnds, Login
<1>19. Shutdown => UNCHANGED <<create, stored, owner>>
  BY DEF Shutdown
<1>20. UNCHANGED vars => UNCHANGED <<create, stored, owner>>
  BY SMTT(30) DEF vars
<1> QED
  BY <1>1, <1>2, <1>3, <1>4, <1>5, <1>6, <1>7, <1>8, <1>9, <1>10, <1>11, <1>12, <1>13, <1>14, <1>15, <1>16, <1>17, <1>18, <1>19, <1>20 DEF Next, CreateStep, StreamStep

\* Each step keeps what a socket knows about its session.
LEMMA StepSocketInv ==
  ASSUME TypeOK, SocketInv, TypeOK', [Next]_vars
  PROVE SocketInv'
<1> USE DEF TypeOK, handlerVars, sessionVars, SocketInv, Attached
<1>1. ASSUME NEW r \in Requests, OpenFails(r) PROVE SocketInv'
  BY <1>1 DEF OpenFails
<1>2. ASSUME NEW r \in Requests, OpenSucceeds(r) PROVE SocketInv'
  BY <1>2 DEF OpenSucceeds
<1>3. ASSUME NEW r \in Requests, Add(r) PROVE SocketInv'
  BY <1>3 DEF Add
<1>4. ASSUME NEW r \in Requests, AddFails(r) PROVE SocketInv'
  BY <1>4 DEF AddFails
<1>5. ASSUME NEW r \in Requests, CloseRejected(r) PROVE SocketInv'
  BY <1>5 DEF CloseRejected
<1>6. ASSUME NEW r \in Requests, Reply(r) PROVE SocketInv'
  BY <1>6 DEF Reply
<1>7. ASSUME NEW r \in Requests, AuditFails(r) PROVE SocketInv'
  BY <1>7 DEF AuditFails, TakeOut
<1>8. ASSUME NEW r \in Requests, NEW u \in Users, StartCreate(r, u) PROVE SocketInv'
  BY <1>8 DEF StartCreate
<1>9. ASSUME NEW s \in Sockets, Claim(s) PROVE SocketInv'
  BY <1>9 DEF Claim, Claimable
<1>10. ASSUME NEW s \in Sockets, ClaimFails(s) PROVE SocketInv'
  BY <1>10 DEF ClaimFails
<1>11. ASSUME NEW s \in Sockets, StreamEnds(s) PROVE SocketInv'
  BY <1>11 DEF StreamEnds
<1>12. ASSUME NEW s \in Sockets, StreamAudit(s) PROVE SocketInv'
  BY <1>12 DEF StreamAudit
<1>13. ASSUME NEW s \in Sockets, StreamReleases(s) PROVE SocketInv'
  BY <1>13 DEF StreamReleases, TakeOut
<1>14. ASSUME NEW s \in Sockets, NEW u \in Users, NEW r \in Requests, Upgrade(s, u, r) PROVE SocketInv'
  BY <1>14 DEF Upgrade
<1>15. ASSUME UNCHANGED <<create, claimed, socket>> PROVE SocketInv'
  BY <1>15
<1>16. ASSUME NEW r \in Requests,
             CloseTakenOut(r) \/ TimerFires(r)
      PROVE UNCHANGED <<create, claimed, socket>>
  BY <1>16 DEF CloseTakenOut, TakeOut, TimerFires
<1>17. ASSUME NEW u \in Users,
             Login(u) \/ Logout(u) \/ Disable(u) \/ DisableCloses(u) \/ LeaveEnds(u)
      PROVE UNCHANGED <<create, claimed, socket>>
  BY <1>17 DEF CloseUsername, Disable, DisableCloses, LeaveEnds, Login, Logout, TakeOut
<1>18. Shutdown \/ StoreClose => UNCHANGED <<create, claimed, socket>>
  BY DEF Shutdown, StoreClose, TakeOut
<1>19. UNCHANGED vars => UNCHANGED <<create, claimed, socket>>
  BY DEF vars
<1> QED
  BY <1>1, <1>2, <1>3, <1>4, <1>5, <1>6, <1>7, <1>8, <1>9, <1>10, <1>11, <1>12, <1>13, <1>14, <1>15, <1>16, <1>17, <1>18, <1>19 DEF Next, CreateStep, StreamStep

\* Each step keeps streams exclusive and with their owner.
LEMMA StepAttached ==
  ASSUME TypeOK, SocketInv, AttachedOnceByOwner, TypeOK', [Next]_vars
  PROVE AttachedOnceByOwner'
<1> USE DEF TypeOK, handlerVars, sessionVars, SocketInv, AttachedOnceByOwner, Attached
<1>1. ASSUME NEW r \in Requests, NEW u \in Users, StartCreate(r, u) PROVE AttachedOnceByOwner'
  BY <1>1 DEF StartCreate
<1>2. ASSUME NEW s \in Sockets, Claim(s) PROVE AttachedOnceByOwner'
  BY <1>2 DEF Claim, Claimable
<1>3. ASSUME NEW s \in Sockets, ClaimFails(s) PROVE AttachedOnceByOwner'
  BY <1>3 DEF ClaimFails
<1>4. ASSUME NEW s \in Sockets, StreamEnds(s) PROVE AttachedOnceByOwner'
  BY <1>4 DEF StreamEnds
<1>5. ASSUME NEW s \in Sockets, StreamAudit(s) PROVE AttachedOnceByOwner'
  BY <1>5 DEF StreamAudit
<1>6. ASSUME NEW s \in Sockets, StreamReleases(s) PROVE AttachedOnceByOwner'
  BY <1>6 DEF StreamReleases, TakeOut
<1>7. ASSUME NEW s \in Sockets, NEW u \in Users, NEW r \in Requests, Upgrade(s, u, r) PROVE AttachedOnceByOwner'
  BY <1>7 DEF Upgrade
<1>8. ASSUME UNCHANGED <<owner, socket>> PROVE AttachedOnceByOwner'
  BY <1>8
<1>9. ASSUME NEW r \in Requests,
             OpenFails(r) \/ OpenSucceeds(r) \/ Add(r) \/ AddFails(r) \/ CloseRejected(r) \/ Reply(r) \/ AuditFails(r) \/ CloseTakenOut(r) \/ TimerFires(r)
      PROVE UNCHANGED <<owner, socket>>
  BY <1>9 DEF Add, AddFails, AuditFails, CloseRejected, CloseTakenOut, OpenFails, OpenSucceeds, Reply, TakeOut, TimerFires
<1>10. ASSUME NEW u \in Users,
             Login(u) \/ Logout(u) \/ Disable(u) \/ DisableCloses(u) \/ LeaveEnds(u)
      PROVE UNCHANGED <<owner, socket>>
  BY <1>10 DEF CloseUsername, Disable, DisableCloses, LeaveEnds, Login, Logout, TakeOut
<1>11. Shutdown \/ StoreClose => UNCHANGED <<owner, socket>>
  BY DEF Shutdown, StoreClose, TakeOut
<1>12. UNCHANGED vars => UNCHANGED <<owner, socket>>
  BY DEF vars
<1> QED
  BY <1>1, <1>2, <1>3, <1>4, <1>5, <1>6, <1>7, <1>8, <1>9, <1>10, <1>11, <1>12 DEF Next, CreateStep, StreamStep

\* Each step keeps the marks of the sessions CloseUsername missed.
LEMMA StepLate ==
  ASSUME TypeOK, StoredIsAdded, LateInv, TypeOK', [Next]_vars
  PROVE LateInv'
<1> USE DEF TypeOK, handlerVars, sessionVars, StoredIsAdded, LateInv, Creating, InStoreOf
<1>1. ASSUME NEW r \in Requests, OpenFails(r) PROVE LateInv'
  BY <1>1 DEF OpenFails
<1>2. ASSUME NEW r \in Requests, OpenSucceeds(r) PROVE LateInv'
  BY <1>2 DEF OpenSucceeds
<1>3. ASSUME NEW r \in Requests, Add(r) PROVE LateInv'
  BY <1>3 DEF Add
<1>4. ASSUME NEW r \in Requests, AddFails(r) PROVE LateInv'
  BY <1>4 DEF AddFails
<1>5. ASSUME NEW r \in Requests, CloseRejected(r) PROVE LateInv'
  BY <1>5 DEF CloseRejected
<1>6. ASSUME NEW r \in Requests, Reply(r) PROVE LateInv'
  BY <1>6 DEF Reply
<1>7. ASSUME NEW r \in Requests, AuditFails(r) PROVE LateInv'
  BY <1>7 DEF AuditFails, TakeOut
<1>8. ASSUME NEW r \in Requests, TimerFires(r) PROVE LateInv'
  BY <1>8 DEF TimerFires, TakeOut
<1>9. ASSUME NEW r \in Requests, NEW u \in Users, StartCreate(r, u) PROVE LateInv'
  BY <1>9 DEF StartCreate
<1>10. ASSUME NEW s \in Sockets, StreamReleases(s) PROVE LateInv'
  BY <1>10 DEF StreamReleases, TakeOut
<1>11. ASSUME NEW u \in Users, Login(u) PROVE LateInv'
  BY <1>11 DEF Login
<1>12. ASSUME NEW u \in Users, Logout(u) PROVE LateInv'
  BY <1>12 DEF Logout, CloseUsername, TakeOut
<1>13. ASSUME NEW u \in Users, Disable(u) PROVE LateInv'
  BY <1>13 DEF Disable
<1>14. ASSUME NEW u \in Users, DisableCloses(u) PROVE LateInv'
  BY <1>14, ZenonT(60) DEF DisableCloses, CloseUsername, TakeOut
<1>15. ASSUME NEW u \in Users, LeaveEnds(u) PROVE LateInv'
  BY <1>15 DEF LeaveEnds
<1>16. CASE StoreClose
  BY <1>16 DEF StoreClose, TakeOut
<1>17. ASSUME UNCHANGED <<authenticated, leaving, gone, create, owner, stored, late>> PROVE LateInv'
  BY <1>17
<1>18. ASSUME NEW r \in Requests,
             CloseTakenOut(r)
      PROVE UNCHANGED <<authenticated, leaving, gone, create, owner, stored, late>>
  BY <1>18 DEF CloseTakenOut
<1>19. ASSUME NEW s \in Sockets,
             Claim(s) \/ ClaimFails(s) \/ StreamEnds(s) \/ StreamAudit(s)
      PROVE UNCHANGED <<authenticated, leaving, gone, create, owner, stored, late>>
  BY <1>19 DEF Claim, ClaimFails, Claimable, StreamAudit, StreamEnds
<1>20. ASSUME NEW s \in Sockets, NEW u \in Users, NEW r \in Requests,
             Upgrade(s, u, r)
      PROVE UNCHANGED <<authenticated, leaving, gone, create, owner, stored, late>>
  BY <1>20 DEF Upgrade
<1>21. Shutdown => UNCHANGED <<authenticated, leaving, gone, create, owner, stored, late>>
  BY DEF Shutdown
<1>22. UNCHANGED vars => UNCHANGED <<authenticated, leaving, gone, create, owner, stored, late>>
  BY DEF vars
<1> QED
  BY <1>1, <1>2, <1>3, <1>4, <1>5, <1>6, <1>7, <1>8, <1>9, <1>10, <1>11, <1>12, <1>13, <1>14, <1>15, <1>16, <1>17, <1>18, <1>19, <1>20, <1>21, <1>22 DEF Next, CreateStep, StreamStep

\* Each step either adds one session under both limits or adds none.
LEMMA StepLimits ==
  ASSUME TypeOK, StoredIsAdded, WithinLimits, TypeOK', [Next]_vars
  PROVE WithinLimits'
<1> USE TerminalAssumption DEF TypeOK, handlerVars, sessionVars
<1>1. /\ IsFiniteSet(InStore) /\ Cardinality(InStore) \in Nat
      /\ \A u \in Users : IsFiniteSet(InStoreOf(u)) /\ Cardinality(InStoreOf(u)) \in Nat
  <2>1. InStore \subseteq Requests /\ \A u \in Users : InStoreOf(u) \subseteq Requests
    BY DEF InStore, InStoreOf
  <2> QED
    BY <2>1, FS_Subset, FS_CardinalityType
<1>2. ASSUME /\ InStore' \subseteq InStore
             /\ \A u \in Users : InStoreOf(u)' \subseteq InStoreOf(u)
      PROVE WithinLimits'
  <2>1. Cardinality(InStore') \in Nat /\ Cardinality(InStore') <= Cardinality(InStore)
    BY <1>1, <1>2, FS_Subset, FS_CardinalityType
  <2>2. \A u \in Users : /\ Cardinality(InStoreOf(u)') \in Nat
                         /\ Cardinality(InStoreOf(u)') <= Cardinality(InStoreOf(u))
    BY <1>1, <1>2, FS_Subset, FS_CardinalityType
  <2> QED
    BY <1>1, <2>1, <2>2 DEF WithinLimits
<1>3. ASSUME NEW r \in Requests, Add(r) PROVE WithinLimits'
  <2>1. r \notin InStore
    BY <1>3 DEF Add, StoredIsAdded, InStore
  <2>2. InStore' = InStore \cup {r}
    BY <1>3 DEF Add, InStore
  <2>3. Cardinality(InStore') <= MaxTerminalSessions
    <3>1. Cardinality(InStore \cup {r}) = Cardinality(InStore) + 1
      BY <1>1, <2>1, FS_AddElement
    <3>2. Cardinality(InStore) < MaxTerminalSessions
      BY <1>3 DEF Add
    <3> QED
      BY <1>1, <2>2, <3>1, <3>2
  <2>4. ASSUME NEW u \in Users
        PROVE Cardinality(InStoreOf(u)') <= MaxTerminalSessionsPerUser
    <3>1. CASE owner[r] = u
      <4>1. InStoreOf(u)' = InStoreOf(u) \cup {r} /\ r \notin InStoreOf(u)
        BY <1>3, <2>1, <3>1 DEF Add, InStore, InStoreOf
      <4>2. Cardinality(InStoreOf(u)) < MaxTerminalSessionsPerUser
        BY <1>3, <3>1 DEF Add
      <4>3. Cardinality(InStoreOf(u) \cup {r}) = Cardinality(InStoreOf(u)) + 1
        BY <1>1, <4>1, FS_AddElement
      <4> QED
        BY <1>1, <4>1, <4>2, <4>3
    <3>2. CASE owner[r] # u
      <4>1. InStoreOf(u)' = InStoreOf(u)
        BY <1>3, <3>2 DEF Add, InStoreOf
      <4> QED
        BY <4>1 DEF WithinLimits
    <3> QED
      BY <3>1, <3>2
  <2> QED
    BY <2>3, <2>4 DEF WithinLimits
<1>4. ASSUME NEW r \in Requests, NEW u \in Users, StartCreate(r, u) PROVE WithinLimits'
  <2>1. ~stored[r] /\ UNCHANGED stored
    BY <1>4 DEF StartCreate, StoredIsAdded
  <2>2. \A q \in Requests : q # r => owner'[q] = owner[q]
    BY <1>4 DEF StartCreate
  <2> QED
    BY <1>2, <2>1, <2>2 DEF InStore, InStoreOf
<1>5. ASSUME UNCHANGED owner, \A r \in Requests : stored'[r] => stored[r]
      PROVE WithinLimits'
  BY <1>2, <1>5 DEF InStore, InStoreOf
<1>6. ASSUME NEW r \in Requests,
             \/ OpenFails(r) \/ OpenSucceeds(r) \/ AddFails(r) \/ CloseRejected(r)
             \/ Reply(r) \/ AuditFails(r) \/ CloseTakenOut(r) \/ TimerFires(r)
      PROVE WithinLimits'
  BY <1>5, <1>6 DEF OpenFails, OpenSucceeds, AddFails, CloseRejected, Reply, AuditFails,
     CloseTakenOut, TimerFires, TakeOut
<1>7. ASSUME NEW s \in Sockets, StreamStep(s) PROVE WithinLimits'
  BY <1>5, <1>7 DEF StreamStep, Claim, ClaimFails, StreamEnds, StreamAudit, StreamReleases,
     TakeOut
<1>8. ASSUME NEW s \in Sockets, NEW u \in Users, NEW r \in Requests, Upgrade(s, u, r)
      PROVE WithinLimits'
  BY <1>5, <1>8 DEF Upgrade
<1>9. ASSUME NEW u \in Users,
             Login(u) \/ Logout(u) \/ Disable(u) \/ DisableCloses(u) \/ LeaveEnds(u)
      PROVE WithinLimits'
  BY <1>5, <1>9 DEF Login, Logout, Disable, DisableCloses, LeaveEnds, CloseUsername, TakeOut
<1>10. Shutdown \/ StoreClose \/ UNCHANGED vars => WithinLimits'
  BY <1>5 DEF Shutdown, StoreClose, TakeOut, vars
<1> QED
  BY <1>3, <1>4, <1>6, <1>7, <1>8, <1>9, <1>10 DEF Next, CreateStep

\* An empty store and no requests satisfy the inductive invariant.
LEMMA InitIInv == Init => IInv
<1> SUFFICES ASSUME Init PROVE IInv
  OBVIOUS
<1> USE TerminalAssumption DEF Init
<1>1. TypeOK
  BY DEF TypeOK, LeaveStates, CreateStates, SocketStates, Closers
<1>2. NoOrphan /\ StoredIsAdded /\ SocketInv /\ AttachedOnceByOwner
  BY DEF NoOrphan, StoredIsAdded, SocketInv, AttachedOnceByOwner, Attached
<1>3. LateInv
  BY DEF LateInv, Creating
<1>4. WithinLimits
  <2>1. InStore = {} /\ \A u \in Users : InStoreOf(u) = {}
    BY DEF InStore, InStoreOf
  <2>2. Cardinality(InStore) = 0 /\ \A u \in Users : Cardinality(InStoreOf(u)) = 0
    BY <2>1, FS_EmptySet
  <2> QED
    BY <2>2 DEF WithinLimits
<1> QED
  BY <1>1, <1>2, <1>3, <1>4 DEF IInv

\* The inductive invariant holds in every reachable state.
THEOREM Inductive == Spec => []IInv
<1>1. IInv /\ [Next]_vars => IInv'
  BY StepTypeOK, StepNoOrphan, StepStoredIsAdded, StepSocketInv, StepAttached, StepLate,
     StepLimits DEF IInv
<1> QED
  BY <1>1, InitIInv, PTL DEF Spec

\* Type correctness of the terminal handlers and their store.
THEOREM TypeCorrect == Spec => []TypeOK
<1>1. IInv => TypeOK
  BY DEF IInv
<1> QED
  BY <1>1, Inductive, PTL

\* Every open SSH connection has somebody who will close it, whatever the
\* number of users, requests and sockets.
THEOREM NoOrphanedTerminal == Spec => []NoOrphan
<1>1. IInv => NoOrphan
  BY DEF IInv
<1> QED
  BY <1>1, Inductive, PTL

\* The store respects maxTerminalSessions and maxTerminalSessionsPerUser.
THEOREM LimitsHold == Spec => []WithinLimits
<1>1. IInv => WithinLimits
  BY DEF IInv
<1> QED
  BY <1>1, Inductive, PTL

\* A terminal is attached at most once and only by its creator.
THEOREM ExclusiveAttachment == Spec => []AttachedOnceByOwner
<1>1. IInv => AttachedOnceByOwner
  BY DEF IInv
<1> QED
  BY <1>1, Inductive, PTL

\* What logout and account disabling guarantee: only a terminal whose creation
\* overlapped with CloseUsername can be in the store afterwards.
THEOREM LogoutMissesOnlyLate == Spec => []OnlyLateSurvive
<1>1. IInv => OnlyLateSurvive
  BY DEF IInv, LateInv, OnlyLateSurvive
<1> QED
  BY <1>1, Inductive, PTL
=============================================================================
