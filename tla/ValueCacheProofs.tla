-------------------------- MODULE ValueCacheProofs --------------------------
(***************************************************************************)
(* Proofs about ValueCache, for any number of callers and administrators,  *)
(* any ttl and any number of changes of Slurm's state.                     *)
(***************************************************************************)
EXTENDS ValueCache, TLAPS

\* The loader's own error never reaches the shared value: an aborted load
\* belongs to a cancelled caller, and such a caller stores nothing.
NoSharedAbort ==
  /\ value # Aborted
  /\ \A c \in Callers : buf[c] = Aborted => cancelled[c]

\* Nothing is acknowledged before Slurm has it.
AckedExists ==
  /\ acked <= truth
  /\ \A a \in Admins : version[a] <= truth

\* A finished load that misses an acknowledged change was in flight when the
\* change was acknowledged.
LoadRaced ==
  \A c \in Callers :
    pc[c] = "loaded" /\ buf[c] \in Versions /\ buf[c] < acked => raced[c]

\* The inductive invariant.
IInv ==
  /\ TypeOK
  /\ SingleFlight
  /\ NoSharedAbort
  /\ AckedExists
  /\ LoadRaced
  /\ StaleOnlyAfterRace

USE DEF Versions, Values, Failed, Aborted, NoResult, CallerStates, AdminStates

\* Every initial state satisfies the inductive invariant: an empty cache of
\* which nobody is a loader.
LEMMA InitIInv == Init => IInv
<1> SUFFICES ASSUME Init PROVE IInv
  OBVIOUS
<1> USE CacheAssumption DEF Init
<1>1. TypeOK
  <2>1. refreshing \in BOOLEAN /\ storedRaced \in BOOLEAN
    OBVIOUS
  <2>2. cancelled \in [Callers -> BOOLEAN] /\ raced \in [Callers -> BOOLEAN]
    OBVIOUS
  <2>3. /\ truth \in Nat /\ age \in 0..TTL /\ value \in Values
        /\ version \in [Admins -> Versions] /\ acked \in Versions
        /\ floor \in [Callers -> Versions]
    OBVIOUS
  <2>4. /\ buf \in [Callers -> Values]
        /\ result \in [Callers -> Values \cup {NoResult}]
    OBVIOUS
  <2>5. /\ pc \in [Callers \cup Admins -> CallerStates \cup AdminStates]
        /\ \A c \in Callers : pc[c] \in CallerStates
        /\ \A a \in Admins : pc[a] \in AdminStates
    OBVIOUS
  <2> QED
    BY <2>1, <2>2, <2>3, <2>4, <2>5 DEF TypeOK
<1>2. SingleFlight
  BY DEF SingleFlight, Loading
<1>3. NoSharedAbort /\ AckedExists
  BY DEF NoSharedAbort, AckedExists
<1>4. LoadRaced /\ StaleOnlyAfterRace
  BY DEF LoadRaced, StaleOnlyAfterRace, Fresh
<1> QED
  BY <1>1, <1>2, <1>3, <1>4 DEF IInv

\* Each step keeps every variable in its type.
LEMMA StepTypeOK == TypeOK /\ [Next]_vars => TypeOK'
<1> SUFFICES ASSUME TypeOK, [Next]_vars PROVE TypeOK'
  OBVIOUS
<1> USE CacheAssumption DEF TypeOK, slurmVars, cacheVars, callerVars
<1>1. ASSUME NEW c \in Callers, Call(c) PROVE TypeOK'
  BY <1>1 DEF Call
<1>2. ASSUME NEW c \in Callers, CancelContext(c) PROVE TypeOK'
  BY <1>2 DEF CancelContext
<1>3. ASSUME NEW c \in Callers, Hit(c) PROVE TypeOK'
  BY <1>3 DEF Hit, Finish
<1>4. ASSUME NEW c \in Callers, Join(c) PROVE TypeOK'
  BY <1>4 DEF Join
<1>5. ASSUME NEW c \in Callers, Lead(c) PROVE TypeOK'
  BY <1>5 DEF Lead
<1>6. ASSUME NEW c \in Callers, Resume(c) PROVE TypeOK'
  BY <1>6 DEF Resume
<1>7. ASSUME NEW c \in Callers, GiveUp(c) PROVE TypeOK'
  BY <1>7 DEF GiveUp, Finish
<1>8. ASSUME NEW c \in Callers, Load(c) PROVE TypeOK'
  BY <1>8 DEF Load
<1>9. ASSUME NEW c \in Callers, LoadFails(c) PROVE TypeOK'
  BY <1>9 DEF LoadFails
<1>10. ASSUME NEW c \in Callers, Store(c) PROVE TypeOK'
  <2>1. pc' = [p \in Callers \cup Admins |->
                IF p = c THEN "stored" ELSE IF pc[p] = "wait" THEN "woken" ELSE pc[p]]
    BY <1>10 DEF Store, Wake
  <2>2. pc' \in [Callers \cup Admins -> CallerStates \cup AdminStates]
    BY <2>1
  <2>3. /\ \A d \in Callers : pc'[d] \in CallerStates
        /\ \A a \in Admins : pc'[a] \in AdminStates
    BY <2>1
  <2>4. /\ age' \in 0..TTL
        /\ value' \in Values
    BY <1>10 DEF Store
  <2>7. refreshing' \in BOOLEAN
    BY <1>10 DEF Store
  <2>6. storedRaced' \in BOOLEAN
    <3>1. CASE cancelled[c]
      BY <1>10, <3>1 DEF Store
    <3>2. CASE ~cancelled[c]
      <4>1. storedRaced' = raced[c] /\ raced[c] \in BOOLEAN
        BY <1>10, <3>2 DEF Store
      <4> QED
        BY <4>1
    <3> QED
      BY <3>1, <3>2
  <2>5. UNCHANGED <<truth, version, acked, cancelled, buf, result, floor, raced>>
    BY <1>10 DEF Store
  <2> QED
    BY <2>2, <2>3, <2>4, <2>5, <2>6, <2>7
<1>11. ASSUME NEW c \in Callers, Return(c) PROVE TypeOK'
  BY <1>11 DEF Return, Finish
<1>12. ASSUME NEW a \in Admins, Apply(a) PROVE TypeOK'
  BY <1>12 DEF Apply
<1>13. ASSUME NEW a \in Admins, Invalidate(a) PROVE TypeOK'
  BY <1>13 DEF Invalidate
<1>14. CASE SlurmChanges
  BY <1>14 DEF SlurmChanges
<1>15. CASE Tick
  BY <1>15 DEF Tick
<1>16. CASE UNCHANGED vars
  BY <1>16 DEF vars
<1> QED
  BY <1>1, <1>2, <1>3, <1>4, <1>5, <1>6, <1>7, <1>8, <1>9, <1>10, <1>11,
     <1>12, <1>13, <1>14, <1>15, <1>16, SMTT(30) DEF Next, GetStep

\* Each step keeps the inductive invariant.
LEMMA StepIInv == IInv /\ [Next]_vars => IInv'
<1> SUFFICES ASSUME IInv, [Next]_vars PROVE IInv'
  OBVIOUS
<1>0. TypeOK /\ TypeOK'
  BY StepTypeOK DEF IInv
<1> USE <1>0, CacheAssumption DEF slurmVars, cacheVars, callerVars
<1>1. ASSUME NEW c \in Callers, Call(c) PROVE IInv'
  <2>1. SingleFlight'
    BY <1>1 DEF IInv, TypeOK, Call, SingleFlight, Loading
  <2>2. NoSharedAbort'
    BY <1>1 DEF IInv, TypeOK, Call, NoSharedAbort
  <2>3. AckedExists'
    BY <1>1 DEF IInv, TypeOK, Call, AckedExists
  <2>4. LoadRaced'
    BY <1>1 DEF IInv, TypeOK, Call, LoadRaced, AckedExists
  <2>5. StaleOnlyAfterRace'
    BY <1>1 DEF IInv, TypeOK, Call, StaleOnlyAfterRace, Fresh, LoadRaced
  <2> QED
    BY <2>1, <2>2, <2>3, <2>4, <2>5 DEF IInv
<1>2. ASSUME NEW c \in Callers, CancelContext(c) PROVE IInv'
  <2>1. SingleFlight'
    BY <1>2 DEF IInv, TypeOK, CancelContext, SingleFlight, Loading
  <2>2. NoSharedAbort'
    BY <1>2 DEF IInv, TypeOK, CancelContext, NoSharedAbort
  <2>3. AckedExists'
    BY <1>2 DEF IInv, TypeOK, CancelContext, AckedExists
  <2>4. LoadRaced'
    BY <1>2 DEF IInv, TypeOK, CancelContext, LoadRaced, AckedExists
  <2>5. StaleOnlyAfterRace'
    BY <1>2 DEF IInv, TypeOK, CancelContext, StaleOnlyAfterRace, Fresh, LoadRaced
  <2> QED
    BY <2>1, <2>2, <2>3, <2>4, <2>5 DEF IInv
<1>3. ASSUME NEW c \in Callers, Hit(c) PROVE IInv'
  <2>1. SingleFlight'
    BY <1>3 DEF IInv, TypeOK, Hit, Finish, SingleFlight, Loading
  <2>2. NoSharedAbort'
    BY <1>3 DEF IInv, TypeOK, Hit, Finish, NoSharedAbort
  <2>3. AckedExists'
    BY <1>3 DEF IInv, TypeOK, Hit, Finish, AckedExists
  <2>4. LoadRaced'
    BY <1>3 DEF IInv, TypeOK, Hit, Finish, LoadRaced, AckedExists
  <2>5. StaleOnlyAfterRace'
    BY <1>3 DEF IInv, TypeOK, Hit, Finish, StaleOnlyAfterRace, Fresh, LoadRaced
  <2> QED
    BY <2>1, <2>2, <2>3, <2>4, <2>5 DEF IInv
<1>4. ASSUME NEW c \in Callers, Join(c) PROVE IInv'
  <2>1. SingleFlight'
    BY <1>4 DEF IInv, TypeOK, Join, SingleFlight, Loading
  <2>2. NoSharedAbort'
    BY <1>4 DEF IInv, TypeOK, Join, NoSharedAbort
  <2>3. AckedExists'
    BY <1>4 DEF IInv, TypeOK, Join, AckedExists
  <2>4. LoadRaced'
    BY <1>4 DEF IInv, TypeOK, Join, LoadRaced, AckedExists
  <2>5. StaleOnlyAfterRace'
    BY <1>4 DEF IInv, TypeOK, Join, StaleOnlyAfterRace, Fresh, LoadRaced
  <2> QED
    BY <2>1, <2>2, <2>3, <2>4, <2>5 DEF IInv
<1>5. ASSUME NEW c \in Callers, Lead(c) PROVE IInv'
  <2>1. SingleFlight'
    BY <1>5 DEF IInv, TypeOK, Lead, SingleFlight, Loading
  <2>2. NoSharedAbort'
    BY <1>5 DEF IInv, TypeOK, Lead, NoSharedAbort
  <2>3. AckedExists'
    BY <1>5 DEF IInv, TypeOK, Lead, AckedExists
  <2>4. LoadRaced'
    BY <1>5 DEF IInv, TypeOK, Lead, LoadRaced, AckedExists
  <2>5. StaleOnlyAfterRace'
    BY <1>5 DEF IInv, TypeOK, Lead, StaleOnlyAfterRace, Fresh, LoadRaced
  <2> QED
    BY <2>1, <2>2, <2>3, <2>4, <2>5 DEF IInv
<1>6. ASSUME NEW c \in Callers, Resume(c) PROVE IInv'
  <2>1. SingleFlight'
    BY <1>6 DEF IInv, TypeOK, Resume, SingleFlight, Loading
  <2>2. NoSharedAbort'
    BY <1>6 DEF IInv, TypeOK, Resume, NoSharedAbort
  <2>3. AckedExists'
    BY <1>6 DEF IInv, TypeOK, Resume, AckedExists
  <2>4. LoadRaced'
    BY <1>6 DEF IInv, TypeOK, Resume, LoadRaced, AckedExists
  <2>5. StaleOnlyAfterRace'
    BY <1>6 DEF IInv, TypeOK, Resume, StaleOnlyAfterRace, Fresh, LoadRaced
  <2> QED
    BY <2>1, <2>2, <2>3, <2>4, <2>5 DEF IInv
<1>7. ASSUME NEW c \in Callers, GiveUp(c) PROVE IInv'
  <2>1. SingleFlight'
    BY <1>7 DEF IInv, TypeOK, GiveUp, Finish, SingleFlight, Loading
  <2>2. NoSharedAbort'
    BY <1>7 DEF IInv, TypeOK, GiveUp, Finish, NoSharedAbort
  <2>3. AckedExists'
    BY <1>7 DEF IInv, TypeOK, GiveUp, Finish, AckedExists
  <2>4. LoadRaced'
    BY <1>7 DEF IInv, TypeOK, GiveUp, Finish, LoadRaced, AckedExists
  <2>5. StaleOnlyAfterRace'
    BY <1>7 DEF IInv, TypeOK, GiveUp, Finish, StaleOnlyAfterRace, Fresh, LoadRaced
  <2> QED
    BY <2>1, <2>2, <2>3, <2>4, <2>5 DEF IInv
<1>8. ASSUME NEW c \in Callers, Load(c) PROVE IInv'
  <2>1. SingleFlight'
    BY <1>8 DEF IInv, TypeOK, Load, SingleFlight, Loading
  <2>2. NoSharedAbort'
    BY <1>8 DEF IInv, TypeOK, Load, NoSharedAbort
  <2>3. AckedExists'
    BY <1>8 DEF IInv, TypeOK, Load, AckedExists
  <2>4. LoadRaced'
    BY <1>8 DEF IInv, TypeOK, Load, LoadRaced, AckedExists
  <2>5. StaleOnlyAfterRace'
    BY <1>8 DEF IInv, TypeOK, Load, StaleOnlyAfterRace, Fresh, LoadRaced
  <2> QED
    BY <2>1, <2>2, <2>3, <2>4, <2>5 DEF IInv
<1>9. ASSUME NEW c \in Callers, LoadFails(c) PROVE IInv'
  <2>1. SingleFlight'
    BY <1>9 DEF IInv, TypeOK, LoadFails, SingleFlight, Loading
  <2>2. NoSharedAbort'
    BY <1>9 DEF IInv, TypeOK, LoadFails, NoSharedAbort
  <2>3. AckedExists'
    BY <1>9 DEF IInv, TypeOK, LoadFails, AckedExists
  <2>4. LoadRaced'
    BY <1>9 DEF IInv, TypeOK, LoadFails, LoadRaced, AckedExists
  <2>5. StaleOnlyAfterRace'
    BY <1>9 DEF IInv, TypeOK, LoadFails, StaleOnlyAfterRace, Fresh, LoadRaced
  <2> QED
    BY <2>1, <2>2, <2>3, <2>4, <2>5 DEF IInv
<1>10. ASSUME NEW c \in Callers, Store(c) PROVE IInv'
  <2>1. SingleFlight'
    BY <1>10, ZenonT(30) DEF IInv, TypeOK, Store, Wake, SingleFlight, Loading
  <2>2. NoSharedAbort'
    BY <1>10 DEF IInv, TypeOK, Store, Wake, NoSharedAbort
  <2>3. AckedExists'
    BY <1>10 DEF IInv, TypeOK, Store, Wake, AckedExists
  <2>4. LoadRaced'
    BY <1>10 DEF IInv, TypeOK, Store, Wake, LoadRaced, AckedExists
  <2>5. StaleOnlyAfterRace'
    BY <1>10 DEF IInv, TypeOK, Store, Wake, StaleOnlyAfterRace, Fresh, LoadRaced
  <2> QED
    BY <2>1, <2>2, <2>3, <2>4, <2>5 DEF IInv
<1>11. ASSUME NEW c \in Callers, Return(c) PROVE IInv'
  <2>1. SingleFlight'
    BY <1>11 DEF IInv, TypeOK, Return, Finish, SingleFlight, Loading
  <2>2. NoSharedAbort'
    BY <1>11 DEF IInv, TypeOK, Return, Finish, NoSharedAbort
  <2>3. AckedExists'
    BY <1>11 DEF IInv, TypeOK, Return, Finish, AckedExists
  <2>4. LoadRaced'
    BY <1>11 DEF IInv, TypeOK, Return, Finish, LoadRaced, AckedExists
  <2>5. StaleOnlyAfterRace'
    BY <1>11 DEF IInv, TypeOK, Return, Finish, StaleOnlyAfterRace, Fresh, LoadRaced
  <2> QED
    BY <2>1, <2>2, <2>3, <2>4, <2>5 DEF IInv
<1>12. ASSUME NEW a \in Admins, Apply(a) PROVE IInv'
  <2>1. SingleFlight'
    BY <1>12 DEF IInv, TypeOK, Apply, SingleFlight, Loading
  <2>2. NoSharedAbort'
    BY <1>12 DEF IInv, TypeOK, Apply, NoSharedAbort
  <2>3. AckedExists'
    BY <1>12 DEF IInv, TypeOK, Apply, AckedExists
  <2>4. LoadRaced'
    BY <1>12 DEF IInv, TypeOK, Apply, LoadRaced, AckedExists
  <2>5. StaleOnlyAfterRace'
    BY <1>12 DEF IInv, TypeOK, Apply, StaleOnlyAfterRace, Fresh, LoadRaced
  <2> QED
    BY <2>1, <2>2, <2>3, <2>4, <2>5 DEF IInv
<1>13. ASSUME NEW a \in Admins, Invalidate(a) PROVE IInv'
  <2>1. SingleFlight'
    BY <1>13 DEF IInv, TypeOK, Invalidate, SingleFlight, Loading
  <2>2. NoSharedAbort'
    BY <1>13 DEF IInv, TypeOK, Invalidate, NoSharedAbort
  <2>3. AckedExists'
    BY <1>13 DEF IInv, TypeOK, Invalidate, AckedExists
  <2>4. LoadRaced'
    BY <1>13 DEF IInv, TypeOK, Invalidate, LoadRaced, AckedExists
  <2>5. StaleOnlyAfterRace'
    BY <1>13 DEF IInv, TypeOK, Invalidate, StaleOnlyAfterRace, Fresh, LoadRaced
  <2> QED
    BY <2>1, <2>2, <2>3, <2>4, <2>5 DEF IInv
<1>14. CASE SlurmChanges
  <2>1. SingleFlight'
    BY <1>14 DEF IInv, TypeOK, SlurmChanges, SingleFlight, Loading
  <2>2. NoSharedAbort'
    BY <1>14 DEF IInv, TypeOK, SlurmChanges, NoSharedAbort
  <2>3. AckedExists'
    BY <1>14 DEF IInv, TypeOK, SlurmChanges, AckedExists
  <2>4. LoadRaced'
    BY <1>14 DEF IInv, TypeOK, SlurmChanges, LoadRaced, AckedExists
  <2>5. StaleOnlyAfterRace'
    BY <1>14 DEF IInv, TypeOK, SlurmChanges, StaleOnlyAfterRace, Fresh, LoadRaced
  <2> QED
    BY <2>1, <2>2, <2>3, <2>4, <2>5 DEF IInv
<1>15. CASE Tick
  <2>1. SingleFlight'
    BY <1>15 DEF IInv, TypeOK, Tick, SingleFlight, Loading
  <2>2. NoSharedAbort'
    BY <1>15 DEF IInv, TypeOK, Tick, NoSharedAbort
  <2>3. AckedExists'
    BY <1>15 DEF IInv, TypeOK, Tick, AckedExists
  <2>4. LoadRaced'
    BY <1>15 DEF IInv, TypeOK, Tick, LoadRaced, AckedExists
  <2>5. StaleOnlyAfterRace'
    BY <1>15 DEF IInv, TypeOK, Tick, StaleOnlyAfterRace, Fresh, LoadRaced
  <2> QED
    BY <2>1, <2>2, <2>3, <2>4, <2>5 DEF IInv
<1>16. CASE UNCHANGED vars
  BY <1>16 DEF vars, IInv, TypeOK, SingleFlight, Loading, NoSharedAbort, AckedExists,
     LoadRaced, StaleOnlyAfterRace, Fresh
<1> QED
  BY <1>1, <1>2, <1>3, <1>4, <1>5, <1>6, <1>7, <1>8, <1>9, <1>10, <1>11, <1>12, <1>13, <1>14, <1>15, <1>16 DEF Next, GetStep

\* Type correctness of the cache protocol.
THEOREM TypeCorrect == Spec => []TypeOK
<1>1. Init => TypeOK
  BY InitIInv DEF IInv
<1> QED
  BY <1>1, StepTypeOK, PTL DEF Spec

\* The inductive invariant holds in every reachable state.
THEOREM Inductive == Spec => []IInv
BY InitIInv, StepIInv, PTL DEF Spec

\* One Slurm command at a time per cache: the loaders of valueCache.get
\* exclude each other, for any number of concurrent requests.
THEOREM LoaderExclusion == Spec => []SingleFlight
<1>1. IInv => SingleFlight
  BY DEF IInv
<1> QED
  BY <1>1, Inductive, PTL

\* What invalidate guarantees after CancelJob and SetNodeState: only a load
\* already in flight can put a value from before the change into the cache.
THEOREM InvalidateCoversAllButFlight == Spec => []StaleOnlyAfterRace
<1>1. IInv => StaleOnlyAfterRace
  BY DEF IInv
<1> QED
  BY <1>1, Inductive, PTL

\* A request sees a context error only when its own context is done.
THEOREM CancellationIsPrivate == Spec => CancelIsPrivate
<1> DEFINE A == \A c \in Callers :
                  result'[c] = Aborted /\ result[c] = NoResult => cancelled[c]
<1>1. ASSUME IInv, [Next]_vars PROVE [A]_vars
  <2> SUFFICES ASSUME Next, NEW d \in Callers,
                      result'[d] = Aborted, result[d] = NoResult
               PROVE cancelled[d]
    BY <1>1
  <2> USE <1>1 DEF IInv, TypeOK, NoSharedAbort, slurmVars, cacheVars, callerVars, Finish
  <2>1. ASSUME NEW c \in Callers, Call(c) PROVE cancelled[d]
    BY <2>1 DEF Call
  <2>2. ASSUME NEW c \in Callers, Hit(c) PROVE cancelled[d]
    BY <2>2 DEF Hit
  <2>3. ASSUME NEW c \in Callers, GiveUp(c) PROVE cancelled[d]
    BY <2>3 DEF GiveUp
  <2>4. ASSUME NEW c \in Callers, Return(c) PROVE cancelled[d]
    BY <2>4 DEF Return
  <2>5. ASSUME UNCHANGED result PROVE cancelled[d]
    BY <2>5
  <2>6. ASSUME NEW c \in Callers,
               \/ CancelContext(c) \/ Join(c) \/ Lead(c) \/ Resume(c)
               \/ Load(c) \/ LoadFails(c) \/ Store(c)
        PROVE UNCHANGED result
    BY <2>6 DEF CancelContext, Join, Lead, Resume, Load, LoadFails, Store
  <2>7. ASSUME NEW a \in Admins, Apply(a) \/ Invalidate(a) PROVE UNCHANGED result
    BY <2>7 DEF Apply, Invalidate
  <2>8. SlurmChanges \/ Tick => UNCHANGED result
    BY DEF SlurmChanges, Tick
  <2> QED
    BY <2>1, <2>2, <2>3, <2>4, <2>5, <2>6, <2>7, <2>8 DEF Next, GetStep
<1> QED
  BY <1>1, Inductive, PTL DEF Spec, CancelIsPrivate
=============================================================================
