-------------------------- MODULE JobOutputProofs --------------------------
(***************************************************************************)
(* Proofs about JobOutput, for any number of requests, any slow or hung    *)
(* files and any number of slots.                                          *)
(***************************************************************************)
EXTENDS JobOutput, FiniteSetTheorems, TLAPS

\* Who is where: a handler owns a slot only before the hand-off and on the
\* way out, and the goroutine exists only after it.
HandOff ==
  \A r \in Requests :
    /\ owned[r] => handler[r] \in {"looking", "leaving"} /\ reader[r] = "none"
    /\ handler[r] = "looking" => owned[r]
    /\ handler[r] \in {"new", "looking"} => reader[r] = "none"
    /\ handler[r] \notin {"leaving", "done"} => audit[r] = "none" /\ ~served[r]

\* A goroutine left alone has an ended context, so that what it sends is the
\* error of a deadline that passed or of a client that left.
ReadContext ==
  \A r \in Requests :
    /\ reader[r] \in {"none", "running"} => result[r] = "none"
    /\ reader[r] = "running" => handler[r] = "waiting" \/ context[r] \in {"cancelled", "deadline"}
    /\ context[r] = "closed" => handler[r] = "done"
    /\ result[r] \in {"cancelled", "deadline"} => context[r] = result[r]
    /\ result[r] # "closed"

\* The inductive invariant.
IInv ==
  /\ TypeOK
  /\ HandOff
  /\ ReadContext
  /\ SlotAccounting
  /\ AuditTruthful

\* Each step keeps every variable in its type.
LEMMA StepTypeOK == TypeOK /\ [Next]_vars => TypeOK'
<1> SUFFICES ASSUME TypeOK, [Next]_vars PROVE TypeOK'
  OBVIOUS
<1> USE DEF TypeOK, Handlers, Contexts, Readers, Results, Outcomes
<1>1. ASSUME NEW r \in Requests, Reject(r) PROVE TypeOK'
  BY <1>1 DEF Reject, Answer
<1>2. ASSUME NEW r \in Requests, Admit(r) PROVE TypeOK'
  BY <1>2, JobOutputAssumption DEF Admit
<1>3. ASSUME NEW r \in Requests, RateLimited(r) PROVE TypeOK'
  BY <1>3 DEF RateLimited, Answer
<1>4. ASSUME NEW r \in Requests, LookupFails(r) PROVE TypeOK'
  BY <1>4 DEF LookupFails, Answer
<1>5. ASSUME NEW r \in Requests, StartRead(r) PROVE TypeOK'
  BY <1>5 DEF StartRead
<1>6. ASSUME NEW r \in Requests, TakeResult(r) PROVE TypeOK'
  BY <1>6 DEF TakeResult, Answer, ResultOutcome
<1>7. ASSUME NEW r \in Requests, TakeDone(r) PROVE TypeOK'
  BY <1>7 DEF TakeDone, Answer
<1>8. ASSUME NEW r \in Requests, Return(r) PROVE TypeOK'
  BY <1>8, JobOutputAssumption DEF Return
<1>9. ASSUME NEW r \in Requests, Read(r) PROVE TypeOK'
  BY <1>9 DEF Read, ReadOutcomes
<1>10. ASSUME NEW r \in Requests, ReaderReturns(r) PROVE TypeOK'
  BY <1>10, JobOutputAssumption DEF ReaderReturns
<1>11. ASSUME NEW r \in Requests, ClientLeaves(r) PROVE TypeOK'
  BY <1>11 DEF ClientLeaves
<1>12. ASSUME NEW r \in Requests, Deadline(r) PROVE TypeOK'
  BY <1>12 DEF Deadline
<1>13. ASSUME NEW r \in Requests, NextRequest(r) PROVE TypeOK'
  BY <1>13 DEF NextRequest
<1>14. CASE UNCHANGED vars
  BY <1>14 DEF vars
<1> QED
  BY <1>1, <1>2, <1>3, <1>4, <1>5, <1>6, <1>7, <1>8, <1>9, <1>10, <1>11, <1>12, <1>13, <1>14 DEF Next, HandlerStep

\* Each step respects the hand-off of the slot.
LEMMA StepHandOff == TypeOK /\ HandOff /\ [Next]_vars => HandOff'
<1> SUFFICES ASSUME TypeOK, HandOff, [Next]_vars PROVE HandOff'
  OBVIOUS
<1> USE DEF TypeOK, HandOff, Handlers, Readers
<1>1. ASSUME NEW r \in Requests, Reject(r) PROVE HandOff'
  BY <1>1 DEF Reject, Answer
<1>2. ASSUME NEW r \in Requests, Admit(r) PROVE HandOff'
  BY <1>2 DEF Admit
<1>3. ASSUME NEW r \in Requests, RateLimited(r) PROVE HandOff'
  BY <1>3 DEF RateLimited, Answer
<1>4. ASSUME NEW r \in Requests, LookupFails(r) PROVE HandOff'
  BY <1>4 DEF LookupFails, Answer
<1>5. ASSUME NEW r \in Requests, StartRead(r) PROVE HandOff'
  BY <1>5 DEF StartRead
<1>6. ASSUME NEW r \in Requests, TakeResult(r) PROVE HandOff'
  BY <1>6 DEF TakeResult, Answer, ResultOutcome
<1>7. ASSUME NEW r \in Requests, TakeDone(r) PROVE HandOff'
  BY <1>7 DEF TakeDone, Answer
<1>8. ASSUME NEW r \in Requests, Return(r) PROVE HandOff'
  BY <1>8 DEF Return
<1>9. ASSUME NEW r \in Requests, Read(r) PROVE HandOff'
  BY <1>9 DEF Read, ReadOutcomes
<1>10. ASSUME NEW r \in Requests, ReaderReturns(r) PROVE HandOff'
  BY <1>10 DEF ReaderReturns
<1>11. ASSUME NEW r \in Requests, ClientLeaves(r) PROVE HandOff'
  BY <1>11 DEF ClientLeaves
<1>12. ASSUME NEW r \in Requests, Deadline(r) PROVE HandOff'
  BY <1>12 DEF Deadline
<1>13. ASSUME NEW r \in Requests, NextRequest(r) PROVE HandOff'
  BY <1>13 DEF NextRequest
<1>14. CASE UNCHANGED vars
  BY <1>14 DEF vars
<1> QED
  BY <1>1, <1>2, <1>3, <1>4, <1>5, <1>6, <1>7, <1>8, <1>9, <1>10, <1>11, <1>12, <1>13, <1>14 DEF Next, HandlerStep

\* Each step keeps results and contexts in accord.
LEMMA StepReadContext == TypeOK /\ HandOff /\ ReadContext /\ [Next]_vars => ReadContext'
<1> SUFFICES ASSUME TypeOK, HandOff, ReadContext, [Next]_vars PROVE ReadContext'
  OBVIOUS
<1> USE DEF TypeOK, HandOff, ReadContext, Handlers, Contexts, Readers, Results
<1>1. ASSUME NEW r \in Requests, Reject(r) PROVE ReadContext'
  BY <1>1 DEF Reject, Answer
<1>2. ASSUME NEW r \in Requests, Admit(r) PROVE ReadContext'
  BY <1>2 DEF Admit
<1>3. ASSUME NEW r \in Requests, RateLimited(r) PROVE ReadContext'
  BY <1>3 DEF RateLimited, Answer
<1>4. ASSUME NEW r \in Requests, LookupFails(r) PROVE ReadContext'
  BY <1>4 DEF LookupFails, Answer
<1>5. ASSUME NEW r \in Requests, StartRead(r) PROVE ReadContext'
  BY <1>5 DEF StartRead
<1>6. ASSUME NEW r \in Requests, TakeResult(r) PROVE ReadContext'
  BY <1>6 DEF TakeResult, Answer, ResultOutcome
<1>7. ASSUME NEW r \in Requests, TakeDone(r) PROVE ReadContext'
  BY <1>7 DEF TakeDone, Answer
<1>8. ASSUME NEW r \in Requests, Return(r) PROVE ReadContext'
  BY <1>8 DEF Return
<1>9. ASSUME NEW r \in Requests, Read(r) PROVE ReadContext'
  BY <1>9 DEF Read, ReadOutcomes
<1>10. ASSUME NEW r \in Requests, ReaderReturns(r) PROVE ReadContext'
  BY <1>10 DEF ReaderReturns
<1>11. ASSUME NEW r \in Requests, ClientLeaves(r) PROVE ReadContext'
  BY <1>11 DEF ClientLeaves
<1>12. ASSUME NEW r \in Requests, Deadline(r) PROVE ReadContext'
  BY <1>12 DEF Deadline
<1>13. ASSUME NEW r \in Requests, NextRequest(r) PROVE ReadContext'
  BY <1>13 DEF NextRequest
<1>14. CASE UNCHANGED vars
  BY <1>14 DEF vars
<1> QED
  BY <1>1, <1>2, <1>3, <1>4, <1>5, <1>6, <1>7, <1>8, <1>9, <1>10, <1>11, <1>12, <1>13, <1>14 DEF Next, HandlerStep

\* Each step keeps the audit log truthful.
LEMMA StepAuditTruthful == TypeOK /\ HandOff /\ ReadContext /\ AuditTruthful /\ [Next]_vars => AuditTruthful'
<1> SUFFICES ASSUME TypeOK, HandOff, ReadContext, AuditTruthful, [Next]_vars PROVE AuditTruthful'
  OBVIOUS
<1> USE DEF TypeOK, HandOff, ReadContext, AuditTruthful, Contexts, Results
<1>1. ASSUME NEW r \in Requests, Reject(r) PROVE AuditTruthful'
  BY <1>1 DEF Reject, Answer
<1>2. ASSUME NEW r \in Requests, Admit(r) PROVE AuditTruthful'
  BY <1>2 DEF Admit
<1>3. ASSUME NEW r \in Requests, RateLimited(r) PROVE AuditTruthful'
  BY <1>3 DEF RateLimited, Answer
<1>4. ASSUME NEW r \in Requests, LookupFails(r) PROVE AuditTruthful'
  BY <1>4 DEF LookupFails, Answer
<1>5. ASSUME NEW r \in Requests, StartRead(r) PROVE AuditTruthful'
  BY <1>5 DEF StartRead
<1>6. ASSUME NEW r \in Requests, TakeResult(r) PROVE AuditTruthful'
  BY <1>6 DEF TakeResult, Answer, ResultOutcome
<1>7. ASSUME NEW r \in Requests, TakeDone(r) PROVE AuditTruthful'
  BY <1>7 DEF TakeDone, Answer
<1>8. ASSUME NEW r \in Requests, Return(r) PROVE AuditTruthful'
  BY <1>8 DEF Return
<1>9. ASSUME NEW r \in Requests, Read(r) PROVE AuditTruthful'
  BY <1>9 DEF Read, ReadOutcomes
<1>10. ASSUME NEW r \in Requests, ReaderReturns(r) PROVE AuditTruthful'
  BY <1>10 DEF ReaderReturns
<1>11. ASSUME NEW r \in Requests, ClientLeaves(r) PROVE AuditTruthful'
  BY <1>11 DEF ClientLeaves
<1>12. ASSUME NEW r \in Requests, Deadline(r) PROVE AuditTruthful'
  BY <1>12 DEF Deadline
<1>13. ASSUME NEW r \in Requests, NextRequest(r) PROVE AuditTruthful'
  BY <1>13 DEF NextRequest
<1>14. CASE UNCHANGED vars
  BY <1>14 DEF vars
<1> QED
  BY <1>1, <1>2, <1>3, <1>4, <1>5, <1>6, <1>7, <1>8, <1>9, <1>10, <1>11, <1>12, <1>13, <1>14 DEF Next, HandlerStep

\* The holders of slots are finitely many.
LEMMA FiniteHolders ==
  /\ IsFiniteSet(HandlerHolds) /\ Cardinality(HandlerHolds) \in Nat
  /\ IsFiniteSet(ReaderHolds) /\ Cardinality(ReaderHolds) \in Nat
<1>1. HandlerHolds \in SUBSET Requests /\ ReaderHolds \in SUBSET Requests
  BY DEF HandlerHolds, ReaderHolds
<1>2. IsFiniteSet(HandlerHolds) /\ IsFiniteSet(ReaderHolds)
  BY <1>1, JobOutputAssumption, FS_Subset
<1> QED
  BY <1>2, FS_CardinalityType

\* No step loses a slot or gives one back twice.
LEMMA StepSlotAccounting ==
  TypeOK /\ HandOff /\ SlotAccounting /\ [Next]_vars => SlotAccounting'
<1> SUFFICES ASSUME TypeOK, HandOff, SlotAccounting, [Next]_vars PROVE SlotAccounting'
  OBVIOUS
<1>a. ASSUME UNCHANGED slots, HandlerHolds' = HandlerHolds, ReaderHolds' = ReaderHolds
      PROVE  SlotAccounting'
  BY <1>a DEF SlotAccounting
<1>1. ASSUME NEW r \in Requests, Admit(r) PROVE SlotAccounting'
  <2>1. HandlerHolds' = HandlerHolds \cup {r} /\ ReaderHolds' = ReaderHolds
    BY <1>1 DEF Admit, HandlerHolds, ReaderHolds, TypeOK
  <2>2. r \notin HandlerHolds /\ r \notin ReaderHolds
    BY <1>1 DEF Admit, HandlerHolds, ReaderHolds, HandOff
  <2>3. Cardinality(HandlerHolds') = Cardinality(HandlerHolds) + 1
    BY <2>1, <2>2, FiniteHolders, FS_AddElement
  <2> QED
    BY <1>1, <2>1, <2>2, <2>3, FiniteHolders DEF Admit, SlotAccounting
<1>2. ASSUME NEW r \in Requests, StartRead(r) PROVE SlotAccounting'
  <2>1. HandlerHolds' = HandlerHolds \ {r} /\ ReaderHolds' = ReaderHolds \cup {r}
    BY <1>2 DEF StartRead, HandlerHolds, ReaderHolds, TypeOK
  <2>2. r \in HandlerHolds /\ r \notin ReaderHolds
    BY <1>2 DEF StartRead, HandlerHolds, ReaderHolds, HandOff
  <2>3. Cardinality(HandlerHolds') = Cardinality(HandlerHolds) - 1
    BY <2>1, <2>2, FiniteHolders, FS_RemoveElement
  <2>4. Cardinality(ReaderHolds') = Cardinality(ReaderHolds) + 1
    BY <2>1, <2>2, FiniteHolders, FS_AddElement
  <2> QED
    BY <1>2, <2>1, <2>2, <2>3, <2>4, FiniteHolders DEF StartRead, SlotAccounting
<1>3. ASSUME NEW r \in Requests, ReaderReturns(r) PROVE SlotAccounting'
  <2>1. HandlerHolds' = HandlerHolds /\ ReaderHolds' = ReaderHolds \ {r}
    BY <1>3 DEF ReaderReturns, HandlerHolds, ReaderHolds, TypeOK
  <2>2. r \in ReaderHolds
    BY <1>3 DEF ReaderReturns, ReaderHolds
  <2>3. Cardinality(ReaderHolds') = Cardinality(ReaderHolds) - 1
    BY <2>1, <2>2, FiniteHolders, FS_RemoveElement
  <2> QED
    BY <1>3, <2>1, <2>3, FiniteHolders DEF ReaderReturns, SlotAccounting
<1>4. ASSUME NEW r \in Requests, Return(r) PROVE SlotAccounting'
  <2>1. ReaderHolds' = ReaderHolds
    BY <1>4 DEF Return, ReaderHolds
  <2>2. HandlerHolds' = HandlerHolds \ {r}
    BY <1>4 DEF Return, HandlerHolds, TypeOK
  <2>3. CASE owned[r]
    <3>1. Cardinality(HandlerHolds') = Cardinality(HandlerHolds) - 1
      BY <2>2, <2>3, FiniteHolders, FS_RemoveElement DEF HandlerHolds
    <3> QED
      BY <1>4, <2>1, <2>2, <2>3, <3>1, FiniteHolders DEF Return, SlotAccounting
  <2>4. CASE ~owned[r]
    BY <1>4, <1>a, <2>1, <2>2, <2>4 DEF Return, HandlerHolds
  <2> QED
    BY <2>3, <2>4
<1>5. ASSUME NEW r \in Requests, Reject(r) PROVE SlotAccounting'
  BY <1>5, <1>a DEF Reject, Answer, HandlerHolds, ReaderHolds
<1>6. ASSUME NEW r \in Requests, RateLimited(r) PROVE SlotAccounting'
  BY <1>6, <1>a DEF RateLimited, Answer, HandlerHolds, ReaderHolds
<1>7. ASSUME NEW r \in Requests, LookupFails(r) PROVE SlotAccounting'
  BY <1>7, <1>a DEF LookupFails, Answer, HandlerHolds, ReaderHolds
<1>8. ASSUME NEW r \in Requests, TakeResult(r) PROVE SlotAccounting'
  BY <1>8, <1>a DEF TakeResult, Answer, HandlerHolds, ReaderHolds
<1>9. ASSUME NEW r \in Requests, TakeDone(r) PROVE SlotAccounting'
  BY <1>9, <1>a DEF TakeDone, Answer, HandlerHolds, ReaderHolds
<1>10. ASSUME NEW r \in Requests, Read(r) PROVE SlotAccounting'
  BY <1>10, <1>a DEF Read, HandlerHolds, ReaderHolds, TypeOK
<1>11. ASSUME NEW r \in Requests, ClientLeaves(r) PROVE SlotAccounting'
  BY <1>11, <1>a DEF ClientLeaves, HandlerHolds, ReaderHolds
<1>12. ASSUME NEW r \in Requests, Deadline(r) PROVE SlotAccounting'
  BY <1>12, <1>a DEF Deadline, HandlerHolds, ReaderHolds
<1>13. ASSUME NEW r \in Requests, NextRequest(r) PROVE SlotAccounting'
  BY <1>13, <1>a DEF NextRequest, HandlerHolds, ReaderHolds, TypeOK
<1>14. CASE UNCHANGED vars
  BY <1>14, <1>a DEF vars, HandlerHolds, ReaderHolds
<1> QED
  BY <1>1, <1>2, <1>3, <1>4, <1>5, <1>6, <1>7, <1>8, <1>9, <1>10, <1>11, <1>12, <1>13, <1>14 DEF Next, HandlerStep

\* The invariant holds initially.
LEMMA InitIInv == Init => IInv
<1> SUFFICES ASSUME Init PROVE IInv
  OBVIOUS
<1>1. HandlerHolds = {} /\ ReaderHolds = {}
  BY DEF Init, HandlerHolds, ReaderHolds
<1>2. SlotAccounting
  BY <1>1, FS_EmptySet DEF Init, SlotAccounting
<1>3. TypeOK
  BY JobOutputAssumption DEF Init, TypeOK, Handlers, Contexts, Readers, Results, Outcomes
<1> QED
  BY <1>2, <1>3 DEF Init, IInv, HandOff, ReadContext, AuditTruthful

\* A reader that has answered every request.
LEMMA IdleReader == ReaderIdle => IInv
<1> SUFFICES ASSUME ReaderIdle PROVE IInv
  OBVIOUS
<1>1. HandlerHolds = {} /\ ReaderHolds = {}
  BY DEF ReaderIdle, HandlerHolds, ReaderHolds
<1>2. SlotAccounting
  BY <1>1, FS_EmptySet DEF ReaderIdle, SlotAccounting
<1>3. TypeOK
  BY JobOutputAssumption DEF ReaderIdle, TypeOK, Handlers, Contexts, Readers, Results, Outcomes
<1> QED
  BY <1>2, <1>3 DEF ReaderIdle, IInv, HandOff, ReadContext, AuditTruthful

\* The invariant is inductive: whatever handlers, goroutines, clients and
\* timers do, every reachable state of slurmJobOutput satisfies it.
THEOREM Inductive == Spec => []IInv
<1>1. IInv /\ [Next]_vars => IInv'
  BY StepTypeOK, StepHandOff, StepReadContext, StepSlotAccounting, StepAuditTruthful DEF IInv
<1> QED
  BY InitIInv, <1>1, PTL DEF Spec

\* The variables of slurmJobOutput keep their types; the slots in use never
\* exceed maxConcurrentJobOutputReads.
THEOREM TypeCorrect == Spec => []TypeOK
<1>1. IInv => TypeOK
  BY DEF IInv
<1> QED
  BY Inductive, <1>1, PTL

\* Every slot in use has exactly one owner that will give it back, the handler
\* or the goroutine it started.
THEOREM SlotsAreConserved == Spec => []SlotAccounting
<1>1. IInv => SlotAccounting
  BY DEF IInv
<1> QED
  BY Inductive, <1>1, PTL

\* The audited outcome of a read is what happened, and content is served only
\* with its success in the log.
THEOREM AuditIsTruthful == Spec => []AuditTruthful
<1>1. IInv => AuditTruthful
  BY DEF IInv
<1> QED
  BY Inductive, <1>1, PTL

\* Who has a slot, handler or goroutine.
Held == HandlerHolds \cup ReaderHolds

\* A step acquires a slot, releases one or leaves the pool alone.
LEMMA StepPool == IInv /\ [Next]_vars => [Pool!Next]_<<Held, slots>>
<1> SUFFICES ASSUME IInv, [Next]_vars PROVE [Pool!Next]_<<Held, slots>>
  OBVIOUS
<1>0. TypeOK /\ HandOff /\ SlotAccounting
  BY DEF IInv
<1>1. ASSUME NEW r \in Requests, Admit(r) PROVE Pool!Next
  <2>1. r \notin Held /\ Held' = Held \cup {r}
    BY <1>0, <1>1 DEF Admit, Held, HandlerHolds, ReaderHolds, TypeOK, HandOff
  <2>2. Pool!Acquire(r)
    BY <1>1, <2>1 DEF Admit, Pool!Acquire, Held
  <2> QED
    BY <2>2 DEF Pool!Next
<1>2. ASSUME NEW r \in Requests, StartRead(r) PROVE UNCHANGED <<Held, slots>>
  BY <1>0, <1>2 DEF StartRead, Held, HandlerHolds, ReaderHolds, TypeOK, HandOff
<1>3. ASSUME NEW r \in Requests, ReaderReturns(r) PROVE Pool!Next
  <2>1. r \in Held /\ Held' = Held \ {r}
    BY <1>0, <1>3 DEF ReaderReturns, Held, HandlerHolds, ReaderHolds, TypeOK, SlotAccounting
  <2>2. Pool!Release(r)
    BY <1>3, <2>1 DEF ReaderReturns, Pool!Release, Held
  <2> QED
    BY <2>2 DEF Pool!Next
<1>4. ASSUME NEW r \in Requests, Return(r) PROVE [Pool!Next]_<<Held, slots>>
  <2>1. CASE owned[r]
    <3>1. r \in Held /\ Held' = Held \ {r}
      BY <1>0, <1>4, <2>1 DEF Return, Held, HandlerHolds, ReaderHolds, TypeOK, SlotAccounting
    <3>2. Pool!Release(r)
      BY <1>4, <2>1, <3>1 DEF Return, Pool!Release, Held
    <3> QED
      BY <3>2 DEF Pool!Next
  <2>2. CASE ~owned[r]
    BY <1>0, <1>4, <2>2 DEF Return, Held, HandlerHolds, ReaderHolds, TypeOK
  <2> QED
    BY <2>1, <2>2
<1>5. ASSUME NEW r \in Requests,
             \/ Reject(r) \/ RateLimited(r) \/ LookupFails(r) \/ TakeResult(r) \/ TakeDone(r)
             \/ Read(r) \/ ClientLeaves(r) \/ Deadline(r) \/ NextRequest(r)
      PROVE  UNCHANGED <<Held, slots>>
  <2>1. CASE Reject(r) \/ RateLimited(r) \/ LookupFails(r) \/ TakeResult(r) \/ TakeDone(r)
             \/ ClientLeaves(r) \/ Deadline(r)
    BY <2>1 DEF Reject, RateLimited, LookupFails, TakeResult, TakeDone, ClientLeaves, Deadline,
                Held, HandlerHolds, ReaderHolds
  <2>2. CASE Read(r) \/ NextRequest(r)
    BY <1>0, <2>2 DEF Read, NextRequest, Held, HandlerHolds, ReaderHolds, TypeOK
  <2> QED
    BY <1>5, <2>1, <2>2
<1>6. CASE UNCHANGED vars
  BY <1>6 DEF vars, Held, HandlerHolds, ReaderHolds
<1> QED
  BY <1>1, <1>2, <1>3, <1>4, <1>5, <1>6 DEF Next, HandlerStep

\* Requests that take slots, hand them to goroutines, are refused, time out and leave
\* use them as the clients of a pool do: the reader implements SlotPool.
THEOREM ReaderRefinesPool == Spec => ImplementsPool
<1>1. Init => Pool!Init
  BY DEF Init, Pool!Init, HandlerHolds, ReaderHolds
<1> QED
  BY <1>1, Inductive, StepPool, PTL DEF Spec, ImplementsPool, Pool!Spec, Held
=============================================================================
