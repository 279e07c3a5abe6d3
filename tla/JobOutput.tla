----------------------------- MODULE JobOutput -----------------------------
(***************************************************************************)
(* Reading a job's stdout or stderr: slurmJobOutput and the goroutine it   *)
(* starts (internal/web/job_output.go).  The handler takes one of          *)
(* maxConcurrentJobOutputReads slots and hands it to the goroutine, which  *)
(* reads the file under a three-second context and gives the slot back     *)
(* itself, because a read of a hung file system outlives the request.      *)
(*                                                                         *)
(* A request and its goroutine share one name.  What the file holds, who   *)
(* may see the job and why a read failed are choices; every audit write    *)
(* may fail.                                                               *)
(***************************************************************************)
EXTENDS Naturals, FiniteSets

CONSTANTS Requests,
          HungReads,  \* requests whose file system never answers (external)
          MaxConcurrentJobOutputReads

ASSUME JobOutputAssumption ==
  /\ MaxConcurrentJobOutputReads \in Nat
  /\ HungReads \subseteq Requests
  /\ IsFiniteSet(Requests)

VARIABLES
  slots,    \* len(a.jobOutputSlots)
  handler,  \* where the request's handler is
  owned,    \* slotOwnedByHandler
  context,  \* readContext.Err(), of the request's context before the read
  reader,   \* where the goroutine is
  result,   \* what the goroutine sent into resultChannel
  audit,    \* the outcome in the audit log, lost if the write failed
  served    \* the content went into the response

vars == <<slots, handler, owned, context, reader, result, audit, served>>

Handlers == {"new", "looking", "waiting", "leaving", "done"}
Contexts == {"live", "cancelled", "deadline", "closed"}  \* closed: cancelRead
Readers == {"none", "running", "sent", "gone"}
Results == {"none", "content", "unavailable", "cancelled", "deadline", "closed"}
Outcomes == {"denied", "unavailable", "rate_limited", "cancelled", "timeout", "success"}

Init ==
  /\ slots = 0
  /\ handler = [r \in Requests |-> "new"]
  /\ owned = [r \in Requests |-> FALSE]
  /\ context = [r \in Requests |-> "live"]
  /\ reader = [r \in Requests |-> "none"]
  /\ result = [r \in Requests |-> "none"]
  /\ audit = [r \in Requests |-> "none"]
  /\ served = [r \in Requests |-> FALSE]

\* Every request has been answered and no goroutine is left.
ReaderIdle ==
  /\ slots = 0
  /\ handler = [r \in Requests |-> "done"]
  /\ owned = [r \in Requests |-> FALSE]
  /\ context = [r \in Requests |-> "closed"]
  /\ reader = [r \in Requests |-> "none"]
  /\ result = [r \in Requests |-> "none"]
  /\ audit = [r \in Requests |-> "denied"]
  /\ served = [r \in Requests |-> FALSE]

----------------------------------------------------------------------------
(* Every way out of the handler writes the audit log first, in a context   *)
(* that does not end with the request, and serves nothing if that fails.   *)
Answer(r, outcome) ==
  /\ handler' = [handler EXCEPT ![r] = "leaving"]
  /\ \E entry \in {outcome, "lost"} :
       /\ audit' = [audit EXCEPT ![r] = entry]
       /\ served' = [served EXCEPT ![r] = entry = "success"]

(* A malformed job ID or stream; no job provider. *)
Reject(r) ==
  /\ handler[r] = "new"
  /\ \E outcome \in {"denied", "unavailable"} : Answer(r, outcome)
  /\ UNCHANGED <<slots, owned, context, reader, result>>

\* A slot is free: case a.jobOutputSlots <- struct{}{}.
Admit(r) ==
  /\ handler[r] = "new"
  /\ slots < MaxConcurrentJobOutputReads
  /\ slots' = slots + 1
  /\ owned' = [owned EXCEPT ![r] = TRUE]
  /\ handler' = [handler EXCEPT ![r] = "looking"]
  /\ UNCHANGED <<context, reader, result, audit, served>>

\* No slot is free: the default case, answered 429.
RateLimited(r) ==
  /\ handler[r] = "new"
  /\ slots >= MaxConcurrentJobOutputReads
  /\ Answer(r, "rate_limited")
  /\ UNCHANGED <<slots, owned, context, reader, result>>

(* The job lookup fails, or finds no job this user may see. *)
LookupFails(r) ==
  /\ handler[r] = "looking"
  /\ \E outcome \in {"denied", "unavailable"} : Answer(r, outcome)
  /\ UNCHANGED <<slots, owned, context, reader, result>>

\* Mutant of StartRead: slotOwnedByHandler stays true.
StartReadKeepingSlot(r) ==
  /\ handler[r] = "looking"
  /\ reader' = [reader EXCEPT ![r] = "running"]
  /\ handler' = [handler EXCEPT ![r] = "waiting"]
  /\ UNCHANGED <<slots, owned, context, result, audit, served>>

\* The read context is made, and the slot handed over to the goroutine.
StartRead(r) ==
  /\ handler[r] = "looking"
  /\ owned' = [owned EXCEPT ![r] = FALSE]
  /\ reader' = [reader EXCEPT ![r] = "running"]
  /\ handler' = [handler EXCEPT ![r] = "waiting"]
  /\ UNCHANGED <<slots, context, result, audit, served>>

----------------------------------------------------------------------------
(* The goroutine.  readJobOutput looks at the context before and while it  *)
(* reads, so an ended context ends the read with its error; a read that    *)
(* completes first sends its content all the same.  resultChannel has room *)
(* for the result whether or not the handler still waits.                  *)
ReadOutcomes(r) == {"content", "unavailable"} \cup ({context[r]} \ {"live"})

\* Mutant of Read: resultChannel is unbuffered, and the goroutine insists.
ReadRetriesSend(r) ==
  /\ reader[r] = "running"
  /\ \/ /\ handler[r] = "waiting"
        /\ \E sent \in ReadOutcomes(r) : result' = [result EXCEPT ![r] = sent]
        /\ reader' = [reader EXCEPT ![r] = "sent"]
     \/ handler[r] # "waiting" /\ UNCHANGED <<result, reader>>
  /\ UNCHANGED <<slots, handler, owned, context, audit, served>>

Read(r) ==
  /\ reader[r] = "running"
  /\ \E sent \in ReadOutcomes(r) : result' = [result EXCEPT ![r] = sent]
  /\ reader' = [reader EXCEPT ![r] = "sent"]
  /\ UNCHANGED <<slots, handler, owned, context, audit, served>>

ReaderReturns(r) ==
  /\ reader[r] = "sent"
  /\ slots > 0
  /\ slots' = slots - 1
  /\ reader' = [reader EXCEPT ![r] = "gone"]
  /\ UNCHANGED <<handler, owned, context, result, audit, served>>

----------------------------------------------------------------------------
(* The handler's select: the result, or the end of the context.  With both *)
(* ready either case may run.                                              *)
ResultOutcome(sent) ==
  CASE sent = "content"               -> "success"
    [] sent = "unavailable"           -> "denied"
    [] sent = "deadline"              -> "timeout"
    [] sent \in {"cancelled", "closed"} -> "cancelled"

TakeResult(r) ==
  /\ handler[r] = "waiting"
  /\ result[r] # "none"
  /\ Answer(r, ResultOutcome(result[r]))
  /\ UNCHANGED <<slots, owned, context, reader, result>>

\* Mutant of TakeDone: the result is awaited in any case.
TakeDoneNever(r) ==
  /\ handler[r] = "waiting"
  /\ result[r] # "none"
  /\ context[r] # "live"
  /\ Answer(r, IF context[r] = "deadline" THEN "timeout" ELSE "cancelled")
  /\ UNCHANGED <<slots, owned, context, reader, result>>

\* Mutant of TakeDone: readContext.Err() is not looked at.
TakeDoneAsTimeout(r) ==
  /\ handler[r] = "waiting"
  /\ context[r] # "live"
  /\ Answer(r, "timeout")
  /\ UNCHANGED <<slots, owned, context, reader, result>>

TakeDone(r) ==
  /\ handler[r] = "waiting"
  /\ context[r] # "live"
  /\ Answer(r, IF context[r] = "deadline" THEN "timeout" ELSE "cancelled")
  /\ UNCHANGED <<slots, owned, context, reader, result>>

\* Mutant of Return: slotOwnedByHandler is not looked at.
ReturnSlotAlways(r) ==
  /\ handler[r] = "leaving"
  /\ slots > 0
  /\ slots' = slots - 1
  /\ owned' = [owned EXCEPT ![r] = FALSE]
  /\ context' = [context EXCEPT ![r] = IF @ = "live" THEN "closed" ELSE @]
  /\ handler' = [handler EXCEPT ![r] = "done"]
  /\ UNCHANGED <<reader, result, audit, served>>

(* The deferred calls: cancelRead, then the slot if it is still owned.     *)
Return(r) ==
  /\ handler[r] = "leaving"
  /\ owned[r] => slots > 0
  /\ slots' = IF owned[r] THEN slots - 1 ELSE slots
  /\ owned' = [owned EXCEPT ![r] = FALSE]
  /\ context' = [context EXCEPT ![r] = IF @ = "live" THEN "closed" ELSE @]
  /\ handler' = [handler EXCEPT ![r] = "done"]
  /\ UNCHANGED <<reader, result, audit, served>>

(* The client goes away; the three seconds pass. *)
ClientLeaves(r) ==
  /\ handler[r] \notin {"leaving", "done"}
  /\ context[r] = "live"
  /\ context' = [context EXCEPT ![r] = "cancelled"]
  /\ UNCHANGED <<slots, handler, owned, reader, result, audit, served>>

Deadline(r) ==
  /\ handler[r] = "waiting"
  /\ context[r] = "live"
  /\ context' = [context EXCEPT ![r] = "deadline"]
  /\ UNCHANGED <<slots, handler, owned, reader, result, audit, served>>

(* The name of a finished request and goroutine serves another request. *)
NextRequest(r) ==
  /\ handler[r] = "done"
  /\ reader[r] \in {"none", "gone"}
  /\ handler' = [handler EXCEPT ![r] = "new"]
  /\ context' = [context EXCEPT ![r] = "live"]
  /\ reader' = [reader EXCEPT ![r] = "none"]
  /\ result' = [result EXCEPT ![r] = "none"]
  /\ audit' = [audit EXCEPT ![r] = "none"]
  /\ served' = [served EXCEPT ![r] = FALSE]
  /\ UNCHANGED <<slots, owned>>

HandlerStep(r) ==
  \/ Reject(r) \/ Admit(r) \/ RateLimited(r) \/ LookupFails(r) \/ StartRead(r)
  \/ TakeResult(r) \/ TakeDone(r) \/ Return(r)

Next ==
  \E r \in Requests :
    HandlerStep(r) \/ Read(r) \/ ReaderReturns(r) \/ ClientLeaves(r)
      \/ Deadline(r) \/ NextRequest(r)

Spec == Init /\ [][Next]_vars

(* The handler runs and its timer fires whatever the file system does; a   *)
(* read ends unless its file system hangs.                                 *)
Fairness ==
  /\ \A r \in Requests :
       /\ WF_vars(HandlerStep(r))
       /\ WF_vars(Deadline(r))
       /\ WF_vars(ReaderReturns(r))
  /\ \A r \in Requests \ HungReads : WF_vars(Read(r))

FairSpec == Spec /\ Fairness

----------------------------------------------------------------------------
(* Every variable stays in its type; in particular the slots never exceed  *)
(* the capacity of the channel made in New (app.go).                       *)
TypeOK ==
  /\ slots \in 0 .. MaxConcurrentJobOutputReads
  /\ handler \in [Requests -> Handlers]
  /\ owned \in [Requests -> BOOLEAN]
  /\ context \in [Requests -> Contexts]
  /\ reader \in [Requests -> Readers]
  /\ result \in [Requests -> Results]
  /\ audit \in [Requests -> Outcomes \cup {"none", "lost"}]
  /\ served \in [Requests -> BOOLEAN]

HandlerHolds == {r \in Requests : owned[r]}
ReaderHolds == {r \in Requests : reader[r] \in {"running", "sent"}}

(* A slot has exactly one owner, the handler before the hand-off and the   *)
(* goroutine after it, and none is lost or returned twice: the number of   *)
(* slots taken is the number of handlers and goroutines that will give one *)
(* back.  So goroutines left behind by timed-out requests still count      *)
(* against maxConcurrentJobOutputReads.                                    *)
SlotAccounting ==
  /\ HandlerHolds \cap ReaderHolds = {}
  /\ slots = Cardinality(HandlerHolds) + Cardinality(ReaderHolds)

(* To other requests the hand-off does not show: a request has its slot    *)
(* from the admission until its handler returns without a read or its      *)
(* goroutine ends (job_output.go:48-62, 91-97), as SlotPool says.          *)
Pool == INSTANCE SlotPool WITH
  PoolClients <- Requests, Limit <- MaxConcurrentJobOutputReads,
  holders <- HandlerHolds \cup ReaderHolds, used <- slots

ImplementsPool == Pool!Spec

(* The audit log tells what happened although the result, the deadline and *)
(* the client's departure race: success only for a complete read, timeout  *)
(* only after the deadline, cancelled only after the client left; and      *)
(* content is served only with a success in the log.                       *)
AuditTruthful ==
  \A r \in Requests :
    /\ audit[r] = "success" => result[r] = "content"
    /\ audit[r] = "timeout" => context[r] = "deadline"
    /\ audit[r] = "cancelled" => context[r] = "cancelled"
    /\ served[r] => audit[r] = "success"

(* A request is always answered, even one whose file system hangs. *)
HandlerReturns ==
  \A r \in Requests : handler[r] \in {"looking", "waiting"} ~> handler[r] = "done"

(* A slot comes back unless the file system hangs, also when the handler   *)
(* left first.                                                             *)
SlotsComeBack ==
  \A r \in Requests \ HungReads :
    (owned[r] \/ reader[r] \in {"running", "sent"})
      ~> ~(owned[r] \/ reader[r] \in {"running", "sent"})
=============================================================================
