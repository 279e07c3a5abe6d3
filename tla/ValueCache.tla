----------------------------- MODULE ValueCache -----------------------------
(***************************************************************************)
(* valueCache[T] of internal/slurm/cache.go: one cached Slurm query shared *)
(* by the goroutines of all HTTP requests, together with the two           *)
(* administrative commands that change Slurm and then invalidate it        *)
(* (Client.CancelJob, Client.SetNodeState).  Client.Snapshot runs the same *)
(* protocol over its own fields.                                           *)
(*                                                                         *)
(* A section of code under c.mu is one action.  Slurm itself is external:  *)
(* its state is a version number, a query returns the version it sampled.  *)
(* Only the age of the stored attempt matters to the code, and a zero      *)
(* lastAttempt takes the same branch as an expired one, so lastAttempt is  *)
(* the variable age, with age = TTL for both.                              *)
(***************************************************************************)
EXTENDS Integers

CONSTANTS Callers,     \* goroutines that call get
          Admins,      \* goroutines that run scancel or scontrol update
          TTL,         \* c.ttl, in clock ticks
          MaxVersion   \* bound on the changes of Slurm's state

ASSUME CacheAssumption == /\ TTL \in Nat \ {0}
                          /\ MaxVersion \in Nat
                          /\ Callers \cap Admins = {}

VARIABLES
  truth,       \* version of Slurm's own state (external)
  age,         \* ticks since lastAttempt, TTL when expired or zeroed
  value,       \* c.value and c.err: a version, or Failed
  refreshing,  \* c.refreshing # nil
  pc,          \* where each caller is in get, where each admin is
  cancelled,   \* the caller's parent context is done
  buf,         \* what the caller's own loader returned
  result,      \* what get returned to the caller
  version,     \* the version an admin's command produced
  \* History variables: they record what happened and guard nothing.
  acked,       \* newest version whose command was acknowledged as done
  floor,       \* acked when the caller's get began
  raced,       \* an invalidate ran while this caller's loader was in flight
  storedRaced  \* raced of the loader that filled the cache

slurmVars == <<truth, version, acked>>
cacheVars == <<age, value, refreshing, storedRaced>>
callerVars == <<cancelled, buf, result, floor, raced>>
vars == <<truth, version, acked, age, value, refreshing, storedRaced,
          cancelled, buf, result, floor, raced, pc>>

Failed   == -1   \* the command failed, timed out or its output did not parse
Aborted  == -2   \* the error of a done parent context
NoResult == -3

Versions == Nat
Values == Versions \cup {Failed, Aborted}

CallerStates == {"idle", "check", "wait", "woken", "loading", "loaded", "stored"}
AdminStates == {"idle", "applied"}

Fresh == age < TTL

\* get returns r to caller c; its local state is gone.
Finish(c, r) ==
  /\ pc' = [pc EXCEPT ![c] = "idle"]
  /\ result' = [result EXCEPT ![c] = r]
  /\ cancelled' = [cancelled EXCEPT ![c] = FALSE]
  /\ buf' = [buf EXCEPT ![c] = Failed]
  /\ floor' = [floor EXCEPT ![c] = 0]
  /\ raced' = [raced EXCEPT ![c] = FALSE]

Init ==
  /\ truth = 0
  /\ age = TTL
  /\ value = Failed
  /\ refreshing = FALSE
  /\ pc = [p \in Callers \cup Admins |-> "idle"]
  /\ cancelled = [c \in Callers |-> FALSE]
  /\ buf = [c \in Callers |-> Failed]
  /\ result = [c \in Callers |-> NoResult]
  /\ version = [a \in Admins |-> 0]
  /\ acked = 0
  /\ floor = [c \in Callers |-> 0]
  /\ raced = [c \in Callers |-> FALSE]
  /\ storedRaced = FALSE

-----------------------------------------------------------------------------
(* get *)

\* A request calls get with a fresh context.
Call(c) ==
  /\ pc[c] = "idle"
  /\ pc' = [pc EXCEPT ![c] = "check"]
  /\ result' = [result EXCEPT ![c] = NoResult]
  /\ floor' = [floor EXCEPT ![c] = acked]
  /\ UNCHANGED <<slurmVars, cacheVars, cancelled, buf, raced>>

\* The client disconnects or the deadline of the parent context passes.
CancelContext(c) ==
  /\ pc[c] # "idle"
  /\ ~cancelled[c]
  /\ cancelled' = [cancelled EXCEPT ![c] = TRUE]
  /\ UNCHANGED <<slurmVars, cacheVars, buf, result, floor, raced, pc>>

\* The stored attempt is younger than ttl: its value and error are served.
Hit(c) ==
  /\ pc[c] = "check"
  /\ Fresh
  /\ Finish(c, value)
  /\ UNCHANGED <<slurmVars, cacheVars>>

\* Another caller is loading: wait for its channel to close.
Join(c) ==
  /\ pc[c] = "check"
  /\ ~Fresh
  /\ refreshing
  /\ pc' = [pc EXCEPT ![c] = "wait"]
  /\ UNCHANGED <<slurmVars, cacheVars, callerVars>>

\* Mutant of Lead: refreshing is not consulted.
LeadUnguarded(c) ==
  /\ pc[c] = "check"
  /\ ~Fresh
  /\ refreshing' = TRUE
  /\ pc' = [pc EXCEPT ![c] = "loading"]
  /\ UNCHANGED <<slurmVars, age, value, storedRaced, callerVars>>

\* Nobody is loading: become the loader.
Lead(c) ==
  /\ pc[c] = "check"
  /\ ~Fresh
  /\ ~refreshing
  /\ refreshing' = TRUE
  /\ pc' = [pc EXCEPT ![c] = "loading"]
  /\ UNCHANGED <<slurmVars, age, value, storedRaced, callerVars>>

\* case <-refresh: the channel is closed, start over.
Resume(c) ==
  /\ pc[c] = "woken"
  /\ pc' = [pc EXCEPT ![c] = "check"]
  /\ UNCHANGED <<slurmVars, cacheVars, callerVars>>

\* Mutant of GiveUp: the select has no case for parent.Done().
GiveUpNever(c) == FALSE /\ Finish(c, Aborted) /\ UNCHANGED <<slurmVars, cacheVars>>

\* case <-parent.Done(): also possible when the channel is closed as well.
GiveUp(c) ==
  /\ pc[c] \in {"wait", "woken"}
  /\ cancelled[c]
  /\ Finish(c, Aborted)
  /\ UNCHANGED <<slurmVars, cacheVars>>

\* loader(parent) returns what the Slurm command sampled, or an error; a
\* runner whose context is done reports that error whatever the command did.
Load(c) ==
  /\ pc[c] = "loading"
  /\ buf' = [buf EXCEPT ![c] = IF cancelled[c] THEN Aborted ELSE truth]
  /\ pc' = [pc EXCEPT ![c] = "loaded"]
  /\ UNCHANGED <<slurmVars, cacheVars, cancelled, result, floor, raced>>

LoadFails(c) ==
  /\ pc[c] = "loading"
  /\ ~cancelled[c]
  /\ buf' = [buf EXCEPT ![c] = Failed]
  /\ pc' = [pc EXCEPT ![c] = "loaded"]
  /\ UNCHANGED <<slurmVars, cacheVars, cancelled, result, floor, raced>>

\* close(refresh) releases every goroutine that waits on this channel.
Wake(states) ==
  [p \in DOMAIN states |-> IF states[p] = "wait" THEN "woken" ELSE states[p]]

\* Mutant of Store: the attempt is stored without looking at parent.Err().
StoreAlways(c) ==
  /\ pc[c] = "loaded"
  /\ age' = 0
  /\ value' = buf[c]
  /\ storedRaced' = raced[c]
  /\ refreshing' = FALSE
  /\ pc' = [Wake(pc) EXCEPT ![c] = "stored"]
  /\ UNCHANGED <<slurmVars, callerVars>>

\* Mutant of Store: a cancelled loader frees the slot but does not close the
\* channel.
StoreWithoutClose(c) ==
  /\ pc[c] = "loaded"
  /\ IF cancelled[c]
       THEN /\ UNCHANGED <<age, value, storedRaced>>
            /\ pc' = [pc EXCEPT ![c] = "stored"]
       ELSE /\ age' = 0
            /\ value' = buf[c]
            /\ storedRaced' = raced[c]
            /\ pc' = [Wake(pc) EXCEPT ![c] = "stored"]
  /\ refreshing' = FALSE
  /\ UNCHANGED <<slurmVars, callerVars>>

\* The second locked section: a loader whose parent context is done stores
\* nothing; either way the slot is freed and the waiters are released.
Store(c) ==
  /\ pc[c] = "loaded"
  /\ IF cancelled[c]
       THEN UNCHANGED <<age, value, storedRaced>>
       ELSE /\ age' = 0
            /\ value' = buf[c]
            /\ storedRaced' = raced[c]
  /\ refreshing' = FALSE
  /\ pc' = [Wake(pc) EXCEPT ![c] = "stored"]
  /\ UNCHANGED <<slurmVars, callerVars>>

\* parent.Err() is read again after the unlock.
Return(c) ==
  /\ pc[c] = "stored"
  /\ Finish(c, IF cancelled[c] THEN Aborted ELSE buf[c])
  /\ UNCHANGED <<slurmVars, cacheVars>>

-----------------------------------------------------------------------------
(* CancelJob, SetNodeState and the rest of the world *)

\* scancel or scontrol update takes effect and its run returns no error.
Apply(a) ==
  /\ pc[a] = "idle"
  /\ truth < MaxVersion
  /\ truth' = truth + 1
  /\ version' = [version EXCEPT ![a] = truth + 1]
  /\ pc' = [pc EXCEPT ![a] = "applied"]
  /\ UNCHANGED <<acked, cacheVars, callerVars>>

\* Mutant of Invalidate: the command returns without invalidating.
InvalidateForgotten(a) ==
  /\ pc[a] = "applied"
  /\ acked' = IF version[a] > acked THEN version[a] ELSE acked
  /\ raced' = [c \in Callers |-> raced[c] \/ pc[c] \in {"loading", "loaded"}]
  /\ pc' = [pc EXCEPT ![a] = "idle"]
  /\ UNCHANGED <<truth, version, age, value, refreshing, storedRaced,
                 cancelled, buf, result, floor>>

\* c.jobsCache.invalidate() and the return to the request handler.
Invalidate(a) ==
  /\ pc[a] = "applied"
  /\ age' = TTL
  /\ acked' = IF version[a] > acked THEN version[a] ELSE acked
  /\ raced' = [c \in Callers |-> raced[c] \/ pc[c] \in {"loading", "loaded"}]
  /\ pc' = [pc EXCEPT ![a] = "idle"]
  /\ UNCHANGED <<truth, version, value, refreshing, storedRaced,
                 cancelled, buf, result, floor>>

\* Slurm changes by itself, or by a command that was reported as failed (a
\* timeout after it took effect): no invalidate follows.
SlurmChanges ==
  /\ truth < MaxVersion
  /\ truth' = truth + 1
  /\ UNCHANGED <<version, acked, cacheVars, callerVars, pc>>

\* time.Since(c.lastAttempt) grows until the attempt has expired.
Tick ==
  /\ age < TTL
  /\ age' = age + 1
  /\ UNCHANGED <<slurmVars, value, refreshing, storedRaced, callerVars, pc>>

-----------------------------------------------------------------------------
GetStep(c) ==
  \/ Hit(c) \/ Join(c) \/ Lead(c) \/ Resume(c)
  \/ Load(c) \/ LoadFails(c) \/ Store(c) \/ Return(c)

Next ==
  \/ \E c \in Callers : Call(c) \/ CancelContext(c) \/ GetStep(c) \/ GiveUp(c)
  \/ \E a \in Admins : Apply(a) \/ Invalidate(a)
  \/ SlurmChanges
  \/ Tick

\* A goroutine inside get keeps running, and the command timeout ends every
\* loader (WF).  A select whose two cases stay ready picks each of them
\* sooner or later (SF on giving up).
Fairness == \A c \in Callers : WF_vars(GetStep(c)) /\ SF_vars(GiveUp(c))

Spec == Init /\ [][Next]_vars
FairSpec == Spec /\ Fairness

-----------------------------------------------------------------------------
\* Every variable keeps its type, with the age of the attempt within the ttl.
TypeOK ==
  /\ truth \in Nat
  /\ age \in 0..TTL
  /\ value \in Values
  /\ refreshing \in BOOLEAN
  /\ pc \in [Callers \cup Admins -> CallerStates \cup AdminStates]
  /\ \A c \in Callers : pc[c] \in CallerStates
  /\ \A a \in Admins : pc[a] \in AdminStates
  /\ cancelled \in [Callers -> BOOLEAN]
  /\ buf \in [Callers -> Values]
  /\ result \in [Callers -> Values \cup {NoResult}]
  /\ version \in [Admins -> Versions]
  /\ acked \in Versions
  /\ floor \in [Callers -> Versions]
  /\ raced \in [Callers -> BOOLEAN]
  /\ storedRaced \in BOOLEAN

Loading(c) == pc[c] \in {"loading", "loaded"}

\* At most one loader runs per cache, whatever callers join, give up or are
\* cancelled (cache.go: refreshing is set before the loader and cleared after
\* it): one slow squeue is never answered by starting a second one.
SingleFlight ==
  /\ \A c, d \in Callers : Loading(c) /\ Loading(d) => c = d
  /\ refreshing <=> \E c \in Callers : Loading(c)

\* A cancelled loader harms nobody else: a caller is told "context done" only
\* when its own context is done, although it may have been served by, or have
\* waited for, a loader whose request went away (cache.go:48, 53).
CancelIsPrivate ==
  [][\A c \in Callers :
       result'[c] = Aborted /\ result[c] = NoResult => cancelled[c]]_vars

\* The cache serves a value older than an acknowledged CancelJob or
\* SetNodeState only when the loader that stored it was already running when
\* invalidate was called: invalidate covers everything but the load in flight.
StaleOnlyAfterRace ==
  Fresh /\ value \in Versions /\ value < acked => storedRaced

\* What the callers of CancelJob and SetNodeState are tested to rely on: a
\* query begun after the command was acknowledged shows its effect.
ReadYourWrites ==
  [][\A c \in Callers :
       pc[c] # "idle" /\ result'[c] \in Versions => result'[c] >= floor[c]]_vars

\* Nobody waits for a channel that is never closed: the loader wakes its
\* waiters also when its command failed or its own request was cancelled.
WaiterWakes ==
  \A c \in Callers : pc[c] = "wait" ~> pc[c] # "wait"

\* A request that was cancelled leaves get, however often other callers win
\* the race to refresh.
CancelledReturns ==
  \A c \in Callers : cancelled[c] ~> pc[c] = "idle"
=============================================================================
