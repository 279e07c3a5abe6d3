-------------------------- MODULE ResourcePolling --------------------------
(***************************************************************************)
(* The resource dialog of a running job (static/app.js): a fetch, a timer  *)
(* set when it has settled, the next fetch, for as long as the dialog is   *)
(* open; and the two charts drawn from the answers.                        *)
(*                                                                         *)
(* As in JobOutputPreview a fetch is a name that is free again once it has *)
(* settled, requestID === resourceRequestID holds of pollCurrent, and an   *)
(* aborted fetch may still deliver an answer that was already queued.      *)
(***************************************************************************)
EXTENDS ModalDialogs, Integers, Sequences, FiniteSets, FiniteSetsExt

CONSTANTS PollJobs,
          Polls,        \* names of fetches that have not settled
          Samples,      \* [time, cpu, memory]: sampled_at in seconds, the totals
          HistoryLimit  \* 24 in the code

ASSUME PollingAssumption ==
  /\ Samples \subseteq [time : Nat, cpu : Nat, memory : Nat]
  /\ HistoryLimit \in Nat \ {0}
  /\ None \notin PollJobs \cup Polls \cup Int  \* as NaN, None is no number

VARIABLES
  resourceJobID,
  pollCurrent,     \* the fetch that holds the latest resourceRequestID
  pollController,  \* resourceController, the fetch it belongs to
  timer,           \* resourceTimer is set
  poll,            \* the fetches
  history,         \* resourceHistory; the job of an entry is a ghost
  status           \* resourceStatus

pollVars == <<resourceJobID, pollCurrent, pollController, timer, poll, history, status>>

Unused == [phase |-> "free", job |-> None, aborted |-> FALSE]

PollTypeOK ==
  /\ resourceJobID \in PollJobs \cup {None}
  /\ pollCurrent \in Polls \cup {None}
  /\ pollController \in Polls \cup {None}
  /\ timer \in BOOLEAN
  /\ poll \in [Polls -> [phase : {"free", "sent"}, job : PollJobs \cup {None}, aborted : BOOLEAN]]
  /\ history \in Seq([job : PollJobs, reading : Samples]) /\ Len(history) <= HistoryLimit
  /\ status \in {"empty", "loading", "error", "shown"}

PollInit ==
  /\ resourceJobID = None
  /\ pollCurrent = None
  /\ pollController = None
  /\ timer = FALSE
  /\ poll = [p \in Polls |-> Unused]
  /\ history = <<>>
  /\ status = "empty"

----------------------------------------------------------------------------
\* The fetches after the abort() of cancelResourcePolling.
AfterAbort ==
  IF pollController = None THEN poll ELSE [poll EXCEPT ![pollController].aborted = TRUE]

CancelResourcePolling ==
  /\ pollCurrent' = None
  /\ pollController' = None
  /\ timer' = FALSE
  /\ poll' = AfterAbort

\* cancelResourcePolling and then a fetch for the job.
PollResourceUsage(p, job) ==
  /\ poll[p].phase = "free"
  /\ pollCurrent' = p
  /\ pollController' = p
  /\ timer' = FALSE
  /\ poll' = [AfterAbort EXCEPT ![p] = [phase |-> "sent", job |-> job, aborted |-> FALSE]]

ResourceClick(j, p) ==
  /\ PageClickable
  /\ resourceJobID' = j
  /\ history' = <<>>
  /\ status' = "loading"
  /\ ShowModal("resource")
  /\ PollResourceUsage(p, j)

\* Mutant of TimerFires: the handle is not forgotten when the timer fires.
TimerFiresKeeping(p) ==
  /\ timer
  /\ poll[p].phase = "free"
  /\ pollCurrent' = p
  /\ pollController' = p
  /\ poll' = [AfterAbort EXCEPT ![p] = [phase |-> "sent", job |-> resourceJobID, aborted |-> FALSE]]
  /\ UNCHANGED <<resourceJobID, timer, history, status, dialogVars>>

TimerFires(p) ==
  /\ timer
  /\ PollResourceUsage(p, resourceJobID)
  /\ UNCHANGED <<resourceJobID, history, status, dialogVars>>

----------------------------------------------------------------------------
\* requestID === resourceRequestID && resourceModal.open
MayUse(p) == p = pollCurrent /\ "resource" \in opened

\* Mutant of Rearm: only an answer that was rendered sets the timer.
RearmAfterSuccess(p) ==
  /\ poll' = [poll EXCEPT ![p] = Unused]
  /\ timer' = (timer \/ (MayUse(p) /\ status' = "shown"))
  /\ pollController' = IF MayUse(p) THEN None ELSE pollController
  /\ UNCHANGED <<resourceJobID, pollCurrent, dialogVars>>

\* The last then of the chain.
Rearm(p) ==
  /\ poll' = [poll EXCEPT ![p] = Unused]
  /\ timer' = (timer \/ MayUse(p))
  /\ pollController' = IF MayUse(p) THEN None ELSE pollController
  /\ UNCHANGED <<resourceJobID, pollCurrent, dialogVars>>

\* concat([...]).slice(-24)
Recent(h) == IF Len(h) > HistoryLimit THEN Tail(h) ELSE h

\* Mutant of RenderResourceUsage: any answer for an open dialog is rendered.
RenderResourceUsageOpen(p, s) ==
  IF "resource" \in opened
    THEN /\ history' = Recent(Append(history, [job |-> poll[p].job, reading |-> s]))
         /\ status' = "shown"
    ELSE UNCHANGED <<history, status>>

RenderResourceUsage(p, s) ==
  IF MayUse(p)
    THEN /\ history' = Recent(Append(history, [job |-> poll[p].job, reading |-> s]))
         /\ status' = "shown"
    ELSE UNCHANGED <<history, status>>

UsageArrives(p, s) ==
  /\ poll[p].phase = "sent"
  /\ RenderResourceUsage(p, s)
  /\ Rearm(p)

\* An error status, a lost connection, an answer that is not JSON, abort().
UsageFails(p) ==
  /\ poll[p].phase = "sent"
  /\ status' = IF MayUse(p) THEN "error" ELSE status
  /\ UNCHANGED history
  /\ Rearm(p)

DismissResource ==
  /\ CloseDialog("resource")
  /\ UNCHANGED pollVars

ResourceCloses ==
  /\ Unlock("resource")
  /\ CancelResourcePolling
  /\ history' = <<>>
  /\ UNCHANGED <<resourceJobID, status>>

PollNext ==
  \/ DismissResource \/ ResourceCloses
  \/ \E p \in Polls :
       \/ \E j \in PollJobs : ResourceClick(j, p)
       \/ TimerFires(p)
       \/ \E s \in Samples : UsageArrives(p, s)
       \/ UsageFails(p)

(* The handler answers within the timeout of sstat and the browser runs    *)
(* every timer and queued task.                                            *)
PollFairness ==
  /\ \A p \in Polls :
       WF_<<pollVars, dialogVars>>(UsageFails(p) \/ \E s \in Samples : UsageArrives(p, s))
  /\ WF_<<pollVars, dialogVars>>(\E p \in Polls : TimerFires(p))
  /\ WF_<<pollVars, dialogVars>>(ResourceCloses)

PollSpec == PollInit /\ AllClosed /\ [][PollNext]_<<pollVars, dialogVars>> /\ PollFairness

----------------------------------------------------------------------------
(* The charts, in tenths of a unit of the drawing, as toFixed(1) gives     *)
(* them; the rate of CPU use in thousandths of a core.  A sample whose     *)
(* value is NaN in the code has None here.                                 *)
Rounded(a, b) == (2 * a + b) \div (2 * b)

\* Mutant of CpuSamples: the rate is taken whichever way the clock went.
CpuSamplesUnguarded(h) ==
  [i \in DOMAIN h |->
     [time  |-> h[i].reading.time,
      value |-> IF i = 1 THEN None
                ELSE 1000 * (h[i].reading.cpu - h[i - 1].reading.cpu)]]

CpuSamples(h) ==
  [i \in DOMAIN h |->
     [time  |-> h[i].reading.time,
      value |-> IF i = 1 THEN None
                ELSE LET elapsed == h[i].reading.time - h[i - 1].reading.time
                         delta == h[i].reading.cpu - h[i - 1].reading.cpu
                     IN  IF elapsed > 0 /\ delta >= 0
                           THEN Rounded(1000 * delta, elapsed) ELSE None]]

MemorySamples(h) ==
  [i \in DOMAIN h |-> [time |-> h[i].reading.time, value |-> h[i].reading.memory]]

(* filter keeps the finite values in their order: the places of those that *)
(* are drawn, and where one of them is in the filtered array, from 0.      *)
Finite(samples) == {i \in DOMAIN samples : samples[i].value # None}
Index(samples, i) == Cardinality({k \in Finite(samples) : k < i})

ChartMaximum(samples) == Max({0} \cup {samples[i].value : i \in Finite(samples)})

ChartPoints(samples) ==
  LET values == Finite(samples)
      maximum == IF ChartMaximum(samples) = 0 THEN 1 ELSE ChartMaximum(samples)
      first == samples[Min(values)].time
      range == samples[Max(values)].time - first
  IN  [i \in values |->
         [x |-> IF range > 0 THEN 520 + Rounded((samples[i].time - first) * 6520, range)
                ELSE IF Cardinality(values) = 1 THEN 3780
                ELSE 520 + Rounded(Index(samples, i) * 6520, Cardinality(values) - 1),
          y |-> 1200 - Rounded(samples[i].value * 1000, maximum)]]

----------------------------------------------------------------------------
(* What the dialog displays is what JobViewer allows: the last samples of  *)
(* the job it was opened for, whatever answers arrive late.                *)
Viewer == INSTANCE JobViewer WITH
  NoJob <- None, ViewedJobs <- PollJobs, Readings <- Samples, Limit <- HistoryLimit,
  target <- IF "resource" \in opened THEN resourceJobID ELSE None,
  samples <- history

ImplementsViewer == Viewer!Spec

(* There is one polling loop: a fetch that is not aborted is the           *)
(* controller's and no timer runs beside it; once the close event has run  *)
(* nothing is left to wake up (app.js:254-260, 383-387).                   *)
OnePollLoop ==
  /\ \A p \in Polls : poll[p].phase = "sent" /\ ~poll[p].aborted =>
       p = pollController /\ p = pollCurrent /\ ~timer
  /\ "resource" \notin opened /\ closeEvents["resource"] = 0 => ~timer /\ pollController = None

(* A dialog that stays open goes on polling after errors too, unless a     *)
(* close event of an earlier showing ended the loop (app.js:409).          *)
PollingContinues ==
  <>[]("resource" \in opened /\ "resource" \notin overtaken)
    => []<><<\E p \in Polls : TimerFires(p)>>_<<pollVars, dialogVars>>

\* The frame of a chart, in tenths of a unit.
Left == 520
Right == 7040
Top == 200
Bottom == 1200
Across == Left .. Right
Down == Top .. Bottom

\* The points of a chart lie in its frame, in the order of their times.
InFrame(points, maximum) ==
  /\ \A i \in DOMAIN points : points[i].x \in Across /\ points[i].y \in Down
  /\ \A i, k \in DOMAIN points : i < k => points[i].x <= points[k].x
  /\ maximum > 0 => \E i \in DOMAIN points : points[i].y = Top

(* Samples taken while the server's clock did not go back are drawn inside *)
(* the frame, with the value at the axis as the highest point, whatever    *)
(* counters were reset, equal or zero (app.js:280-298, 333-339).           *)
ChartsFaithful ==
  (\A i \in 2 .. Len(history) : history[i - 1].reading.time <= history[i].reading.time)
    => /\ InFrame(ChartPoints(CpuSamples(history)), ChartMaximum(CpuSamples(history)))
       /\ InFrame(ChartPoints(MemorySamples(history)), ChartMaximum(MemorySamples(history)))
=============================================================================
