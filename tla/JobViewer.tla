----------------------------- MODULE JobViewer -----------------------------
(***************************************************************************)
(* What the resource dialog of the browser script promises: it looks at    *)
(* one job at a time and displays the last samples of that job, in the     *)
(* order they came.  It may forget them, and it may leave the job, at any  *)
(* time.  ResourcePolling implements it.                                   *)
(***************************************************************************)
EXTENDS Naturals, Sequences

CONSTANTS NoJob, ViewedJobs, Readings, Limit

VARIABLES target,  \* the job looked at
          samples  \* what is displayed

LastOf(s) == IF Len(s) > Limit THEN Tail(s) ELSE s

Init == target = NoJob /\ samples = <<>>

Select == /\ target = NoJob
          /\ target' \in ViewedJobs
          /\ samples' = <<>>

Receive == /\ target # NoJob
           /\ \E s \in Readings : samples' = LastOf(Append(samples, [job |-> target, reading |-> s]))
           /\ UNCHANGED target

Leave == /\ target # NoJob
         /\ target' = NoJob
         /\ UNCHANGED samples

Forget == /\ samples' = <<>>
          /\ UNCHANGED target

Next == Select \/ Receive \/ Leave \/ Forget

Spec == Init /\ [][Next]_<<target, samples>>
=============================================================================
