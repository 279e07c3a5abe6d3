----------------------------- MODULE MCBrowser -----------------------------
(***************************************************************************)
(* The parts of the browser script for TLC, and the reader that serves the *)
(* preview of a job's output.  The parts run in one page and share its     *)
(* dialogs, but a modal dialog keeps the user in one part until it is      *)
(* closed; a behaviour here follows one part, chosen at the start, so that *)
(* their state spaces add up and do not multiply.                          *)
(***************************************************************************)
EXTENDS JobOutput, PageForms, JobOutputPreview, ResourcePolling, TerminalClient, TLC

CONSTANTS t1, t2, n1, n2, gone

VARIABLE part

MCNodesOf == (t1 :> {n1}) @@ (t2 :> {n2, gone})  \* gone has no checkbox

\* A counter that is reset, an unchanged value, two samples in one second.
MCSamples == {[time |-> 0, cpu |-> 2, memory |-> 0], [time |-> 3, cpu |-> 7, memory |-> 4],
              [time |-> 3, cpu |-> 8, memory |-> 4], [time |-> 7, cpu |-> 7, memory |-> 1]}

browserVars == <<vars, dialogVars, formVars, previewVars, pollVars, clientVars, part>>

BrowserInit ==
  /\ part \in {"reader", "forms", "preview", "polling", "terminal"}
  /\ IF part = "reader" THEN Init ELSE ReaderIdle
  /\ FormsInit /\ PreviewInit /\ PollInit /\ ClientInit
  /\ part # "forms" => AllClosed /\ page = "jobs"
  /\ part # "terminal" => loaded = Assets /\ console = Default

BrowserNext ==
  /\ \/ /\ part = "reader" /\ Next
        /\ UNCHANGED <<dialogVars, formVars, previewVars, pollVars, clientVars>>
     \/ /\ part = "forms" /\ FormsNext
        /\ UNCHANGED <<vars, previewVars, pollVars, clientVars>>
     \/ /\ part = "preview" /\ PreviewNext
        /\ UNCHANGED <<vars, formVars, pollVars, clientVars>>
     \/ /\ part = "polling" /\ PollNext
        /\ UNCHANGED <<vars, formVars, previewVars, clientVars>>
     \/ /\ part = "terminal" /\ ClientNext
        /\ UNCHANGED <<vars, dialogVars, formVars, previewVars, pollVars>>
  /\ UNCHANGED part

BrowserSpec ==
  /\ BrowserInit /\ [][BrowserNext]_browserVars
  /\ Fairness /\ PollFairness /\ ClientFairness

(* Every variable keeps its type: queued events, frames, the history and   *)
(* the slots of the reader stay within their bounds.                       *)
BrowserTypeOK ==
  TypeOK /\ DialogTypeOK /\ FormsTypeOK /\ PreviewTypeOK /\ PollTypeOK /\ ClientTypeOK
=============================================================================
