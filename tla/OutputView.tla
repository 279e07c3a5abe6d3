----------------------------- MODULE OutputView -----------------------------
(***************************************************************************)
(* The preview of a job's output and the handler behind it together: a     *)
(* click on a stream (static/app.js) starts a fetch and with it a request  *)
(* of slurmJobOutput (job_output.go), which answers at its own pace; the   *)
(* connection may fail at any time, and a fetch that was given up leaves   *)
(* its request running.                                                    *)
(*                                                                         *)
(* A fetch and its request share a name, which serves again once both have *)
(* ended.  The other requests are those of other pages and users.          *)
(***************************************************************************)
EXTENDS JobOutput, JobOutputPreview

\* History: the streams of the job on display whose output this dialog asked for
\* and of which the audit log has a success.
VARIABLE trail

outputVars == <<vars, dialogVars, previewVars, trail>>

OutputInit == ReaderIdle /\ PreviewInit /\ AllClosed /\ trail = {}

\* A fetch whose buttons are still in the document is of the job on display.
Trail(r) ==
  trail' = IF r \in Fetches /\ request[r].attached /\ audit'[r] = "success"
             THEN trail \cup {request[r].stream} ELSE trail

\* The body of the dialog is replaced by that of another job, or of the same.
ShowJob ==
  /\ DetailClick
  /\ trail' = {}
  /\ UNCHANGED vars

AskForOutput(s, r) ==
  /\ OutputClick(s, r)
  /\ NextRequest(r)
  /\ UNCHANGED trail

ServerStep(r) ==
  /\ HandlerStep(r) \/ Read(r) \/ ReaderReturns(r) \/ ClientLeaves(r) \/ Deadline(r)
  /\ Trail(r)
  /\ UNCHANGED <<dialogVars, previewVars>>

\* The response has arrived: 200 with the content, or another status.
ResponseArrives(r) ==
  /\ handler[r] \in {"leaving", "done"}
  /\ IF served[r] THEN \E total \in LogSizes : Deliver(r, total) ELSE FetchFails(r)
  /\ UNCHANGED <<vars, trail>>

\* A lost connection, or abort().
ConnectionFails(r) ==
  /\ FetchFails(r)
  /\ UNCHANGED <<vars, trail>>

Browse ==
  /\ Scroll \/ DismissDetail \/ DetailCloses
  /\ UNCHANGED <<vars, trail>>

OutputNext ==
  \/ ShowJob \/ Browse
  \/ \E r \in Requests \cap Fetches :
       \/ \E s \in Streams : AskForOutput(s, r)
       \/ ResponseArrives(r) \/ ConnectionFails(r)
  \/ \E r \in Requests : ServerStep(r)
  \/ \E r \in Requests \ Fetches : NextRequest(r) /\ UNCHANGED <<dialogVars, previewVars, trail>>

OutputSpec == OutputInit /\ [][OutputNext]_outputVars

----------------------------------------------------------------------------
(* What the dialog displays as the log of a stream was asked for by this   *)
(* dialog, for the job on display, and has a success in the audit log:     *)
(* neither a late answer of another job nor one whose audit write failed   *)
(* is ever on the screen, scrolled back or not (app.js:192, 216,           *)
(* job_output.go:133).                                                     *)
DisplayedIsAudited == view.kind = "log" => view.of \in trail
=============================================================================
