---------------------------- MODULE BrowserPage ----------------------------
(***************************************************************************)
(* The dialogs of one page together: the job list has a cancel dialog, a   *)
(* detail dialog and a resource dialog (templates/jobs.html:24, 30, 74)    *)
(* and one event queue.  A close event of any of them may run while        *)
(* another is open, fetches of a dialog that was left settle under the     *)
(* next one, and one class on the body stands for all.                     *)
(***************************************************************************)
EXTENDS PageForms, JobOutputPreview, ResourcePolling

pageVars == <<dialogVars, formVars, previewVars, pollVars>>

PageInit == FormsInit /\ PreviewInit /\ PollInit

PageNext ==
  \/ FormsNext /\ UNCHANGED <<previewVars, pollVars>>
  \/ page = "jobs" /\ PreviewNext /\ UNCHANGED <<formVars, pollVars>>
  \/ page = "jobs" /\ PollNext /\ UNCHANGED <<formVars, previewVars>>

PageSpec == PageInit /\ [][PageNext]_pageVars
=============================================================================
