-------------------------- MODULE JobOutputPreview --------------------------
(***************************************************************************)
(* The preview of a job's stdout and stderr inside the job detail dialog   *)
(* (static/app.js).  Each click on a stream's button starts a fetch and    *)
(* cancels the one before; outputRequestID tells the answer of the last    *)
(* request from late ones.  A log is rendered in batches of lines, the     *)
(* next one when the element is scrolled.                                  *)
(*                                                                         *)
(* A request is a name that is free again once its promise has settled;    *)
(* requestID === outputRequestID holds of the request called current.      *)
(* The callbacks of one answer run as microtasks of one task: one step.    *)
(* abort() rejects the fetch, unless its body was complete and the task    *)
(* that resolves the promise already queued.                               *)
(***************************************************************************)
EXTENDS ModalDialogs

CONSTANTS Streams,   \* stdout, stderr
          Fetches,   \* names of fetches that have not settled
          LogSizes,  \* numbers of lines a log may have
          BatchSize  \* batchSize, 220 in the code

ASSUME PreviewAssumption ==
  /\ LogSizes \subseteq Nat \ {0}  \* ''.split('\n') has one line
  /\ BatchSize \in Nat \ {0}
  /\ None \notin Streams \cup Fetches
  /\ None \notin [of : Streams, total : LogSizes, rendered : Nat]  \* null is no closure

VARIABLES
  current,     \* the request that holds the latest outputRequestID
  controller,  \* outputAbortController, the request it belongs to
  request,     \* the fetches
  disabled,    \* the stream buttons that are disabled
  view,        \* the panel: its title, what it displays and of which stream
  onscroll     \* the element's scroll handler, a closure over one log

previewVars == <<current, controller, request, disabled, view, onscroll>>

Free == [phase |-> "free", stream |-> None, aborted |-> FALSE, attached |-> FALSE]
Blank == [title |-> None, truncated |-> FALSE, kind |-> "empty", of |-> None, lines |-> 0]

PreviewTypeOK ==
  /\ current \in Fetches \cup {None}
  /\ controller \in Fetches \cup {None}
  /\ request \in [Fetches -> [phase : {"free", "sent"}, stream : Streams \cup {None},
                               aborted : BOOLEAN, attached : BOOLEAN]]
  /\ disabled \subseteq Streams
  /\ view \in [title : Streams \cup {None}, truncated : BOOLEAN,
               kind : {"empty", "loading", "error", "log"},
               of : Streams \cup {None}, lines : Nat]
  /\ onscroll = None \/ onscroll \in [of : Streams, total : LogSizes, rendered : Nat]

PreviewInit ==
  /\ current = None
  /\ controller = None
  /\ request = [r \in Fetches |-> Free]
  /\ disabled = {}
  /\ view = Blank
  /\ onscroll = None

----------------------------------------------------------------------------
\* The fetches after cancelOutputRequest: abort() of the controller's one.
AfterCancel ==
  IF controller = None THEN request ELSE [request EXCEPT ![controller].aborted = TRUE]

CancelOutputRequest ==
  /\ current' = None
  /\ controller' = None
  /\ request' = AfterCancel

(* A click on a job's detail button: the body of the dialog is replaced,   *)
(* so what the old fetches hold are elements no longer in the document.    *)
DetailClick ==
  /\ PageClickable
  /\ current' = None
  /\ controller' = None
  /\ request' = [r \in Fetches |-> [AfterCancel[r] EXCEPT !.attached = FALSE]]
  /\ disabled' = {}
  /\ view' = Blank
  /\ onscroll' = None
  /\ ShowModal("detail")

\* A click on the button of a stream.
OutputClick(s, r) ==
  /\ "detail" \in opened
  /\ s \notin disabled
  /\ request[r].phase = "free"
  /\ current' = r
  /\ controller' = r
  /\ request' = [AfterCancel EXCEPT
       ![r] = [phase |-> "sent", stream |-> s, aborted |-> FALSE, attached |-> TRUE]]
  /\ disabled' = disabled \cup {s}
  /\ view' = [title |-> s, truncated |-> FALSE, kind |-> "loading", of |-> s, lines |-> 0]
  /\ UNCHANGED <<onscroll, dialogVars>>

----------------------------------------------------------------------------
\* requestID === outputRequestID && jobModal.open
MayRender(r) == r = current /\ "detail" \in opened

\* The last then of the chain.
Settle(r) ==
  /\ request' = [request EXCEPT ![r] = Free]
  /\ disabled' = IF request[r].attached THEN disabled \ {request[r].stream} ELSE disabled
  /\ controller' = IF r = current THEN None ELSE controller
  /\ UNCHANGED <<current, dialogVars>>

Batch(rendered, total) ==
  IF rendered + BatchSize < total THEN rendered + BatchSize ELSE total

\* Mutant of RenderLazyLog: whatever arrives is rendered.
RenderLazyLogAlways(r, total) ==
  LET s == request[r].stream IN
  /\ view' = [view EXCEPT !.kind = "log", !.of = s, !.lines = Batch(0, total)]
  /\ onscroll' = [of |-> s, total |-> total, rendered |-> Batch(0, total)]

\* renderLazyLog and the mark of a truncated log, of the current request.
RenderLazyLog(r, total) ==
  LET s == request[r].stream IN
  IF ~MayRender(r) THEN UNCHANGED <<view, onscroll>>
  ELSE /\ \E t \in BOOLEAN :
            view' = [view EXCEPT !.truncated = t, !.kind = "log", !.of = s,
                                 !.lines = Batch(0, total)]
       /\ onscroll' = [of |-> s, total |-> total, rendered |-> Batch(0, total)]

Deliver(r, total) ==
  /\ request[r].phase = "sent"
  /\ RenderLazyLog(r, total)
  /\ Settle(r)

\* A status other than 2xx, a lost connection, or abort().
FetchFails(r) ==
  /\ request[r].phase = "sent"
  /\ view' = IF MayRender(r)
               THEN [view EXCEPT !.kind = "error", !.of = request[r].stream, !.lines = 0]
               ELSE view
  /\ UNCHANGED onscroll
  /\ Settle(r)

(* A scroll event near the end of the element, caused by the user or by    *)
(* the browser, which moves the position when a long text is replaced by a *)
(* short one.  The handler belongs to the log rendered last: a click on    *)
(* another stream leaves it in place until the next log arrives.           *)
Scroll ==
  /\ "detail" \in opened
  /\ onscroll # None
  /\ onscroll.rendered < onscroll.total
  /\ LET next == Batch(onscroll.rendered, onscroll.total) IN
     /\ view' = [view EXCEPT !.kind = "log", !.of = onscroll.of, !.lines = next]
     /\ onscroll' = [onscroll EXCEPT !.rendered = next]
  /\ UNCHANGED <<current, controller, request, disabled, dialogVars>>

DismissDetail ==
  /\ CloseDialog("detail")
  /\ UNCHANGED previewVars

\* Mutant of DetailCloses: the fetch outlives the dialog.
DetailClosesOnly ==
  /\ Unlock("detail")
  /\ UNCHANGED previewVars

DetailCloses ==
  /\ Unlock("detail")
  /\ CancelOutputRequest
  /\ UNCHANGED <<disabled, view, onscroll>>

PreviewNext ==
  \/ DetailClick \/ Scroll \/ DismissDetail \/ DetailCloses
  \/ \E r \in Fetches :
       \/ \E s \in Streams : OutputClick(s, r)
       \/ \E total \in LogSizes : Deliver(r, total)
       \/ FetchFails(r)

PreviewSpec == PreviewInit /\ AllClosed /\ [][PreviewNext]_<<previewVars, dialogVars>>

----------------------------------------------------------------------------
(* The only text that can appear under the title of another stream is a    *)
(* log longer than one batch, brought back by the scroll handler it left   *)
(* behind: no late, aborted or failed answer is ever shown (app.js:192,    *)
(* 200), and the mark of a truncated log never outlives its title.         *)
OnlyScrollMisleads ==
  /\ view.of # view.title =>
       /\ view.kind = "log"
       /\ onscroll # None /\ onscroll.of = view.of /\ onscroll.total > BatchSize
  /\ view.kind = "log" => onscroll # None /\ view.lines = onscroll.rendered
  /\ view.truncated => view.kind = "log" /\ view.of = view.title

(* A fetch runs unaborted exactly while it is the controller's, so at most *)
(* one does and none once the close event has run; an open panel that says *)
(* loading has its fetch, unless a close event of an earlier showing       *)
(* cancelled it (app.js:235); a button is disabled exactly while a fetch   *)
(* of its stream is in flight, aborted or not (app.js:204-207).            *)
FetchAccounting ==
  /\ \A r \in Fetches :
       request[r].phase = "sent" => (~request[r].aborted <=> r = controller)
  /\ controller # None =>
       /\ request[controller].phase = "sent"
       /\ "detail" \in opened \/ closeEvents["detail"] > 0
  /\ "detail" \in opened /\ view.kind = "loading" /\ "detail" \notin overtaken
       => controller # None /\ controller = current /\ request[controller].stream = view.title
  /\ \A s \in Streams : s \in disabled <=>
       \E r \in Fetches : request[r].phase = "sent" /\ request[r].attached /\ request[r].stream = s
=============================================================================
