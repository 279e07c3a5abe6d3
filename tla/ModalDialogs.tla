---------------------------- MODULE ModalDialogs ----------------------------
(***************************************************************************)
(* The <dialog> elements the browser script opens (static/app.js) and the  *)
(* class modal-open that it puts on the body to stop the page behind from  *)
(* scrolling.  The elements are the browser's: showModal() makes the rest  *)
(* of the page inert, close() hides the dialog at once and queues its      *)
(* close event as a later task, which may run after other events that were *)
(* queued meanwhile, a click that shows the dialog again among them.       *)
(***************************************************************************)
EXTENDS Naturals

CONSTANTS None,
          MaxCloseEvents  \* close events of one dialog that may be queued

ASSUME DialogAssumption == MaxCloseEvents \in Nat \ {0}

Dialogs == {"userCreate", "ldapCreate", "confirm", "detail", "resource",
            "cancel", "nodeState", "editor", "delete"}

VARIABLES
  opened,       \* the dialogs whose open attribute is set
  closeEvents,  \* the close events queued for each
  locked,       \* the body has the class modal-open
  overtaken     \* ghost: close events that ran since the open dialog was shown

dialogVars == <<opened, closeEvents, locked, overtaken>>

DialogTypeOK ==
  /\ opened \subseteq Dialogs
  /\ closeEvents \in [Dialogs -> 0 .. MaxCloseEvents]
  /\ locked \in BOOLEAN
  /\ overtaken \subseteq Dialogs

AllClosed ==
  /\ opened = {}
  /\ closeEvents = [d \in Dialogs |-> 0]
  /\ locked = FALSE
  /\ overtaken = {}

(* A dialog the server rendered with the attribute open is closed and      *)
(* shown again as a modal one: its close event is still to come.           *)
Reopened(d) ==
  /\ opened = {d}
  /\ closeEvents = [e \in Dialogs |-> IF e = d THEN 1 ELSE 0]
  /\ locked = TRUE
  /\ overtaken = {}

\* Outside an open modal dialog nothing can be clicked.
PageClickable == opened = {}

ShowModal(d) ==
  /\ opened' = opened \cup {d}
  /\ locked' = TRUE
  /\ overtaken' = {}
  /\ UNCHANGED closeEvents

CloseDialog(d) ==
  /\ d \in opened
  /\ closeEvents[d] < MaxCloseEvents
  /\ opened' = opened \ {d}
  /\ closeEvents' = [closeEvents EXCEPT ![d] = @ + 1]
  /\ overtaken' = {}
  /\ UNCHANGED locked

\* Mutant of Unlock: the handler of the delete dialog forgets the class.
UnlockForgotten(d) ==
  /\ closeEvents[d] > 0
  /\ closeEvents' = [closeEvents EXCEPT ![d] = @ - 1]
  /\ locked' = (locked /\ d # "delete")
  /\ overtaken' = IF opened = {} THEN {} ELSE overtaken \cup {d}
  /\ UNCHANGED opened

\* What every close handler does to the body.
Unlock(d) ==
  /\ closeEvents[d] > 0
  /\ closeEvents' = [closeEvents EXCEPT ![d] = @ - 1]
  /\ locked' = FALSE
  /\ overtaken' = IF opened = {} THEN {} ELSE overtaken \cup {d}
  /\ UNCHANGED opened

(* The page scrolls exactly when no dialog is in front of it, except       *)
(* between close() and its event, and except under a dialog that was       *)
(* opened before a close event of it or of another dialog had run          *)
(* (app.js:39, 57, 115, 237, 412, 440, 473, 556 remove the class without   *)
(* asking whether a dialog is open).                                       *)
LockFollowsDialogs ==
  /\ locked => opened # {} \/ \E d \in Dialogs : closeEvents[d] > 0
  /\ opened # {} /\ ~locked => overtaken # {}
=============================================================================
