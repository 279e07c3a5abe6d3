----------------------------- MODULE PageForms -----------------------------
(***************************************************************************)
(* The dialogs through which the browser script changes the cluster: the   *)
(* confirmation of dangerous forms, cancelling a job, taking a node out of *)
(* service, editing and deleting partitions, creating users                *)
(* (static/app.js).  One dialog element serves every row of the table: a   *)
(* click copies the row's subject into a hidden field, for the server, and *)
(* into a text, for the user.                                              *)
(*                                                                         *)
(* A POST loads another page, which is an initial state; until it has      *)
(* arrived this one goes on handling events.                               *)
(***************************************************************************)
EXTENDS ModalDialogs

CONSTANTS Targets,    \* the rows of the table: jobs, nodes, partitions, users
          LiveNodes,  \* the nodes the editor has a checkbox for
          NodesOf     \* data-partition-nodes of each row

ASSUME FormsAssumption == DOMAIN NodesOf = Targets /\ None \notin Targets

Pages == {"jobs", "nodes", "partitions", "users"}
NodeStates == {"down", "drain"}
Subjects == Targets \cup (Targets \X NodeStates) \cup {None}
SubjectDialogs == {"confirm", "cancel", "nodeState", "delete"}

VARIABLES
  page,       \* which page the server rendered
  hidden,     \* pendingConfirmForm, the form's action, the hidden inputs
  shown,      \* the subject named in the dialog's text
  confirmed,  \* the forms with dataset.confirmed
  reason,     \* nodeStateReason is not empty
  editor,     \* partitionEditorForm
  touched,    \* ghost: the user changed the editor since it was opened
  post        \* the last POST; button: with the name and value of the button

formVars == <<page, hidden, shown, confirmed, reason, editor, touched, post>>

NoPost == [dialog |-> None, subject |-> None, said |-> None, button |-> FALSE]

FormsTypeOK ==
  /\ page \in Pages
  /\ hidden \in [SubjectDialogs -> Subjects]
  /\ shown \in [SubjectDialogs -> Subjects]
  /\ confirmed \subseteq Targets
  /\ reason \in BOOLEAN
  /\ editor \in [name : Targets \cup {None}, readOnly : BOOLEAN, checked : SUBSET LiveNodes]
  /\ touched \in BOOLEAN
  /\ post.dialog \in SubjectDialogs \cup {None} /\ {post.subject, post.said} \subseteq Subjects
  /\ post.button \in BOOLEAN

----------------------------------------------------------------------------
\* Mutant of SetPartitionEditor: boxes are checked and never unchecked.
SetPartitionEditorKeeping(name, nodes, isEditing) ==
  [name |-> name, readOnly |-> isEditing,
   checked |-> editor.checked \cup (nodes \cap LiveNodes)]

\* form.reset() and then every box by name: a node that is gone has none.
SetPartitionEditor(name, nodes, isEditing) ==
  [name |-> name, readOnly |-> isEditing, checked |-> nodes \cap LiveNodes]

\* The editor as the server renders it: empty, or on one partition.
Rendered(name) ==
  [name |-> name, readOnly |-> name # None,
   checked |-> IF name = None THEN {} ELSE NodesOf[name] \cap LiveNodes]

PlainPage ==
  /\ page \in Pages
  /\ editor = Rendered(None)
  /\ AllClosed

(* data-platform-user-create-open, data-platform-ldap-create-open and      *)
(* data-partition-open.                                                    *)
PageWithOpenDialog ==
  \/ /\ page = "users"
     /\ editor = Rendered(None)
     /\ \E d \in {"userCreate", "ldapCreate"} : Reopened(d)
  \/ /\ page = "partitions"
     /\ \E name \in Targets \cup {None} : editor = Rendered(name)
     /\ Reopened("editor")

FormsInit ==
  /\ PlainPage \/ PageWithOpenDialog
  /\ hidden = [d \in SubjectDialogs |-> None]
  /\ shown = [d \in SubjectDialogs |-> None]
  /\ confirmed = {}
  /\ reason = FALSE
  /\ touched = FALSE
  /\ post = NoPost

----------------------------------------------------------------------------
\* A click on a row's button: its subject goes into the field and the text.
ShowSubject(d, s) ==
  /\ PageClickable
  /\ hidden' = [hidden EXCEPT ![d] = s]
  /\ shown' = [shown EXCEPT ![d] = s]
  /\ ShowModal(d)

Posts(d, s, button) == post' = [dialog |-> d, subject |-> s, said |-> shown[d], button |-> button]

\* Mutant of SubmitConfirmForm: a form still pending is not replaced.
SubmitConfirmFormKeeping(t) ==
  /\ page \in {"nodes", "users"} /\ PageClickable /\ t \notin confirmed
  /\ hidden' = [hidden EXCEPT !["confirm"] = IF @ = None THEN t ELSE @]
  /\ shown' = [shown EXCEPT !["confirm"] = t]
  /\ ShowModal("confirm")
  /\ UNCHANGED <<page, confirmed, reason, editor, touched, post>>

\* The submit event of a form[data-confirm] that is not confirmed yet.
SubmitConfirmForm(t) ==
  /\ page \in {"nodes", "users"} /\ t \notin confirmed
  /\ ShowSubject("confirm", t)
  /\ UNCHANGED <<page, confirmed, reason, editor, touched, post>>

(* The form was confirmed and the page is still there: it goes again.      *)
ResubmitConfirmForm(t) ==
  /\ PageClickable /\ t \in confirmed
  /\ post' = [dialog |-> "confirm", subject |-> t, said |-> t, button |-> TRUE]
  /\ UNCHANGED <<dialogVars, page, hidden, shown, confirmed, reason, editor, touched>>

(* close() only queues the close event, so pendingConfirmForm survives     *)
(* until requestSubmit(), whose submit event finds dataset.confirmed.  It  *)
(* is called without a submitter: the POST lacks the button's own field.   *)
Accept ==
  /\ hidden["confirm"] # None
  /\ CloseDialog("confirm")
  /\ confirmed' = confirmed \cup {hidden["confirm"]}
  /\ Posts("confirm", hidden["confirm"], FALSE)
  /\ UNCHANGED <<page, hidden, shown, reason, editor, touched>>

JobCancel(t) ==
  /\ page = "jobs"
  /\ ShowSubject("cancel", t)
  /\ UNCHANGED <<page, confirmed, reason, editor, touched, post>>

NodeStateTrigger(t, s) ==
  /\ page = "nodes"
  /\ ShowSubject("nodeState", <<t, s>>)
  /\ reason' = FALSE
  /\ UNCHANGED <<page, confirmed, editor, touched, post>>

TypeReason ==
  /\ "nodeState" \in opened
  /\ reason' = TRUE
  /\ UNCHANGED <<dialogVars, page, hidden, shown, confirmed, editor, touched, post>>

PartitionDelete(t) ==
  /\ page = "partitions"
  /\ ShowSubject("delete", t)
  /\ UNCHANGED <<page, confirmed, reason, editor, touched, post>>

\* The submit button inside the dialog; reason is a required field.
SubmitDialog(d) ==
  /\ d \in opened
  /\ d = "nodeState" => reason
  /\ Posts(d, hidden[d], TRUE)
  /\ UNCHANGED <<dialogVars, page, hidden, shown, confirmed, reason, editor, touched>>

OpenEditor(form) ==
  /\ page = "partitions" /\ PageClickable
  /\ editor' = form
  /\ touched' = FALSE
  /\ ShowModal("editor")
  /\ UNCHANGED <<page, hidden, shown, confirmed, reason, post>>

PartitionCreate == OpenEditor(SetPartitionEditor(None, {}, FALSE))

\* The names of data-partition-nodes, separated by ", " without empty ones.
PartitionEdit(t) == OpenEditor(SetPartitionEditor(t, NodesOf[t], TRUE))

EditForm ==
  /\ "editor" \in opened
  /\ touched' = TRUE
  /\ \/ \E n \in LiveNodes : editor' = [editor EXCEPT !.checked =
                                          IF n \in @ THEN @ \ {n} ELSE @ \cup {n}]
     \/ \E t \in Targets : ~editor.readOnly /\ editor' = [editor EXCEPT !.name = t]
  /\ UNCHANGED <<dialogVars, page, hidden, shown, confirmed, reason, post>>

OpenUserCreate ==
  /\ page = "users" /\ PageClickable
  /\ ShowModal("userCreate")
  /\ UNCHANGED formVars

\* The close buttons, the backdrop and the Escape key.
DismissDialog(d) ==
  /\ CloseDialog(d)
  /\ UNCHANGED formVars

\* The close handlers; two of them forget something besides the class.
ConfirmCloses ==
  /\ Unlock("confirm")
  /\ hidden' = [hidden EXCEPT !["confirm"] = None]
  /\ UNCHANGED <<page, shown, confirmed, reason, editor, touched, post>>

NodeStateCloses ==
  /\ Unlock("nodeState")
  /\ reason' = FALSE
  /\ UNCHANGED <<page, hidden, shown, confirmed, editor, touched, post>>

DialogCloses(d) ==
  /\ Unlock(d)
  /\ UNCHANGED formVars

FormsNext ==
  \/ \E t \in Targets :
       \/ SubmitConfirmForm(t) \/ ResubmitConfirmForm(t)
       \/ JobCancel(t) \/ PartitionDelete(t) \/ PartitionEdit(t)
       \/ \E s \in NodeStates : NodeStateTrigger(t, s)
  \/ Accept \/ TypeReason \/ PartitionCreate \/ EditForm \/ OpenUserCreate
  \/ ConfirmCloses \/ NodeStateCloses
  \/ \E d \in {"cancel", "nodeState", "delete"} : SubmitDialog(d)
  \/ \E d \in SubjectDialogs \cup {"editor", "userCreate", "ldapCreate"} : DismissDialog(d)
  \/ \E d \in {"cancel", "delete", "editor", "userCreate", "ldapCreate"} : DialogCloses(d)

FormsSpec == FormsInit /\ [][FormsNext]_<<dialogVars, formVars>>

----------------------------------------------------------------------------
(* Every POST of a dialog is about the subject its text named when the     *)
(* user agreed, whatever dialogs and close events went before; and the     *)
(* accept button is dead only when a close event of an earlier showing     *)
(* took pendingConfirmForm away (app.js:104-119).                          *)
SubmitsWhatIsShown ==
  /\ post.subject = post.said
  /\ "confirm" \in opened =>
       \/ hidden["confirm"] = shown["confirm"]
       \/ hidden["confirm"] = None /\ "confirm" \in overtaken

(* One form edits every partition: until the user touches it, it holds the *)
(* partition named in it and nothing of the one edited before, or is empty *)
(* (app.js:495-508).                                                       *)
EditorStartsFromPartition ==
  "editor" \in opened /\ ~touched =>
    IF editor.readOnly THEN editor = Rendered(editor.name) ELSE editor = Rendered(None)

(* A confirmed resume tells the server what to do with the node: the state *)
(* is the value of the button (templates/nodes.html:30), and without one   *)
(* setNodeAvailability answers 400.  The code violates it.                 *)
ResumeIsComplete == page = "nodes" /\ post.dialog = "confirm" => post.button
=============================================================================
