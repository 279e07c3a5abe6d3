---------------------------- MODULE DialogProofs ----------------------------
(***************************************************************************)
(* Proofs about the dialogs of the browser script: each part by itself,    *)
(* and all of them in one page, for any number of rows, fetches, streams,  *)
(* samples and queued close events.                                        *)
(***************************************************************************)
EXTENDS BrowserPage, FiniteSetTheorems, WellFoundedInduction, TLAPS

-----------------------------------------------------------------------------
(* ModalDialogs *)

\* A modal dialog keeps the user from opening another.
OneOpen == \A d, e \in opened : d = e

\* The inductive invariant of ModalDialogs.
DialogInv == DialogTypeOK /\ LockFollowsDialogs /\ OneOpen

\* All that happens to dialogs of D: one is shown, closed, or its close event runs.
ShowStep(d) == PageClickable /\ ShowModal(d)
DialogStep(D) ==
  \/ \E d \in D : ShowStep(d) \/ CloseDialog(d) \/ Unlock(d)
  \/ UNCHANGED dialogVars

\* The dialogs of PageForms.
FormDialogs == Dialogs \ {"detail", "resource"}

\* No dialog is open, or the one the page was rendered with.
LEMMA DialogInit ==
  ASSUME AllClosed \/ \E d \in Dialogs : Reopened(d)
  PROVE  DialogInv
<1>1. CASE AllClosed
  <2>1. DialogTypeOK
    <3>1. closeEvents \in [Dialogs -> 0 .. MaxCloseEvents]
      BY <1>1, DialogAssumption DEF AllClosed
    <3>2. opened \subseteq Dialogs /\ overtaken \subseteq Dialogs /\ locked \in BOOLEAN
      BY <1>1 DEF AllClosed
    <3> QED
      BY <3>1, <3>2 DEF DialogTypeOK
  <2>2. LockFollowsDialogs /\ OneOpen
    BY <1>1 DEF AllClosed, LockFollowsDialogs, OneOpen
  <2> QED
    BY <2>1, <2>2 DEF DialogInv
<1>2. ASSUME NEW d \in Dialogs, Reopened(d)
      PROVE  DialogInv
  <2>1. DialogTypeOK
    BY <1>2, DialogAssumption DEF Reopened, DialogTypeOK
  <2>2. LockFollowsDialogs /\ OneOpen
    BY <1>2 DEF Reopened, LockFollowsDialogs, OneOpen
  <2> QED
    BY <2>1, <2>2 DEF DialogInv
<1> QED
  BY <1>1, <1>2

\* Whatever happens to dialogs keeps the invariant.
LEMMA DialogStepInv ==
  ASSUME DialogInv, NEW D \in SUBSET Dialogs, DialogStep(D)
  PROVE  DialogInv'
<1> USE DialogAssumption
<1>1. ASSUME NEW d \in Dialogs, ShowStep(d)
      PROVE  DialogInv'
  <2>1. opened' = {d} /\ locked' = TRUE /\ overtaken' = {} /\ closeEvents' = closeEvents
    BY <1>1 DEF ShowStep, ShowModal, PageClickable
  <2>2. DialogTypeOK'
    BY <2>1 DEF DialogInv, DialogTypeOK
  <2>3. LockFollowsDialogs' /\ OneOpen'
    BY <2>1 DEF LockFollowsDialogs, OneOpen
  <2> QED
    BY <2>2, <2>3 DEF DialogInv
<1>2. ASSUME NEW d \in Dialogs, CloseDialog(d)
      PROVE  DialogInv'
  <2>1. opened' = {}
    BY <1>2 DEF CloseDialog, DialogInv, OneOpen
  <2>2. closeEvents'[d] > 0 /\ closeEvents' \in [Dialogs -> 0 .. MaxCloseEvents]
    BY <1>2 DEF CloseDialog, DialogInv, DialogTypeOK
  <2>3. overtaken' = {} /\ locked' = locked
    BY <1>2 DEF CloseDialog
  <2>4. DialogTypeOK'
    BY <2>1, <2>2, <2>3 DEF DialogInv, DialogTypeOK
  <2>5. LockFollowsDialogs' /\ OneOpen'
    BY <2>1, <2>2 DEF LockFollowsDialogs, OneOpen
  <2> QED
    BY <2>4, <2>5 DEF DialogInv
<1>3. ASSUME NEW d \in Dialogs, Unlock(d)
      PROVE  DialogInv'
  <2>1. closeEvents' \in [Dialogs -> 0 .. MaxCloseEvents]
    BY <1>3 DEF Unlock, DialogInv, DialogTypeOK
  <2>2. /\ locked' = FALSE /\ opened' = opened
        /\ overtaken' = IF opened = {} THEN {} ELSE overtaken \cup {d}
    BY <1>3 DEF Unlock
  <2>3. DialogTypeOK'
    BY <2>1, <2>2 DEF DialogInv, DialogTypeOK
  <2>4. LockFollowsDialogs' /\ OneOpen'
    BY <2>2 DEF DialogInv, LockFollowsDialogs, OneOpen
  <2> QED
    BY <2>3, <2>4 DEF DialogInv
<1>4. CASE UNCHANGED dialogVars
  BY <1>4 DEF dialogVars, DialogInv, DialogTypeOK, LockFollowsDialogs, OneOpen
<1> QED
  BY <1>1, <1>2, <1>3, <1>4 DEF DialogStep

-----------------------------------------------------------------------------
(* PageForms *)

\* Only the confirmation forgets its form; the other dialogs name what they post.
FieldIsText == \A d \in {"cancel", "nodeState", "delete"} : hidden[d] = shown[d]

\* The confirmation is of a form of the table.
PendingIsRow == hidden["confirm"] \in Targets \cup {None}

\* The inductive invariant of PageForms, beside that of the dialogs.
FormsInv ==
  FormsTypeOK /\ SubmitsWhatIsShown /\ EditorStartsFromPartition /\ FieldIsText /\ PendingIsRow

\* A rendered page.
LEMMA FormsInitInv == FormsInit => DialogInv /\ FormsInv
<1> SUFFICES ASSUME FormsInit PROVE DialogInv /\ FormsInv
  OBVIOUS
<1>1. DialogInv
  <2>1. AllClosed \/ \E d \in Dialogs : Reopened(d)
    BY DEF FormsInit, PlainPage, PageWithOpenDialog, Dialogs
  <2> QED
    BY <2>1, DialogInit
<1>2. PICK name \in Targets \cup {None} : editor = Rendered(name)
  BY DEF FormsInit, PlainPage, PageWithOpenDialog
<1>3. editor \in [name : Targets \cup {None}, readOnly : BOOLEAN, checked : SUBSET LiveNodes]
  <2>1. (name # None) \in BOOLEAN
    OBVIOUS
  <2>2. (IF name = None THEN {} ELSE NodesOf[name] \cap LiveNodes) \in SUBSET LiveNodes
    OBVIOUS
  <2> QED
    BY <1>2, <2>1, <2>2 DEF Rendered
<1>4. page \in Pages
  BY DEF FormsInit, PlainPage, PageWithOpenDialog, Pages
<1>5. FormsTypeOK
  <2>1. /\ hidden \in [SubjectDialogs -> Subjects] /\ shown \in [SubjectDialogs -> Subjects]
        /\ confirmed \subseteq Targets
    BY DEF FormsInit, Subjects
  <2>2. reason \in BOOLEAN /\ touched \in BOOLEAN /\ post.button \in BOOLEAN
    BY DEF FormsInit, NoPost
  <2>3. post.dialog \in SubjectDialogs \cup {None} /\ {post.subject, post.said} \subseteq Subjects
    BY DEF FormsInit, NoPost, Subjects
  <2> QED
    BY <1>3, <1>4, <2>1, <2>2, <2>3 DEF FormsTypeOK
<1>6. SubmitsWhatIsShown /\ FieldIsText /\ PendingIsRow
  BY DEF FormsInit, NoPost, SubmitsWhatIsShown, FieldIsText, PendingIsRow, SubjectDialogs
<1>7. EditorStartsFromPartition
  BY <1>2 DEF EditorStartsFromPartition, Rendered
<1> QED
  BY <1>1, <1>5, <1>6, <1>7 DEF FormsInv

\* What another part of the page, or the user, does to dialogs leaves the forms
\* as they are, unless it shows the confirmation or the editor.
LEMMA FormsBystander ==
  ASSUME DialogInv, FormsInv, UNCHANGED formVars,
         \/ \E d \in Dialogs \ {"confirm", "editor"} : ShowStep(d)
         \/ \E d \in Dialogs : CloseDialog(d) \/ Unlock(d)
         \/ UNCHANGED dialogVars
  PROVE  FormsInv'
<1>1. FormsTypeOK' /\ FieldIsText' /\ PendingIsRow'
  BY DEF FormsInv, formVars, FormsTypeOK, FieldIsText, PendingIsRow
<1>2. /\ "confirm" \in opened' => "confirm" \in opened /\ overtaken \subseteq overtaken'
      /\ "editor" \in opened' => "editor" \in opened
  BY DEF ShowStep, PageClickable, ShowModal, CloseDialog, Unlock, dialogVars, DialogInv, OneOpen
<1>3. SubmitsWhatIsShown'
  BY <1>2 DEF FormsInv, formVars, SubmitsWhatIsShown
<1>4. EditorStartsFromPartition'
  BY <1>2 DEF FormsInv, formVars, EditorStartsFromPartition, Rendered
<1> QED
  BY <1>1, <1>3, <1>4 DEF FormsInv

\* A click that puts a subject into a dialog.
LEMMA SubjectStep ==
  ASSUME DialogInv, FormsInv, NEW d \in SubjectDialogs, NEW s \in Subjects,
         d = "confirm" => s \in Targets,
         ShowSubject(d, s), UNCHANGED <<page, confirmed, editor, touched, post>>, reason' \in BOOLEAN
  PROVE  FormsInv'
<1>1. /\ hidden' = [hidden EXCEPT ![d] = s] /\ shown' = [shown EXCEPT ![d] = s]
      /\ opened' = {d} /\ d \in Dialogs
  BY DEF ShowSubject, ShowModal, PageClickable, SubjectDialogs, Dialogs
<1>2. hidden \in [SubjectDialogs -> Subjects] /\ shown \in [SubjectDialogs -> Subjects]
  BY DEF FormsInv, FormsTypeOK
<1>3. FormsTypeOK'
  BY <1>1, <1>2 DEF FormsInv, FormsTypeOK
<1>4. FieldIsText' /\ PendingIsRow'
  BY <1>1, <1>2 DEF FormsInv, FieldIsText, PendingIsRow, SubjectDialogs
<1>5. SubmitsWhatIsShown'
  BY <1>1, <1>2 DEF FormsInv, SubmitsWhatIsShown, SubjectDialogs
<1>6. EditorStartsFromPartition'
  BY <1>1 DEF EditorStartsFromPartition, SubjectDialogs
<1> QED
  BY <1>3, <1>4, <1>5, <1>6 DEF FormsInv

\* The editor is opened on a partition or on none.
LEMMA EditorStep ==
  ASSUME DialogInv, FormsInv, NEW name \in Targets \cup {None}, OpenEditor(Rendered(name))
  PROVE  FormsInv'
<1>1. /\ editor' = Rendered(name) /\ touched' = FALSE /\ opened' = {"editor"}
      /\ UNCHANGED <<page, hidden, shown, confirmed, reason, post>>
  BY DEF OpenEditor, ShowModal, PageClickable
<1>2. editor' \in [name : Targets \cup {None}, readOnly : BOOLEAN, checked : SUBSET LiveNodes]
  <2>1. (name # None) \in BOOLEAN
    OBVIOUS
  <2>2. (IF name = None THEN {} ELSE NodesOf[name] \cap LiveNodes) \in SUBSET LiveNodes
    OBVIOUS
  <2> QED
    BY <1>1, <2>1, <2>2 DEF Rendered
<1>3. FormsTypeOK'
  <2>1. touched' \in BOOLEAN
    BY <1>1
  <2> QED
    BY <1>1, <1>2, <2>1 DEF FormsInv, FormsTypeOK
<1>4. SubmitsWhatIsShown' /\ FieldIsText' /\ PendingIsRow'
  BY <1>1 DEF FormsInv, SubmitsWhatIsShown, FieldIsText, PendingIsRow
<1>5. EditorStartsFromPartition'
  BY <1>1 DEF EditorStartsFromPartition, Rendered
<1> QED
  BY <1>3, <1>4, <1>5 DEF FormsInv

\* Each step of the forms is one of dialogs and keeps the invariant.
LEMMA FormsStepInv == DialogInv /\ FormsInv /\ FormsNext => DialogStep(FormDialogs) /\ FormsInv'
<1> SUFFICES ASSUME DialogInv, FormsInv, FormsNext PROVE DialogStep(FormDialogs) /\ FormsInv'
  OBVIOUS
<1>0. /\ \A d \in SubjectDialogs \cup {"editor", "userCreate", "ldapCreate"} : d \in FormDialogs
      /\ FormDialogs \subseteq Dialogs
  BY DEF SubjectDialogs, Dialogs, FormDialogs
<1>1. ASSUME NEW t \in Targets, SubmitConfirmForm(t)
      PROVE  DialogStep(FormDialogs) /\ FormsInv'
  <2>1. DialogStep(FormDialogs)
    BY <1>0, <1>1 DEF SubmitConfirmForm, ShowSubject, DialogStep, ShowStep, SubjectDialogs
  <2>2. "confirm" \in SubjectDialogs /\ t \in Subjects /\ reason \in BOOLEAN
    BY DEF SubjectDialogs, Subjects, FormsInv, FormsTypeOK
  <2>3. FormsInv'
    BY <1>1, <2>2, SubjectStep DEF SubmitConfirmForm
  <2> QED
    BY <2>1, <2>3
<1>2. ASSUME NEW t \in Targets, ResubmitConfirmForm(t)
      PROVE  DialogStep(FormDialogs) /\ FormsInv'
  <2>1. /\ post' = [dialog |-> "confirm", subject |-> t, said |-> t, button |-> TRUE]
        /\ UNCHANGED <<dialogVars, page, hidden, shown, confirmed, reason, editor, touched>>
    BY <1>2 DEF ResubmitConfirmForm
  <2>2. FormsTypeOK'
    <3>1. /\ post'.dialog \in SubjectDialogs \cup {None}
          /\ {post'.subject, post'.said} \subseteq Subjects
      BY <2>1 DEF SubjectDialogs, Subjects
    <3>2. post'.button \in BOOLEAN
      BY <2>1
    <3> QED
      BY <2>1, <3>1, <3>2 DEF FormsInv, FormsTypeOK
  <2>3. SubmitsWhatIsShown' /\ EditorStartsFromPartition' /\ FieldIsText' /\ PendingIsRow'
    BY <2>1 DEF dialogVars, FormsInv, SubmitsWhatIsShown, EditorStartsFromPartition, Rendered,
                FieldIsText, PendingIsRow
  <2> QED
    BY <2>1, <2>2, <2>3 DEF FormsInv, DialogStep
<1>3. ASSUME NEW t \in Targets, JobCancel(t) \/ PartitionDelete(t)
      PROVE  DialogStep(FormDialogs) /\ FormsInv'
  <2>1. PICK d \in {"cancel", "delete"} :
          ShowSubject(d, t) /\ UNCHANGED <<page, confirmed, reason, editor, touched, post>>
    BY <1>3 DEF JobCancel, PartitionDelete
  <2>2. d \in SubjectDialogs /\ d # "confirm" /\ t \in Subjects /\ reason \in BOOLEAN
    BY DEF SubjectDialogs, Subjects, FormsInv, FormsTypeOK
  <2>3. FormsInv'
    BY <2>1, <2>2, SubjectStep
  <2>4. DialogStep(FormDialogs)
    BY <1>0, <2>1, <2>2 DEF ShowSubject, DialogStep, ShowStep
  <2> QED
    BY <2>3, <2>4
<1>4. ASSUME NEW t \in Targets, NEW s \in NodeStates, NodeStateTrigger(t, s)
      PROVE  DialogStep(FormDialogs) /\ FormsInv'
  <2>1. "nodeState" \in SubjectDialogs /\ <<t, s>> \in Subjects
    BY DEF SubjectDialogs, Subjects
  <2>2. /\ ShowSubject("nodeState", <<t, s>>) /\ UNCHANGED <<page, confirmed, editor, touched, post>>
        /\ reason' \in BOOLEAN
    BY <1>4 DEF NodeStateTrigger
  <2>3. FormsInv'
    BY <2>1, <2>2, SubjectStep
  <2>4. DialogStep(FormDialogs)
    BY <1>0, <2>1, <2>2 DEF ShowSubject, DialogStep, ShowStep
  <2> QED
    BY <2>3, <2>4
<1>5. ASSUME NEW t \in Targets, PartitionEdit(t)
      PROVE  DialogStep(FormDialogs) /\ FormsInv'
  <2>1. OpenEditor(Rendered(t))
    BY <1>5, FormsAssumption DEF PartitionEdit, SetPartitionEditor, Rendered
  <2>2. DialogStep(FormDialogs)
    BY <1>0, <2>1 DEF OpenEditor, DialogStep, ShowStep
  <2> QED
    BY <2>1, <2>2, EditorStep
<1>6. CASE PartitionCreate
  <2>1. OpenEditor(Rendered(None))
    BY <1>6 DEF PartitionCreate, SetPartitionEditor, Rendered
  <2>2. DialogStep(FormDialogs)
    BY <1>0, <2>1 DEF OpenEditor, DialogStep, ShowStep
  <2> QED
    BY <2>1, <2>2, EditorStep
<1>7. CASE Accept
  <2>1. /\ hidden["confirm"] # None /\ CloseDialog("confirm") /\ "confirm" \in opened
        /\ confirmed' = confirmed \cup {hidden["confirm"]}
        /\ post' = [dialog |-> "confirm", subject |-> hidden["confirm"],
                    said |-> shown["confirm"], button |-> FALSE]
        /\ UNCHANGED <<page, hidden, shown, reason, editor, touched>>
    BY <1>7 DEF Accept, Posts, CloseDialog
  <2>2. opened' = {}
    BY <2>1 DEF CloseDialog, DialogInv, OneOpen
  <2>3. hidden["confirm"] = shown["confirm"] /\ hidden["confirm"] \in Targets
    BY <2>1 DEF FormsInv, SubmitsWhatIsShown, PendingIsRow
  <2>4. FormsTypeOK'
    <3>1. /\ post'.dialog \in SubjectDialogs \cup {None}
          /\ {post'.subject, post'.said} \subseteq Subjects
      BY <2>1, <2>3 DEF SubjectDialogs, Subjects
    <3>2. post'.button \in BOOLEAN
      BY <2>1
    <3> QED
      BY <2>1, <2>3, <3>1, <3>2 DEF FormsInv, FormsTypeOK
  <2>5. SubmitsWhatIsShown' /\ EditorStartsFromPartition' /\ FieldIsText' /\ PendingIsRow'
    BY <2>1, <2>2, <2>3 DEF FormsInv, SubmitsWhatIsShown, EditorStartsFromPartition,
                            FieldIsText, PendingIsRow
  <2>6. DialogStep(FormDialogs)
    BY <1>0, <2>1 DEF DialogStep, SubjectDialogs
  <2> QED
    BY <2>4, <2>5, <2>6 DEF FormsInv
<1>8. CASE TypeReason
  <2>1. reason' \in BOOLEAN
    BY <1>8 DEF TypeReason
  <2>2. FormsTypeOK' /\ FieldIsText' /\ PendingIsRow'
    BY <1>8, <2>1 DEF TypeReason, FormsInv, FormsTypeOK, FieldIsText, PendingIsRow
  <2>3. SubmitsWhatIsShown' /\ EditorStartsFromPartition'
    BY <1>8 DEF TypeReason, dialogVars, FormsInv, SubmitsWhatIsShown, EditorStartsFromPartition,
                Rendered
  <2> QED
    BY <1>8, <2>2, <2>3 DEF FormsInv, DialogStep, TypeReason
<1>9. ASSUME NEW d \in {"cancel", "nodeState", "delete"}, SubmitDialog(d)
      PROVE  DialogStep(FormDialogs) /\ FormsInv'
  <2>1. /\ post' = [dialog |-> d, subject |-> hidden[d], said |-> shown[d], button |-> TRUE]
        /\ UNCHANGED <<dialogVars, page, hidden, shown, confirmed, reason, editor, touched>>
    BY <1>9 DEF SubmitDialog, Posts
  <2>2. hidden[d] = shown[d] /\ hidden[d] \in Subjects /\ d \in SubjectDialogs
    BY DEF FormsInv, FieldIsText, FormsTypeOK, SubjectDialogs
  <2>3. FormsTypeOK'
    <3>1. /\ post'.dialog \in SubjectDialogs \cup {None}
          /\ {post'.subject, post'.said} \subseteq Subjects
      BY <2>1, <2>2
    <3>2. post'.button \in BOOLEAN
      BY <2>1
    <3> QED
      BY <2>1, <3>1, <3>2 DEF FormsInv, FormsTypeOK
  <2>4. SubmitsWhatIsShown' /\ EditorStartsFromPartition' /\ FieldIsText' /\ PendingIsRow'
    BY <2>1, <2>2 DEF dialogVars, FormsInv, SubmitsWhatIsShown, EditorStartsFromPartition,
                      Rendered, FieldIsText, PendingIsRow
  <2> QED
    BY <2>1, <2>3, <2>4 DEF FormsInv, DialogStep
<1>10. CASE EditForm
  <2>1. /\ touched' = TRUE
        /\ UNCHANGED <<dialogVars, page, hidden, shown, confirmed, reason, post>>
    BY <1>10 DEF EditForm
  <2>2. editor' \in [name : Targets \cup {None}, readOnly : BOOLEAN, checked : SUBSET LiveNodes]
    <3>1. editor \in [name : Targets \cup {None}, readOnly : BOOLEAN, checked : SUBSET LiveNodes]
      BY DEF FormsInv, FormsTypeOK
    <3>2. ASSUME NEW n \in LiveNodes,
                 editor' = [editor EXCEPT !.checked = IF n \in @ THEN @ \ {n} ELSE @ \cup {n}]
          PROVE  editor' \in [name : Targets \cup {None}, readOnly : BOOLEAN,
                              checked : SUBSET LiveNodes]
      <4>1. (IF n \in editor.checked THEN editor.checked \ {n} ELSE editor.checked \cup {n})
              \in SUBSET LiveNodes
        BY <3>1
      <4> QED
        BY <3>1, <3>2, <4>1
    <3>3. ASSUME NEW t \in Targets, editor' = [editor EXCEPT !.name = t]
          PROVE  editor' \in [name : Targets \cup {None}, readOnly : BOOLEAN,
                              checked : SUBSET LiveNodes]
      BY <3>1, <3>3
    <3> QED
      BY <1>10, <3>2, <3>3 DEF EditForm
  <2>3. FormsTypeOK'
    <3>1. touched' \in BOOLEAN
      BY <2>1
    <3> QED
      BY <2>1, <2>2, <3>1 DEF FormsInv, FormsTypeOK
  <2>4. SubmitsWhatIsShown' /\ EditorStartsFromPartition' /\ FieldIsText' /\ PendingIsRow'
    BY <2>1 DEF dialogVars, FormsInv, SubmitsWhatIsShown, EditorStartsFromPartition,
                FieldIsText, PendingIsRow
  <2> QED
    BY <2>1, <2>3, <2>4 DEF FormsInv, DialogStep
<1>11. CASE OpenUserCreate
  <2>1. ShowStep("userCreate") /\ "userCreate" \in Dialogs \ {"confirm", "editor"}
        /\ UNCHANGED formVars
    BY <1>11 DEF OpenUserCreate, ShowStep, Dialogs
  <2> QED
    BY <1>0, <2>1, FormsBystander DEF DialogStep
<1>12. ASSUME NEW d \in SubjectDialogs \cup {"editor", "userCreate", "ldapCreate"}, DismissDialog(d)
       PROVE  DialogStep(FormDialogs) /\ FormsInv'
  BY <1>0, <1>12, FormsBystander DEF DismissDialog, DialogStep
<1>13. ASSUME NEW d \in {"cancel", "delete", "editor", "userCreate", "ldapCreate"}, DialogCloses(d)
       PROVE  DialogStep(FormDialogs) /\ FormsInv'
  <2>1. d \in FormDialogs
    BY DEF Dialogs, FormDialogs
  <2> QED
    BY <1>0, <1>13, <2>1, FormsBystander DEF DialogCloses, DialogStep
<1>14. CASE ConfirmCloses
  <2>1. /\ hidden' = [hidden EXCEPT !["confirm"] = None] /\ opened' = opened
        /\ "confirm" \in opened => "confirm" \in overtaken'
        /\ UNCHANGED <<page, shown, confirmed, reason, editor, touched, post>>
    BY <1>14 DEF ConfirmCloses, Unlock
  <2>2. hidden \in [SubjectDialogs -> Subjects] /\ None \in Subjects /\ "confirm" \in SubjectDialogs
    BY DEF FormsInv, FormsTypeOK, Subjects, SubjectDialogs
  <2>3. FormsTypeOK'
    BY <2>1, <2>2 DEF FormsInv, FormsTypeOK
  <2>4. hidden'["confirm"] = None /\ \A d \in SubjectDialogs \ {"confirm"} : hidden'[d] = hidden[d]
    BY <2>1, <2>2
  <2>5. FieldIsText' /\ PendingIsRow'
    BY <2>1, <2>4 DEF FormsInv, FieldIsText, PendingIsRow, SubjectDialogs
  <2>6. SubmitsWhatIsShown' /\ EditorStartsFromPartition'
    BY <2>1, <2>4 DEF FormsInv, SubmitsWhatIsShown, EditorStartsFromPartition, Rendered
  <2>7. DialogStep(FormDialogs)
    BY <1>0, <1>14 DEF ConfirmCloses, DialogStep, SubjectDialogs
  <2> QED
    BY <2>3, <2>5, <2>6, <2>7 DEF FormsInv
<1>15. CASE NodeStateCloses
  <2>1. /\ overtaken \subseteq overtaken' \/ opened = {}
        /\ reason' \in BOOLEAN
        /\ UNCHANGED <<opened, page, hidden, shown, confirmed, editor, touched, post>>
    BY <1>15 DEF NodeStateCloses, Unlock
  <2>2. FormsTypeOK' /\ FieldIsText' /\ PendingIsRow'
    BY <2>1 DEF FormsInv, FormsTypeOK, FieldIsText, PendingIsRow
  <2>3. SubmitsWhatIsShown' /\ EditorStartsFromPartition'
    BY <2>1 DEF FormsInv, SubmitsWhatIsShown, EditorStartsFromPartition, Rendered
  <2>4. DialogStep(FormDialogs)
    BY <1>0, <1>15 DEF NodeStateCloses, DialogStep, SubjectDialogs
  <2> QED
    BY <2>2, <2>3, <2>4 DEF FormsInv
<1> QED
  BY <1>1, <1>2, <1>3, <1>4, <1>5, <1>6, <1>7, <1>8, <1>9, <1>10, <1>11, <1>12, <1>13, <1>14,
     <1>15 DEF FormsNext

\* Every dialog posts what it names, the editor starts from its partition, and the
\* page behind scrolls when it should, for any table and any queue of close events.
THEOREM FormsCorrect ==
  FormsSpec => [](DialogTypeOK /\ LockFollowsDialogs /\ FormsTypeOK /\ SubmitsWhatIsShown
                  /\ EditorStartsFromPartition)
<1>1. DialogInv /\ FormsInv /\ [FormsNext]_<<dialogVars, formVars>> => (DialogInv /\ FormsInv)'
  <2>0. FormDialogs \in SUBSET Dialogs
    BY DEF FormDialogs
  <2>1. CASE FormsNext
    BY <2>0, <2>1, FormsStepInv, DialogStepInv
  <2>2. CASE UNCHANGED <<dialogVars, formVars>>
    BY <2>0, <2>2, FormsBystander, DialogStepInv DEF DialogStep
  <2> QED
    BY <2>1, <2>2
<1>2. DialogInv /\ FormsInv
        => DialogTypeOK /\ LockFollowsDialogs /\ FormsTypeOK /\ SubmitsWhatIsShown
           /\ EditorStartsFromPartition
  BY DEF DialogInv, FormsInv
<1> QED
  BY FormsInitInv, <1>1, <1>2, PTL DEF FormsSpec

\* Every POST is about the subject the dialog named, for any rows of the table.
THEOREM PostsNameTheirSubject == FormsSpec => []SubmitsWhatIsShown
BY FormsCorrect, PTL

\* The editor starts from the partition named in it, for any rows and nodes.
THEOREM EditorIsFresh == FormsSpec => []EditorStartsFromPartition
BY FormsCorrect, PTL

-----------------------------------------------------------------------------
(* JobOutputPreview *)

Record == [phase : {"free", "sent"}, stream : Streams \cup {None},
           aborted : BOOLEAN, attached : BOOLEAN]

\* A fetch in flight is of a stream.
SentOfStream == \A r \in Fetches : request[r].phase = "sent" => request[r].stream \in Streams

\* The answer that may be rendered belongs under the title, on a panel that was
\* cleared when it was asked for.
CurrentIsTitled ==
  current # None /\ request[current].phase = "sent" =>
    request[current].stream = view.title /\ ~view.truncated

\* What can be aborted is what may be rendered.
ControllerIsCurrent == controller # None => controller = current

\* A disabled button starts no second fetch of its stream.
OnePerStream ==
  \A o, r \in Fetches :
    /\ request[o].phase = "sent" /\ request[o].attached
    /\ request[r].phase = "sent" /\ request[r].attached
    /\ request[o].stream = request[r].stream
    => o = r

\* The handler is of the log displayed, and a log with more to come fills a batch.
HandlerOfLog ==
  /\ view.kind = "log" => onscroll # None /\ onscroll.of = view.of
  /\ onscroll # None => onscroll.rendered = onscroll.total \/ BatchSize <= onscroll.rendered

\* The inductive invariant of JobOutputPreview, beside that of the dialogs.
PreviewInv ==
  /\ PreviewTypeOK /\ OnlyScrollMisleads /\ FetchAccounting
  /\ SentOfStream /\ CurrentIsTitled /\ ControllerIsCurrent /\ OnePerStream /\ HandlerOfLog

\* Nothing was asked for.
LEMMA PreviewInitInv == PreviewInit => PreviewInv
<1> SUFFICES ASSUME PreviewInit PROVE PreviewInv
  OBVIOUS
<1> USE PreviewAssumption DEF PreviewInit
<1>1. PreviewTypeOK
  <2>1. Free \in Record
    BY DEF Free, Record
  <2>2. Blank \in [title : Streams \cup {None}, truncated : BOOLEAN,
                   kind : {"empty", "loading", "error", "log"},
                   of : Streams \cup {None}, lines : Nat]
    BY DEF Blank
  <2> QED
    BY <2>1, <2>2 DEF PreviewTypeOK, Record
<1>2. OnlyScrollMisleads /\ CurrentIsTitled /\ ControllerIsCurrent /\ HandlerOfLog
  BY DEF OnlyScrollMisleads, CurrentIsTitled, ControllerIsCurrent, HandlerOfLog, Blank
<1>3. FetchAccounting /\ SentOfStream /\ OnePerStream
  BY DEF FetchAccounting, SentOfStream, OnePerStream, Free, Blank
<1> QED
  BY <1>1, <1>2, <1>3 DEF PreviewInv

\* After cancelOutputRequest every fetch in flight is aborted, and else as it was.
LEMMA AllAborted ==
  ASSUME PreviewInv
  PROVE  /\ AfterCancel \in [Fetches -> Record]
         /\ \A r \in Fetches :
              /\ AfterCancel[r].phase = request[r].phase
              /\ AfterCancel[r].stream = request[r].stream
              /\ AfterCancel[r].attached = request[r].attached
              /\ request[r].phase = "sent" => AfterCancel[r].aborted
<1>1. request \in [Fetches -> Record] /\ controller \in Fetches \cup {None}
  BY DEF PreviewInv, PreviewTypeOK, Record
<1>2. AfterCancel \in [Fetches -> Record]
  BY <1>1 DEF AfterCancel, Record
<1>3. ASSUME NEW r \in Fetches
      PROVE  /\ AfterCancel[r].phase = request[r].phase
             /\ AfterCancel[r].stream = request[r].stream
             /\ AfterCancel[r].attached = request[r].attached
             /\ r = controller => AfterCancel[r].aborted
             /\ r # controller => AfterCancel[r] = request[r]
  BY <1>1, PreviewAssumption DEF AfterCancel, Record
<1>4. ASSUME NEW r \in Fetches, request[r].phase = "sent"
      PROVE  AfterCancel[r].aborted
  <2>1. ~request[r].aborted <=> r = controller
    BY <1>4 DEF PreviewInv, FetchAccounting
  <2>2. r # controller => AfterCancel[r].aborted = request[r].aborted
    BY <1>3
  <2> QED
    BY <1>3, <2>1, <2>2
<1> QED
  BY <1>2, <1>3, <1>4

\* What happens to other dialogs leaves the preview as it is.
LEMMA PreviewBystander ==
  ASSUME DialogInv, PreviewInv, UNCHANGED previewVars,
         \/ \E d \in Dialogs \ {"detail"} : ShowStep(d) \/ Unlock(d)
         \/ \E d \in Dialogs : CloseDialog(d)
         \/ UNCHANGED dialogVars
  PROVE  PreviewInv'
<1>1. PreviewTypeOK' /\ OnlyScrollMisleads' /\ SentOfStream' /\ CurrentIsTitled'
      /\ ControllerIsCurrent' /\ OnePerStream' /\ HandlerOfLog'
  BY DEF PreviewInv, previewVars, PreviewTypeOK, OnlyScrollMisleads, SentOfStream,
         CurrentIsTitled, ControllerIsCurrent, OnePerStream, HandlerOfLog
<1>2. "detail" \in opened' => "detail" \in opened /\ overtaken \subseteq overtaken'
  BY DEF ShowStep, PageClickable, ShowModal, CloseDialog, Unlock, dialogVars, DialogInv, OneOpen
<1>3. "detail" \in opened \/ closeEvents["detail"] > 0
        => "detail" \in opened' \/ closeEvents'["detail"] > 0
  <2>1. "detail" \in Dialogs /\ closeEvents \in [Dialogs -> 0 .. MaxCloseEvents]
    BY DEF DialogInv, DialogTypeOK, Dialogs
  <2>2. ASSUME NEW d \in Dialogs \ {"detail"}, ShowStep(d)
        PROVE  closeEvents' = closeEvents /\ opened = {}
    BY <2>2 DEF ShowStep, ShowModal, PageClickable
  <2>3. ASSUME NEW d \in Dialogs \ {"detail"}, Unlock(d)
        PROVE  closeEvents'["detail"] = closeEvents["detail"] /\ opened' = opened
    BY <2>1, <2>3 DEF Unlock
  <2>4. ASSUME NEW d \in Dialogs, CloseDialog(d)
        PROVE  /\ closeEvents'["detail"] >= closeEvents["detail"]
               /\ "detail" \in opened => closeEvents'["detail"] > 0
    BY <2>1, <2>4, DialogAssumption DEF CloseDialog, DialogInv, OneOpen
  <2>5. closeEvents["detail"] \in Nat
    BY <2>1, DialogAssumption
  <2>6. CASE UNCHANGED dialogVars
    BY <2>6 DEF dialogVars
  <2>7. ASSUME NEW d \in Dialogs, CloseDialog(d)
        PROVE  closeEvents'["detail"] \in Nat
    BY <2>1, <2>7, DialogAssumption DEF CloseDialog
  <2> QED
    BY <2>2, <2>3, <2>4, <2>5, <2>6, <2>7
<1>4. FetchAccounting'
  <2>1. UNCHANGED <<current, controller, request, disabled, view, onscroll>>
    BY DEF previewVars
  <2> QED
    BY <1>2, <1>3, <2>1 DEF PreviewInv, FetchAccounting
<1> QED
  BY <1>1, <1>4 DEF PreviewInv

\* A job's detail button.
LEMMA DetailClickStep ==
  ASSUME DialogInv, PreviewInv, DetailClick
  PROVE  PreviewInv'
<1>1. /\ current' = None /\ controller' = None /\ disabled' = {} /\ view' = Blank /\ onscroll' = None
      /\ request' = [r \in Fetches |-> [AfterCancel[r] EXCEPT !.attached = FALSE]]
  BY DEF DetailClick
<1>2. request' \in [Fetches -> Record]
  <2>1. ASSUME NEW f \in Record
        PROVE  [f EXCEPT !.attached = FALSE] \in Record
    BY DEF Record
  <2>2. \A r \in Fetches : AfterCancel[r] \in Record
    BY AllAborted
  <2> QED
    BY <1>1, <2>1, <2>2
<1>3. \A r \in Fetches : /\ request'[r].phase = request[r].phase
                         /\ request'[r].stream = request[r].stream
                         /\ ~request'[r].attached
                         /\ request[r].phase = "sent" => request'[r].aborted
  <2>1. ASSUME NEW r \in Fetches
        PROVE  /\ request'[r].phase = AfterCancel[r].phase
               /\ request'[r].stream = AfterCancel[r].stream
               /\ request'[r].aborted = AfterCancel[r].aborted
               /\ request'[r].attached = FALSE
    BY <1>1, AllAborted DEF Record
  <2> QED
    BY <2>1, AllAborted
<1>4. Blank \in [title : Streams \cup {None}, truncated : BOOLEAN,
                 kind : {"empty", "loading", "error", "log"}, of : Streams \cup {None}, lines : Nat]
  BY DEF Blank
<1>5. PreviewTypeOK'
  BY <1>1, <1>2, <1>4 DEF PreviewTypeOK, Record
<1>6. OnlyScrollMisleads' /\ CurrentIsTitled' /\ ControllerIsCurrent' /\ HandlerOfLog'
  BY <1>1 DEF OnlyScrollMisleads, CurrentIsTitled, ControllerIsCurrent, HandlerOfLog, Blank
<1>7. SentOfStream'
  BY <1>3 DEF PreviewInv, SentOfStream
<1>8. OnePerStream'
  BY <1>3 DEF OnePerStream
<1>9. FetchAccounting'
  <2>1. \A r \in Fetches : request'[r].phase = "sent" => (~request'[r].aborted <=> r = None)
    BY <1>3, PreviewAssumption
  <2>2. view'.kind # "loading"
    BY <1>1 DEF Blank
  <2> QED
    BY <1>1, <1>3, <2>1, <2>2 DEF FetchAccounting
<1> QED
  BY <1>5, <1>6, <1>7, <1>8, <1>9 DEF PreviewInv

\* The button of a stream.
LEMMA OutputClickStep ==
  ASSUME DialogInv, PreviewInv, NEW s \in Streams, NEW r \in Fetches, OutputClick(s, r)
  PROVE  PreviewInv'
<1> DEFINE fetch == [phase |-> "sent", stream |-> s, aborted |-> FALSE, attached |-> TRUE]
<1>1. /\ current' = r /\ controller' = r /\ request' = [AfterCancel EXCEPT ![r] = fetch]
      /\ disabled' = disabled \cup {s} /\ s \notin disabled /\ request[r].phase = "free"
      /\ view' = [title |-> s, truncated |-> FALSE, kind |-> "loading", of |-> s, lines |-> 0]
      /\ UNCHANGED <<onscroll, opened, closeEvents, overtaken>> /\ "detail" \in opened
  BY DEF OutputClick, dialogVars
<1>2. request' \in [Fetches -> Record]
  BY <1>1, AllAborted DEF Record
<1>3. /\ request'[r] = fetch
      /\ \A o \in Fetches \ {r} : /\ request'[o].phase = request[o].phase
                                  /\ request'[o].stream = request[o].stream
                                  /\ request'[o].attached = request[o].attached
                                  /\ request[o].phase = "sent" => request'[o].aborted
  BY <1>1, AllAborted
<1>4. /\ request'[r].phase = "sent" /\ request'[r].stream = s
      /\ request'[r].attached = TRUE /\ request'[r].aborted = FALSE
  BY <1>3
<1>5. PreviewTypeOK'
  <2>1. view' \in [title : Streams \cup {None}, truncated : BOOLEAN,
                   kind : {"empty", "loading", "error", "log"}, of : Streams \cup {None}, lines : Nat]
    BY <1>1
  <2> QED
    BY <1>1, <1>2, <2>1 DEF PreviewInv, PreviewTypeOK, Record
<1>6. OnlyScrollMisleads' /\ HandlerOfLog'
  BY <1>1 DEF PreviewInv, OnlyScrollMisleads, HandlerOfLog
<1>7. CurrentIsTitled' /\ ControllerIsCurrent'
  BY <1>1, <1>4 DEF CurrentIsTitled, ControllerIsCurrent
<1>8. SentOfStream'
  BY <1>3, <1>4 DEF PreviewInv, SentOfStream
<1>9. \A o \in Fetches : ~(request[o].phase = "sent" /\ request[o].attached /\ request[o].stream = s)
  BY <1>1 DEF PreviewInv, FetchAccounting
<1>10. OnePerStream'
  BY <1>3, <1>4, <1>9 DEF PreviewInv, OnePerStream
<1>11. FetchAccounting'
  <2>1. \A o \in Fetches : request'[o].phase = "sent" => (~request'[o].aborted <=> o = r)
    BY <1>3, <1>4
  <2>2. \A q \in Streams : q \in disabled' <=>
          \E o \in Fetches : request'[o].phase = "sent" /\ request'[o].attached
                             /\ request'[o].stream = q
    <3> SUFFICES ASSUME NEW q \in Streams
                 PROVE  q \in disabled' <=>
                          \E o \in Fetches : request'[o].phase = "sent" /\ request'[o].attached
                                             /\ request'[o].stream = q
      OBVIOUS
    <3>1. CASE q = s
      BY <1>1, <1>4, <3>1
    <3>2. CASE q # s
      <4>1. q \in disabled' <=> q \in disabled
        BY <1>1, <3>2
      <4>2. q \in disabled <=>
              \E o \in Fetches : request[o].phase = "sent" /\ request[o].attached
                                 /\ request[o].stream = q
        BY DEF PreviewInv, FetchAccounting
      <4> QED
        BY <1>1, <1>3, <1>4, <3>2, <4>1, <4>2
    <3> QED
      BY <3>1, <3>2
  <2>3. view'.title = s
    BY <1>1
  <2> QED
    BY <1>1, <1>4, <2>1, <2>2, <2>3, PreviewAssumption DEF FetchAccounting
<1> QED
  BY <1>5, <1>6, <1>7, <1>8, <1>10, <1>11 DEF PreviewInv

\* A fetch settles: the panel shows its answer, or an error, if it is the current
\* one of an open dialog, and stays as it is otherwise.
LEMMA SettleStep ==
  ASSUME DialogInv, PreviewInv, NEW r \in Fetches, request[r].phase = "sent", Settle(r),
         PreviewTypeOK', OnlyScrollMisleads', HandlerOfLog',
         MayRender(r) => view'.kind # "loading",
         ~MayRender(r) => view' = view,
         view'.title = view.title
  PROVE  PreviewInv'
<1>1. /\ request' = [request EXCEPT ![r] = Free]
      /\ disabled' = IF request[r].attached THEN disabled \ {request[r].stream} ELSE disabled
      /\ controller' = IF r = current THEN None ELSE controller
      /\ UNCHANGED <<current, opened, closeEvents, overtaken>>
  BY DEF Settle, dialogVars
<1>2. request \in [Fetches -> Record] /\ controller \in Fetches \cup {None}
  BY DEF PreviewInv, PreviewTypeOK, Record
<1>3. request'[r].phase = "free" /\ \A o \in Fetches \ {r} : request'[o] = request[o]
  BY <1>1, <1>2 DEF Free
<1>4. SentOfStream'
  BY <1>3 DEF PreviewInv, SentOfStream
<1>5. ControllerIsCurrent'
  BY <1>1 DEF PreviewInv, ControllerIsCurrent
<1>6. OnePerStream'
  BY <1>3 DEF PreviewInv, OnePerStream
<1>7. CurrentIsTitled'
  <2>1. CASE current = r
    BY <1>1, <1>3, <2>1 DEF CurrentIsTitled
  <2>2. CASE current # r
    <3>1. view' = view
      BY <2>2 DEF MayRender
    <3>2. current \in Fetches \cup {None}
      BY DEF PreviewInv, PreviewTypeOK
    <3> QED
      BY <1>1, <1>3, <2>2, <3>1, <3>2 DEF PreviewInv, CurrentIsTitled
  <2> QED
    BY <2>1, <2>2
<1>8. FetchAccounting'
  <2>1. \A o \in Fetches : request'[o].phase = "sent" => (~request'[o].aborted <=> o = controller')
    <3> SUFFICES ASSUME NEW o \in Fetches, request'[o].phase = "sent"
                 PROVE  ~request'[o].aborted <=> o = controller'
      OBVIOUS
    <3>1. o # r /\ request'[o] = request[o]
      BY <1>3
    <3>2. ~request[o].aborted <=> o = controller
      BY <3>1 DEF PreviewInv, FetchAccounting
    <3>3. r = current => o # controller
      BY <3>1, PreviewAssumption DEF PreviewInv, ControllerIsCurrent
    <3> QED
      BY <1>1, <3>1, <3>2, <3>3, PreviewAssumption
  <2>2. controller' # None =>
          /\ controller' = controller /\ controller # r /\ controller = current
          /\ request'[controller'] = request[controller]
    BY <1>1, <1>2, <1>3 DEF PreviewInv, ControllerIsCurrent
  <2>3. controller' # None =>
          /\ request'[controller'].phase = "sent"
          /\ "detail" \in opened' \/ closeEvents'["detail"] > 0
    BY <1>1, <2>2 DEF PreviewInv, FetchAccounting
  <2>4. ASSUME "detail" \in opened', view'.kind = "loading", "detail" \notin overtaken'
        PROVE  /\ controller' # None /\ controller' = current'
               /\ request'[controller'].stream = view'.title
    <3>1. ~MayRender(r) /\ view' = view /\ r # current
      BY <1>1, <2>4 DEF MayRender
    <3>2. /\ controller # None /\ controller = current
          /\ request[controller].stream = view.title
      BY <1>1, <2>4, <3>1 DEF PreviewInv, FetchAccounting
    <3>3. controller' = controller
      BY <1>1, <3>1
    <3> QED
      BY <1>1, <2>2, <3>1, <3>2, <3>3
  <2>5. ASSUME NEW q \in Streams
        PROVE  q \in disabled' <=>
                 \E o \in Fetches : request'[o].phase = "sent" /\ request'[o].attached
                                    /\ request'[o].stream = q
    <3>1. q \in disabled <=>
            \E o \in Fetches : request[o].phase = "sent" /\ request[o].attached
                               /\ request[o].stream = q
      BY DEF PreviewInv, FetchAccounting
    <3>2. CASE request[r].attached /\ request[r].stream = q
      <4>1. q \notin disabled'
        BY <1>1, <3>2
      <4>2. \A o \in Fetches \ {r} : ~(request[o].phase = "sent" /\ request[o].attached
                                       /\ request[o].stream = q)
        BY <3>2 DEF PreviewInv, OnePerStream
      <4> QED
        BY <1>3, <4>1, <4>2
    <3>3. CASE ~(request[r].attached /\ request[r].stream = q)
      <4>1. q \in disabled' <=> q \in disabled
        BY <1>1, <3>3
      <4> QED
        BY <1>3, <3>1, <3>3, <4>1
    <3> QED
      BY <3>2, <3>3
  <2> QED
    BY <2>1, <2>3, <2>4, <2>5 DEF FetchAccounting
<1> QED
  BY <1>4, <1>5, <1>6, <1>7, <1>8 DEF PreviewInv

Panel == [title : Streams \cup {None}, truncated : BOOLEAN,
          kind : {"empty", "loading", "error", "log"}, of : Streams \cup {None}, lines : Nat]

\* A batch of lines is full or ends the log.
LEMMA BatchShape ==
  ASSUME NEW rendered \in Nat, NEW total \in LogSizes
  PROVE  /\ Batch(rendered, total) \in Nat
         /\ Batch(rendered, total) = total \/ BatchSize <= Batch(rendered, total)
BY PreviewAssumption DEF Batch

\* An answer arrives.
LEMMA DeliverStep ==
  ASSUME DialogInv, PreviewInv, NEW r \in Fetches, NEW total \in LogSizes, Deliver(r, total)
  PROVE  PreviewInv'
<1> DEFINE s == request[r].stream
<1>1. request[r].phase = "sent" /\ Settle(r) /\ s \in Streams
  BY DEF Deliver, PreviewInv, SentOfStream
<1>2. /\ view \in Panel /\ request' \in [Fetches -> Record] /\ disabled' \subseteq Streams
      /\ current' \in Fetches \cup {None} /\ controller' \in Fetches \cup {None}
  <2>1. Free \in Record
    BY DEF Free, Record
  <2> QED
    BY <1>1, <2>1 DEF PreviewInv, PreviewTypeOK, Panel, Record, Settle
<1>3. CASE ~MayRender(r)
  <2>1. view' = view /\ onscroll' = onscroll
    BY <1>3 DEF Deliver, RenderLazyLog
  <2>2. PreviewTypeOK'
    BY <1>2, <2>1 DEF PreviewInv, PreviewTypeOK, Panel, Record
  <2>3. OnlyScrollMisleads' /\ HandlerOfLog'
    BY <2>1 DEF PreviewInv, OnlyScrollMisleads, HandlerOfLog
  <2> QED
    BY <1>1, <1>3, <2>1, <2>2, <2>3, SettleStep
<1>4. CASE MayRender(r)
  <2>1. PICK b \in BOOLEAN :
          view' = [view EXCEPT !.truncated = b, !.kind = "log", !.of = s, !.lines = Batch(0, total)]
    BY <1>4 DEF Deliver, RenderLazyLog
  <2>2. onscroll' = [of |-> s, total |-> total, rendered |-> Batch(0, total)]
    BY <1>4 DEF Deliver, RenderLazyLog
  <2>3. /\ Batch(0, total) \in Nat
        /\ Batch(0, total) = total \/ BatchSize <= Batch(0, total)
    BY BatchShape
  <2>4. onscroll' \in [of : Streams, total : LogSizes, rendered : Nat] /\ onscroll' # None
    BY <1>1, <2>2, <2>3, PreviewAssumption
  <2>5. /\ view'.title = view.title /\ view'.kind = "log" /\ view'.of = s
        /\ view'.lines = Batch(0, total)
    BY <1>2, <2>1 DEF Panel
  <2>6. s = view.title
    <3>1. r = current /\ current # None
      BY <1>4, PreviewAssumption DEF MayRender
    <3> QED
      BY <1>1, <3>1 DEF PreviewInv, CurrentIsTitled
  <2>7. view' \in Panel
    BY <1>1, <1>2, <2>1, <2>3 DEF Panel
  <2>8. PreviewTypeOK'
    BY <1>2, <2>4, <2>7 DEF PreviewTypeOK, Panel, Record
  <2>9. OnlyScrollMisleads' /\ HandlerOfLog'
    BY <2>2, <2>3, <2>4, <2>5, <2>6 DEF OnlyScrollMisleads, HandlerOfLog
  <2> QED
    BY <1>1, <1>4, <2>5, <2>8, <2>9, SettleStep, SMTT(30)
<1> QED
  BY <1>3, <1>4

\* A fetch fails.
LEMMA FetchFailsStep ==
  ASSUME DialogInv, PreviewInv, NEW r \in Fetches, FetchFails(r)
  PROVE  PreviewInv'
<1> DEFINE s == request[r].stream
<1>1. request[r].phase = "sent" /\ Settle(r) /\ s \in Streams /\ onscroll' = onscroll
  BY DEF FetchFails, PreviewInv, SentOfStream
<1>2. /\ view \in Panel /\ request' \in [Fetches -> Record] /\ disabled' \subseteq Streams
      /\ current' \in Fetches \cup {None} /\ controller' \in Fetches \cup {None}
  <2>1. Free \in Record
    BY DEF Free, Record
  <2> QED
    BY <1>1, <2>1 DEF PreviewInv, PreviewTypeOK, Panel, Record, Settle
<1>3. CASE ~MayRender(r)
  <2>1. view' = view
    BY <1>3 DEF FetchFails
  <2>2. PreviewTypeOK'
    BY <1>1, <1>2, <2>1 DEF PreviewInv, PreviewTypeOK, Panel, Record
  <2>3. OnlyScrollMisleads' /\ HandlerOfLog'
    BY <1>1, <2>1 DEF PreviewInv, OnlyScrollMisleads, HandlerOfLog
  <2> QED
    BY <1>1, <1>3, <2>1, <2>2, <2>3, SettleStep
<1>4. CASE MayRender(r)
  <2>1. view' = [view EXCEPT !.kind = "error", !.of = s, !.lines = 0]
    BY <1>4 DEF FetchFails
  <2>2. s = view.title /\ ~view.truncated
    <3>1. r = current /\ current # None
      BY <1>4, PreviewAssumption DEF MayRender
    <3> QED
      BY <1>1, <3>1 DEF PreviewInv, CurrentIsTitled
  <2>3. /\ view'.title = view.title /\ view'.kind = "error" /\ view'.of = s
        /\ view'.truncated = view.truncated
    BY <1>2, <2>1 DEF Panel
  <2>4. view' \in Panel
    BY <1>1, <1>2, <2>1 DEF Panel
  <2>5. PreviewTypeOK'
    BY <1>1, <1>2, <2>4 DEF PreviewInv, PreviewTypeOK, Panel, Record
  <2>6. OnlyScrollMisleads' /\ HandlerOfLog'
    BY <1>1, <2>2, <2>3 DEF PreviewInv, OnlyScrollMisleads, HandlerOfLog
  <2> QED
    BY <1>1, <1>4, <2>3, <2>5, <2>6, SettleStep
<1> QED
  BY <1>3, <1>4

\* The next batch of a log.
LEMMA ScrollStep ==
  ASSUME DialogInv, PreviewInv, Scroll
  PROVE  PreviewInv'
<1> DEFINE next == Batch(onscroll.rendered, onscroll.total)
<1>1. /\ onscroll # None /\ onscroll.rendered < onscroll.total
      /\ view' = [view EXCEPT !.kind = "log", !.of = onscroll.of, !.lines = next]
      /\ onscroll' = [onscroll EXCEPT !.rendered = next]
      /\ UNCHANGED <<current, controller, request, disabled, opened, closeEvents, overtaken>>
  BY DEF Scroll, dialogVars
<1>2. onscroll \in [of : Streams, total : LogSizes, rendered : Nat] /\ view \in Panel
  BY <1>1 DEF PreviewInv, PreviewTypeOK, Panel
<1>3. next \in Nat /\ (next = onscroll.total \/ BatchSize <= next)
  BY <1>2, BatchShape
<1> HIDE DEF next
<1>4. onscroll' \in [of : Streams, total : LogSizes, rendered : Nat] /\ onscroll' # None
  BY <1>1, <1>2, <1>3, PreviewAssumption
<1>5. onscroll'.of = onscroll.of /\ onscroll'.total = onscroll.total /\ onscroll'.rendered = next
  BY <1>1, <1>2
<1>6. /\ view'.title = view.title /\ view'.kind = "log" /\ view'.of = onscroll.of
      /\ view'.lines = next /\ view'.truncated = view.truncated
  BY <1>1, <1>2 DEF Panel
<1>7. view' \in Panel
  BY <1>1, <1>2, <1>3 DEF Panel
<1>8. PreviewTypeOK'
  BY <1>1, <1>4, <1>7 DEF PreviewInv, PreviewTypeOK, Panel
<1>9. onscroll.total > BatchSize
  BY <1>1, <1>2, PreviewAssumption DEF PreviewInv, HandlerOfLog
<1>10. OnlyScrollMisleads'
  <2>1. view.truncated => onscroll.of = view.title
    BY DEF PreviewInv, OnlyScrollMisleads, HandlerOfLog
  <2> QED
    BY <1>4, <1>5, <1>6, <1>9, <2>1 DEF OnlyScrollMisleads
<1>11. HandlerOfLog'
  BY <1>3, <1>4, <1>5, <1>6 DEF HandlerOfLog
<1>12. CurrentIsTitled'
  BY <1>1, <1>6 DEF PreviewInv, CurrentIsTitled
<1>13. SentOfStream' /\ ControllerIsCurrent' /\ OnePerStream'
  BY <1>1 DEF PreviewInv, SentOfStream, ControllerIsCurrent, OnePerStream
<1>14. FetchAccounting'
  BY <1>1, <1>6 DEF PreviewInv, FetchAccounting
<1> QED
  BY <1>8, <1>10, <1>11, <1>12, <1>13, <1>14 DEF PreviewInv

\* The close event of the detail dialog.
LEMMA DetailClosesStep ==
  ASSUME DialogInv, PreviewInv, DetailCloses
  PROVE  PreviewInv'
<1>1. /\ current' = None /\ controller' = None /\ request' = AfterCancel
      /\ UNCHANGED <<disabled, view, onscroll, opened>>
      /\ opened # {} => "detail" \in overtaken'
  BY DEF DetailCloses, CancelOutputRequest, Unlock
<1>2. PreviewTypeOK'
  BY <1>1, AllAborted DEF PreviewInv, PreviewTypeOK, Record
<1>3. OnlyScrollMisleads' /\ HandlerOfLog' /\ CurrentIsTitled' /\ ControllerIsCurrent'
  BY <1>1 DEF PreviewInv, OnlyScrollMisleads, HandlerOfLog, CurrentIsTitled, ControllerIsCurrent
<1>4. \A r \in Fetches :
        /\ request'[r].phase = request[r].phase /\ request'[r].stream = request[r].stream
        /\ request'[r].attached = request[r].attached
        /\ request[r].phase = "sent" => request'[r].aborted
  BY <1>1, AllAborted
<1>5. SentOfStream' /\ OnePerStream'
  BY <1>4 DEF PreviewInv, SentOfStream, OnePerStream
<1>6. FetchAccounting'
  <2>1. \A r \in Fetches : request'[r].phase = "sent" => (~request'[r].aborted <=> r = controller')
    BY <1>1, <1>4, PreviewAssumption
  <2>2. \A q \in Streams : q \in disabled' <=>
          \E r \in Fetches : request'[r].phase = "sent" /\ request'[r].attached
                             /\ request'[r].stream = q
    BY <1>1, <1>4 DEF PreviewInv, FetchAccounting
  <2> QED
    BY <1>1, <2>1, <2>2 DEF FetchAccounting
<1> QED
  BY <1>2, <1>3, <1>5, <1>6 DEF PreviewInv

\* Each step of the preview is one of dialogs and keeps the invariant.
LEMMA PreviewStepInv == DialogInv /\ PreviewInv /\ PreviewNext => DialogStep({"detail"}) /\ PreviewInv'
<1> SUFFICES ASSUME DialogInv, PreviewInv, PreviewNext PROVE DialogStep({"detail"}) /\ PreviewInv'
  OBVIOUS
<1>0. "detail" \in Dialogs
  BY DEF Dialogs
<1>1. CASE DetailClick
  BY <1>0, <1>1, DetailClickStep DEF DetailClick, DialogStep, ShowStep
<1>2. CASE Scroll
  BY <1>2, ScrollStep DEF Scroll, DialogStep
<1>3. CASE DismissDetail
  BY <1>0, <1>3, PreviewBystander DEF DismissDetail, DialogStep
<1>4. CASE DetailCloses
  BY <1>0, <1>4, DetailClosesStep DEF DetailCloses, DialogStep
<1>5. ASSUME NEW r \in Fetches, NEW s \in Streams, OutputClick(s, r)
      PROVE  DialogStep({"detail"}) /\ PreviewInv'
  BY <1>5, OutputClickStep DEF OutputClick, DialogStep
<1>6. ASSUME NEW r \in Fetches, NEW total \in LogSizes, Deliver(r, total)
      PROVE  DialogStep({"detail"}) /\ PreviewInv'
  BY <1>6, DeliverStep DEF Deliver, Settle, DialogStep
<1>7. ASSUME NEW r \in Fetches, FetchFails(r)
      PROVE  DialogStep({"detail"}) /\ PreviewInv'
  BY <1>7, FetchFailsStep DEF FetchFails, Settle, DialogStep
<1> QED
  BY <1>1, <1>2, <1>3, <1>4, <1>5, <1>6, <1>7 DEF PreviewNext

\* No late answer is shown, no fetch outlives its dialog unaborted, and a button is
\* disabled exactly while its stream is being fetched, for any number of fetches.
THEOREM PreviewCorrect ==
  PreviewSpec => [](PreviewTypeOK /\ OnlyScrollMisleads /\ FetchAccounting /\ LockFollowsDialogs)
<1>1. DialogInv /\ PreviewInv /\ [PreviewNext]_<<previewVars, dialogVars>>
        => (DialogInv /\ PreviewInv)'
  <2>0. {"detail"} \in SUBSET Dialogs
    BY DEF Dialogs
  <2>1. CASE PreviewNext
    BY <2>0, <2>1, PreviewStepInv, DialogStepInv
  <2>2. CASE UNCHANGED <<previewVars, dialogVars>>
    BY <2>0, <2>2, PreviewBystander, DialogStepInv DEF DialogStep
  <2> QED
    BY <2>1, <2>2
<1>2. DialogInv /\ PreviewInv
        => PreviewTypeOK /\ OnlyScrollMisleads /\ FetchAccounting /\ LockFollowsDialogs
  BY DEF DialogInv, PreviewInv
<1>3. PreviewInit /\ AllClosed => DialogInv /\ PreviewInv
  BY PreviewInitInv, DialogInit
<1> QED
  BY <1>1, <1>2, <1>3, PTL DEF PreviewSpec

\* Only a scroll handler left behind shows text under another title, for any
\* streams, logs and batches.
THEOREM NoLateAnswerIsShown == PreviewSpec => []OnlyScrollMisleads
BY PreviewCorrect, PTL

\* Fetches, the controller and the disabled buttons agree, for any fetches.
THEOREM FetchesAreAccounted == PreviewSpec => []FetchAccounting
BY PreviewCorrect, PTL

-----------------------------------------------------------------------------
(* ResourcePolling *)

PollRecord == [phase : {"free", "sent"}, job : PollJobs \cup {None}, aborted : BOOLEAN]

\* The answer that may be used is of the job the dialog was opened for.
CurrentOfJob ==
  pollCurrent # None /\ poll[pollCurrent].phase = "sent" => poll[pollCurrent].job = resourceJobID

\* An open dialog is about a job.
OpenOnJob == "resource" \in opened => resourceJobID \in PollJobs

\* The inductive invariant of ResourcePolling, beside that of the dialogs.
PollInv == PollTypeOK /\ OnePollLoop /\ CurrentOfJob /\ OpenOnJob

\* What JobViewer sees of the dialog.
Target == IF "resource" \in opened THEN resourceJobID ELSE None

\* No dialog was opened yet.
LEMMA PollInitInv == PollInit /\ "resource" \notin opened => PollInv
<1> SUFFICES ASSUME PollInit, "resource" \notin opened PROVE PollInv
  OBVIOUS
<1> USE PollingAssumption DEF PollInit
<1>1. PollTypeOK
  <2>1. Unused \in PollRecord
    BY DEF Unused, PollRecord
  <2>2. history \in Seq([job : PollJobs, reading : Samples]) /\ Len(history) <= HistoryLimit
    BY DEF PollInit
  <2>3. timer \in BOOLEAN
    BY DEF PollInit
  <2> QED
    BY <2>1, <2>2, <2>3 DEF PollTypeOK, PollRecord
<1>2. OnePollLoop /\ CurrentOfJob /\ OpenOnJob
  BY DEF OnePollLoop, CurrentOfJob, OpenOnJob, Unused
<1> QED
  BY <1>1, <1>2 DEF PollInv

\* After cancelResourcePolling every fetch in flight is aborted, and else as it was.
LEMMA AllPollsAborted ==
  ASSUME PollInv
  PROVE  /\ AfterAbort \in [Polls -> PollRecord]
         /\ \A p \in Polls : /\ AfterAbort[p].phase = poll[p].phase
                             /\ AfterAbort[p].job = poll[p].job
                             /\ poll[p].phase = "sent" => AfterAbort[p].aborted
<1>1. poll \in [Polls -> PollRecord] /\ pollController \in Polls \cup {None}
  BY DEF PollInv, PollTypeOK, PollRecord
<1>2. AfterAbort \in [Polls -> PollRecord]
  BY <1>1 DEF AfterAbort, PollRecord
<1>3. ASSUME NEW p \in Polls
      PROVE  /\ AfterAbort[p].phase = poll[p].phase
             /\ AfterAbort[p].job = poll[p].job
             /\ p = pollController => AfterAbort[p].aborted
             /\ p # pollController => AfterAbort[p] = poll[p]
  BY <1>1, PollingAssumption DEF AfterAbort, PollRecord
<1>4. ASSUME NEW p \in Polls, poll[p].phase = "sent"
      PROVE  AfterAbort[p].aborted
  <2>1. ~poll[p].aborted => p = pollController
    BY <1>4 DEF PollInv, OnePollLoop
  <2>2. p # pollController => AfterAbort[p].aborted = poll[p].aborted
    BY <1>3
  <2> QED
    BY <1>3, <2>1, <2>2
<1> QED
  BY <1>2, <1>3, <1>4

\* What happens to other dialogs leaves the polling as it is.
LEMMA PollBystander ==
  ASSUME DialogInv, PollInv, UNCHANGED pollVars,
         \/ \E d \in Dialogs \ {"resource"} : ShowStep(d) \/ Unlock(d)
         \/ \E d \in Dialogs \ {"resource"} : CloseDialog(d)
         \/ UNCHANGED dialogVars
  PROVE  PollInv' /\ Target' = Target
<1>1. UNCHANGED <<resourceJobID, pollCurrent, pollController, timer, poll, history, status>>
  BY DEF pollVars
<1>2. PollTypeOK' /\ CurrentOfJob'
  BY <1>1 DEF PollInv, PollTypeOK, CurrentOfJob
<1>3. "resource" \in opened' <=> "resource" \in opened
  BY DEF ShowStep, PageClickable, ShowModal, CloseDialog, Unlock, dialogVars
<1>4. closeEvents'["resource"] = closeEvents["resource"]
  <2>1. "resource" \in Dialogs /\ closeEvents \in [Dialogs -> 0 .. MaxCloseEvents]
    BY DEF DialogInv, DialogTypeOK, Dialogs
  <2> QED
    BY <2>1 DEF ShowStep, ShowModal, CloseDialog, Unlock, dialogVars
<1>5. OnePollLoop' /\ OpenOnJob'
  BY <1>1, <1>3, <1>4 DEF PollInv, OnePollLoop, OpenOnJob
<1>6. Target' = Target
  BY <1>1, <1>3 DEF Target
<1> QED
  BY <1>2, <1>5, <1>6 DEF PollInv

\* A new fetch takes the place of the old one and of the timer.
LEMMA PollStart ==
  ASSUME DialogInv, PollInv, NEW p \in Polls, NEW job \in PollJobs \cup {None},
         PollResourceUsage(p, job), resourceJobID' = job, status' \in {"loading", status},
         history' \in {history, <<>>}, OpenOnJob',
         "resource" \in opened' \/ closeEvents'["resource"] # 0
  PROVE  PollInv'
<1> DEFINE fetch == [phase |-> "sent", job |-> job, aborted |-> FALSE]
<1>1. /\ pollCurrent' = p /\ pollController' = p /\ timer' = FALSE
      /\ poll' = [AfterAbort EXCEPT ![p] = fetch]
  BY DEF PollResourceUsage
<1>2. /\ poll'[p].phase = "sent" /\ poll'[p].job = job
      /\ \A o \in Polls \ {p} : poll'[o].phase = "sent" => poll'[o].aborted
  BY <1>1, AllPollsAborted
<1>3. PollTypeOK'
  <2>1. poll' \in [Polls -> PollRecord]
    BY <1>1, AllPollsAborted DEF PollRecord
  <2>2. timer' \in BOOLEAN
    BY <1>1
  <2>3. history' \in Seq([job : PollJobs, reading : Samples]) /\ Len(history') <= HistoryLimit
    <3>1. history \in Seq([job : PollJobs, reading : Samples]) /\ Len(history) <= HistoryLimit
      BY DEF PollInv, PollTypeOK
    <3>2. <<>> \in Seq([job : PollJobs, reading : Samples]) /\ Len(<<>>) <= HistoryLimit
      BY PollingAssumption
    <3> QED
      BY <3>1, <3>2
  <2>4. status' \in {"empty", "loading", "error", "shown"}
    BY DEF PollInv, PollTypeOK
  <2> QED
    BY <1>1, <2>1, <2>2, <2>3, <2>4 DEF PollTypeOK, PollRecord
<1>4. OnePollLoop'
  BY <1>1, <1>2 DEF OnePollLoop
<1>5. CurrentOfJob'
  BY <1>1, <1>2 DEF CurrentOfJob
<1> QED
  BY <1>3, <1>4, <1>5 DEF PollInv

\* A fetch settles and the timer is set, if the dialog still wants it.
LEMMA RearmStep ==
  ASSUME DialogInv, PollInv, NEW p \in Polls, Rearm(p),
         history' \in Seq([job : PollJobs, reading : Samples]), Len(history') <= HistoryLimit,
         status' \in {"empty", "loading", "error", "shown"}
  PROVE  PollInv'
<1>1. /\ poll' = [poll EXCEPT ![p] = Unused]
      /\ pollController' = IF MayUse(p) THEN None ELSE pollController
      /\ UNCHANGED <<resourceJobID, pollCurrent, opened, closeEvents>>
  BY DEF Rearm, dialogVars
<1>2. timer' = (timer \/ MayUse(p))
  BY DEF Rearm
<1>3. poll \in [Polls -> PollRecord] /\ Unused \in PollRecord
  BY DEF PollInv, PollTypeOK, PollRecord, Unused
<1>4. poll'[p].phase = "free" /\ \A o \in Polls \ {p} : poll'[o] = poll[o]
  BY <1>1, <1>3 DEF Unused
<1>5. PollTypeOK'
  <2>1. timer' \in BOOLEAN
    BY <1>2
  <2>2. poll' \in [Polls -> PollRecord]
    BY <1>1, <1>3
  <2>3. pollController' \in Polls \cup {None}
    BY <1>1 DEF PollInv, PollTypeOK
  <2> QED
    BY <1>1, <2>1, <2>2, <2>3 DEF PollInv, PollTypeOK, PollRecord
<1>6. OnePollLoop'
  <2>1. ASSUME NEW o \in Polls, poll'[o].phase = "sent", ~poll'[o].aborted
        PROVE  o = pollController' /\ o = pollCurrent' /\ ~timer'
    <3>1. o # p /\ poll'[o] = poll[o]
      BY <1>4, <2>1
    <3>2. o = pollController /\ o = pollCurrent /\ ~timer
      BY <2>1, <3>1 DEF PollInv, OnePollLoop
    <3>3. ~MayUse(p)
      BY <3>1, <3>2 DEF MayUse
    <3> QED
      BY <1>1, <1>2, <3>2, <3>3
  <2>2. ASSUME "resource" \notin opened', closeEvents'["resource"] = 0
        PROVE  ~timer' /\ pollController' = None
    <3>1. ~MayUse(p)
      BY <1>1, <2>2 DEF MayUse
    <3>2. ~timer /\ pollController = None
      BY <1>1, <2>2 DEF PollInv, OnePollLoop
    <3> QED
      BY <1>1, <1>2, <3>1, <3>2
  <2> QED
    BY <2>1, <2>2 DEF OnePollLoop
<1>7. CurrentOfJob'
  <2>1. pollCurrent \in Polls \cup {None}
    BY DEF PollInv, PollTypeOK
  <2> QED
    BY <1>1, <1>4, <2>1 DEF PollInv, CurrentOfJob
<1>8. OpenOnJob'
  BY <1>1 DEF PollInv, OpenOnJob
<1> QED
  BY <1>5, <1>6, <1>7, <1>8 DEF PollInv

\* The history keeps within its limit.
LEMMA RecentShape ==
  ASSUME NEW S, NEW h \in Seq(S), Len(h) <= HistoryLimit, NEW e \in S
  PROVE  Recent(Append(h, e)) \in Seq(S) /\ Len(Recent(Append(h, e))) <= HistoryLimit
<1>1. Append(h, e) \in Seq(S) /\ Len(Append(h, e)) = Len(h) + 1 /\ Len(h) \in Nat
  OBVIOUS
<1>2. HistoryLimit \in Nat
  BY PollingAssumption
<1>3. CASE Len(h) + 1 > HistoryLimit
  <2>1. Append(h, e) # <<>>
    BY <1>1
  <2>2. Tail(Append(h, e)) \in Seq(S) /\ Len(Tail(Append(h, e))) = Len(h)
    BY <1>1, <2>1
  <2> QED
    BY <1>1, <1>2, <1>3, <2>2 DEF Recent
<1>4. CASE ~(Len(h) + 1 > HistoryLimit)
  BY <1>1, <1>2, <1>4 DEF Recent
<1> QED
  BY <1>3, <1>4

\* Each step of the polling is one of dialogs, keeps the invariant, and is a step
\* that JobViewer allows, or none.
LEMMA PollStepInv ==
  DialogInv /\ PollInv /\ PollNext
    => DialogStep({"resource"}) /\ PollInv' /\ [Viewer!Next]_<<Target, history>>
<1> SUFFICES ASSUME DialogInv, PollInv, PollNext
             PROVE  DialogStep({"resource"}) /\ PollInv' /\ [Viewer!Next]_<<Target, history>>
  OBVIOUS
<1>0. "resource" \in Dialogs
  BY DEF Dialogs
<1>1. CASE DismissResource
  <2>1. /\ opened' = {} /\ "resource" \in opened
        /\ UNCHANGED <<resourceJobID, pollCurrent, pollController, timer, poll, history, status>>
    BY <1>1 DEF DismissResource, CloseDialog, DialogInv, OneOpen, pollVars
  <2>2. closeEvents'["resource"] # 0
    BY <1>0, <1>1, DialogAssumption DEF DismissResource, CloseDialog, DialogInv, DialogTypeOK
  <2>3. PollInv'
    BY <2>1, <2>2 DEF PollInv, PollTypeOK, OnePollLoop, CurrentOfJob, OpenOnJob
  <2>4. Viewer!Leave
    BY <2>1, PollingAssumption DEF PollInv, OpenOnJob, Viewer!Leave
  <2> QED
    BY <1>0, <1>1, <2>3, <2>4 DEF DismissResource, DialogStep, Viewer!Next
<1>2. CASE ResourceCloses
  <2>1. /\ pollCurrent' = None /\ pollController' = None /\ timer' = FALSE /\ poll' = AfterAbort
        /\ history' = <<>> /\ UNCHANGED <<resourceJobID, status, opened>>
    BY <1>2 DEF ResourceCloses, CancelResourcePolling, Unlock
  <2>2. PollTypeOK'
    <3>1. history' \in Seq([job : PollJobs, reading : Samples]) /\ Len(history') <= HistoryLimit
      BY <2>1, PollingAssumption
    <3>2. timer' \in BOOLEAN
      BY <2>1
    <3> QED
      BY <2>1, <3>1, <3>2, AllPollsAborted DEF PollInv, PollTypeOK, PollRecord
  <2>3. OnePollLoop'
    BY <2>1, AllPollsAborted DEF OnePollLoop
  <2>4. CurrentOfJob' /\ OpenOnJob'
    BY <2>1 DEF PollInv, CurrentOfJob, OpenOnJob
  <2>5. Viewer!Forget
    BY <2>1 DEF Viewer!Forget
  <2> QED
    BY <1>0, <1>2, <2>2, <2>3, <2>4, <2>5 DEF PollInv, ResourceCloses, DialogStep, Viewer!Next
<1>3. ASSUME NEW p \in Polls, NEW j \in PollJobs, ResourceClick(j, p)
      PROVE  DialogStep({"resource"}) /\ PollInv' /\ [Viewer!Next]_<<Target, history>>
  <2>1. /\ resourceJobID' = j /\ history' = <<>> /\ status' = "loading"
        /\ opened = {} /\ opened' = {"resource"} /\ PollResourceUsage(p, j)
    BY <1>3 DEF ResourceClick, ShowModal, PageClickable
  <2>2. OpenOnJob'
    BY <2>1 DEF OpenOnJob
  <2>3. PollInv'
    BY <2>1, <2>2, PollStart
  <2>4. Viewer!Select
    BY <2>1 DEF Viewer!Select
  <2>5. DialogStep({"resource"})
    BY <1>0, <1>3 DEF ResourceClick, DialogStep, ShowStep
  <2> QED
    BY <2>3, <2>4, <2>5 DEF Viewer!Next
<1>4. ASSUME NEW p \in Polls, TimerFires(p)
      PROVE  DialogStep({"resource"}) /\ PollInv' /\ [Viewer!Next]_<<Target, history>>
  <2>1. /\ timer /\ PollResourceUsage(p, resourceJobID)
        /\ UNCHANGED <<resourceJobID, history, status, opened, closeEvents>>
    BY <1>4 DEF TimerFires, dialogVars
  <2>2. resourceJobID \in PollJobs \cup {None}
    BY DEF PollInv, PollTypeOK
  <2>3. "resource" \in opened' \/ closeEvents'["resource"] # 0
    BY <2>1 DEF PollInv, OnePollLoop
  <2>4. OpenOnJob'
    BY <2>1 DEF PollInv, OpenOnJob
  <2>5. PollInv'
    BY <2>1, <2>2, <2>3, <2>4, PollStart
  <2>6. UNCHANGED <<Target, history>>
    BY <2>1 DEF Target
  <2>7. DialogStep({"resource"})
    BY <1>4 DEF TimerFires, DialogStep
  <2> QED
    BY <2>5, <2>6, <2>7
<1>5. ASSUME NEW p \in Polls, NEW s \in Samples, UsageArrives(p, s)
      PROVE  DialogStep({"resource"}) /\ PollInv' /\ [Viewer!Next]_<<Target, history>>
  <2>1. /\ poll[p].phase = "sent" /\ Rearm(p) /\ RenderResourceUsage(p, s)
        /\ UNCHANGED <<resourceJobID, opened>>
    BY <1>5 DEF UsageArrives, Rearm, dialogVars
  <2>2. /\ history \in Seq([job : PollJobs, reading : Samples]) /\ Len(history) <= HistoryLimit
        /\ status \in {"empty", "loading", "error", "shown"}
    BY DEF PollInv, PollTypeOK
  <2>3. DialogStep({"resource"})
    BY <2>1 DEF Rearm, DialogStep
  <2>4. CASE MayUse(p)
    <3>1. p = pollCurrent /\ "resource" \in opened
      BY <2>4 DEF MayUse
    <3>2. poll[p].job = resourceJobID /\ resourceJobID \in PollJobs
      BY <2>1, <3>1, PollingAssumption DEF PollInv, CurrentOfJob, OpenOnJob
    <3> DEFINE e == [job |-> resourceJobID, reading |-> s]
    <3>3. history' = Recent(Append(history, e)) /\ status' = "shown"
      BY <2>1, <2>4, <3>2 DEF RenderResourceUsage
    <3>4. e \in [job : PollJobs, reading : Samples]
      BY <3>2
    <3>5. /\ history' \in Seq([job : PollJobs, reading : Samples])
          /\ Len(history') <= HistoryLimit
      <4> HIDE DEF e
      <4> QED
        BY <2>2, <3>3, <3>4, RecentShape
    <3>6. PollInv'
      BY <2>1, <3>3, <3>5, RearmStep
    <3>7. Viewer!Receive
      BY <2>1, <3>1, <3>2, <3>3, PollingAssumption DEF Viewer!Receive, Viewer!LastOf, Recent
    <3> QED
      BY <2>3, <3>6, <3>7 DEF Viewer!Next
  <2>5. CASE ~MayUse(p)
    <3>1. history' = history /\ status' = status
      BY <2>1, <2>5 DEF RenderResourceUsage
    <3>2. PollInv'
      BY <2>1, <2>2, <3>1, RearmStep
    <3>3. UNCHANGED <<Target, history>>
      BY <2>1, <3>1 DEF Target
    <3> QED
      BY <2>3, <3>2, <3>3
  <2> QED
    BY <2>4, <2>5
<1>6. ASSUME NEW p \in Polls, UsageFails(p)
      PROVE  DialogStep({"resource"}) /\ PollInv' /\ [Viewer!Next]_<<Target, history>>
  <2>1. /\ Rearm(p) /\ history' = history /\ status' \in {"error", status}
        /\ UNCHANGED <<resourceJobID, opened>>
    BY <1>6 DEF UsageFails, Rearm, dialogVars
  <2>2. /\ history \in Seq([job : PollJobs, reading : Samples]) /\ Len(history) <= HistoryLimit
        /\ status \in {"empty", "loading", "error", "shown"}
    BY DEF PollInv, PollTypeOK
  <2>3. PollInv'
    BY <2>1, <2>2, RearmStep
  <2>4. DialogStep({"resource"})
    BY <2>1 DEF Rearm, DialogStep
  <2>5. UNCHANGED <<Target, history>>
    BY <2>1 DEF Target
  <2> QED
    BY <2>3, <2>4, <2>5
<1> QED
  BY <1>1, <1>2, <1>3, <1>4, <1>5, <1>6 DEF PollNext

\* The invariant of the dialog that polls.
LEMMA PollInvariant == PollSpec => [](DialogInv /\ PollInv)
<1>1. PollInit /\ AllClosed => DialogInv /\ PollInv
  BY PollInitInv, DialogInit DEF AllClosed
<1>2. DialogInv /\ PollInv /\ [PollNext]_<<pollVars, dialogVars>> => (DialogInv /\ PollInv)'
  <2>0. {"resource"} \in SUBSET Dialogs
    BY DEF Dialogs
  <2>1. CASE PollNext
    BY <2>0, <2>1, PollStepInv, DialogStepInv
  <2>2. CASE UNCHANGED <<pollVars, dialogVars>>
    BY <2>0, <2>2, PollBystander, DialogStepInv DEF DialogStep
  <2> QED
    BY <2>1, <2>2
<1> QED
  BY <1>1, <1>2, PTL DEF PollSpec

\* There is one polling loop, and none behind a closed dialog, for any number of
\* jobs, fetches and samples.
THEOREM PollingCorrect ==
  PollSpec => [](PollTypeOK /\ OnePollLoop /\ LockFollowsDialogs)
<1>1. DialogInv /\ PollInv => PollTypeOK /\ OnePollLoop /\ LockFollowsDialogs
  BY DEF DialogInv, PollInv
<1> QED
  BY <1>1, PollInvariant, PTL

\* There is at most one polling loop, for any jobs and fetches.
THEOREM PollingIsSingle == PollSpec => []OnePollLoop
BY PollingCorrect, PTL

\* The resource dialog implements JobViewer: whatever is late, aborted or queued, it
\* displays the last samples of the job it was opened for.
THEOREM PollingRefinesViewer == PollSpec => ImplementsViewer
<1>1. PollInit /\ AllClosed => Viewer!Init
  BY DEF PollInit, AllClosed, Viewer!Init
<1>2. DialogInv /\ PollInv /\ [PollNext]_<<pollVars, dialogVars>>
        => [Viewer!Next]_<<Target, history>>
  <2>1. CASE PollNext
    BY <2>1, PollStepInv
  <2>2. CASE UNCHANGED <<pollVars, dialogVars>>
    BY <2>2 DEF pollVars, dialogVars, Target
  <2> QED
    BY <2>1, <2>2
<1> QED
  BY <1>1, <1>2, PollInvariant, PTL DEF PollSpec, ImplementsViewer, Viewer!Spec, Target

-----------------------------------------------------------------------------
(* The charts of ResourcePolling *)

\* What division by a positive number means.
LEMMA DivMeans ==
  ASSUME NEW n \in Nat, NEW d \in Nat \ {0}
  PROVE  /\ n \div d \in Nat
         /\ d * (n \div d) <= n
         /\ n < d * (n \div d) + d
OBVIOUS

\* Cancelling a positive factor.
LEMMA Cancel ==
  ASSUME NEW d \in Nat \ {0}, NEW p \in Int, NEW q \in Int, d * p < d * q + d
  PROVE  p <= q
<1> SUFFICES ASSUME q + 1 <= p PROVE FALSE
  OBVIOUS
<1>1. d * (q + 1) <= d * p
  OBVIOUS
<1>2. d * (q + 1) = d * q + d
  OBVIOUS
<1> QED
  BY <1>1, <1>2

\* Rounding keeps the order.
LEMMA RoundedMonotone ==
  ASSUME NEW a \in Nat, NEW c \in Nat, a <= c, NEW b \in Nat \ {0}
  PROVE  Rounded(a, b) \in Nat /\ Rounded(a, b) <= Rounded(c, b)
<1> DEFINE p == (2 * a + b) \div (2 * b)
           q == (2 * c + b) \div (2 * b)
           d == 2 * b
<1>1. d \in Nat \ {0} /\ 2 * a + b \in Nat /\ 2 * c + b \in Nat /\ 2 * a + b <= 2 * c + b
  OBVIOUS
<1>2. p \in Nat /\ d * p <= 2 * a + b
  BY <1>1, DivMeans
<1>3. q \in Nat /\ 2 * c + b < d * q + d
  BY <1>1, DivMeans
<1>4. p \in Int /\ q \in Int /\ d * p \in Int /\ d * q \in Int
  BY <1>1, <1>2, <1>3
<1> HIDE DEF p, q, d
<1>5. d * p < d * q + d
  BY <1>1, <1>2, <1>3, <1>4
<1>6. p <= q
  BY <1>1, <1>4, <1>5, Cancel
<1> QED
  BY <1>2, <1>6 DEF Rounded, p, q

\* Rounding changes nothing that needs none.
LEMMA RoundedExact ==
  ASSUME NEW c \in Nat, NEW b \in Nat \ {0}
  PROVE  Rounded(c * b, b) = c
<1> DEFINE d == 2 * b
           n == 2 * (c * b) + b
           q == n \div d
<1>1. d \in Nat \ {0} /\ n \in Nat /\ d * c \in Nat /\ n = d * c + b
  OBVIOUS
<1>2. q \in Nat /\ d * q <= n /\ n < d * q + d
  BY <1>1, DivMeans
<1>3. d * q \in Int
  BY <1>1, <1>2
<1>4. b < d /\ b > 0
  OBVIOUS
<1> HIDE DEF d, n, q
<1>5. d * c < d * q + d /\ d * q < d * c + d
  BY <1>1, <1>2, <1>3, <1>4
<1>6. c <= q /\ q <= c
  BY <1>1, <1>2, <1>5, Cancel
<1> QED
  BY <1>2, <1>6 DEF Rounded, d, n, q

\* A rounded share of c is at most c.
LEMMA RoundedShare ==
  ASSUME NEW part \in Nat, NEW whole \in Nat \ {0}, part <= whole, NEW c \in Nat
  PROVE  Rounded(part * c, whole) \in 0 .. c
<1>1. part * c \in Nat /\ whole * c \in Nat /\ part * c <= whole * c /\ whole * c = c * whole
  OBVIOUS
<1>2. Rounded(part * c, whole) \in Nat /\ Rounded(part * c, whole) <= Rounded(c * whole, whole)
  BY <1>1, RoundedMonotone
<1>3. Rounded(c * whole, whole) = c
  BY RoundedExact
<1> QED
  BY <1>2, <1>3

\* A set of numbers has a least one.
LEMMA LeastOf ==
  ASSUME NEW T \in SUBSET Nat, T # {}
  PROVE  \E m \in T : \A t \in T : m <= t
<1>1. \E m \in T : \A t \in T : ~(<<t, m>> \in OpToRel(<, Nat))
  BY NatLessThanWellFounded, WFMin
<1>2. PICK m \in T : \A t \in T : ~(<<t, m>> \in OpToRel(<, Nat))
  BY <1>1
<1>3. \A t \in T : ~(t < m)
  BY <1>2 DEF OpToRel
<1> QED
  BY <1>3

\* A part of a finite set that is not all of it has fewer elements.
LEMMA StrictSubset ==
  ASSUME NEW S, IsFiniteSet(S), NEW T \in SUBSET S, T # S
  PROVE  Cardinality(T) < Cardinality(S)
<1>1. /\ IsFiniteSet(T) /\ Cardinality(T) <= Cardinality(S) /\ Cardinality(T) # Cardinality(S)
  BY FS_Subset
<1>2. Cardinality(T) \in Nat /\ Cardinality(S) \in Nat
  BY <1>1, FS_CardinalityType
<1> QED
  BY <1>1, <1>2

\* A finite set of numbers has a greatest one: the one with the fewest above it.
LEMMA GreatestOf ==
  ASSUME NEW T \in SUBSET Nat, T # {}, IsFiniteSet(T)
  PROVE  \E m \in T : \A t \in T : t <= m
<1> DEFINE Above(m) == {t \in T : t > m}
           Counts == {Cardinality(Above(m)) : m \in T}
<1>1. \A m \in T : IsFiniteSet(Above(m)) /\ Cardinality(Above(m)) \in Nat
  BY FS_Subset, FS_CardinalityType
<1>2. PICK c \in Counts : \A e \in Counts : c <= e
  <2>1. Counts \in SUBSET Nat /\ Counts # {}
    BY <1>1
  <2> HIDE DEF Counts
  <2> QED
    BY <2>1, LeastOf
<1>3. PICK m \in T : c = Cardinality(Above(m))
  BY <1>2
<1>4. ASSUME NEW t \in T, t > m
      PROVE  FALSE
  <2>1. Above(t) \in SUBSET Above(m) /\ Above(t) # Above(m)
    <3>1. t \in Above(m) /\ t \notin Above(t)
      BY <1>4
    <3>2. \A u \in T : u > t => u > m
      BY <1>4
    <3> QED
      BY <3>1, <3>2
  <2>2. Cardinality(Above(t)) < Cardinality(Above(m))
    BY <1>1, <2>1, StrictSubset
  <2>3. Cardinality(Above(t)) \in Counts /\ c <= Cardinality(Above(t))
    BY <1>2
  <2> QED
    BY <1>1, <1>3, <2>2, <2>3
<1> QED
  BY <1>4

\* Min and Max return them.
LEMMA Extrema ==
  ASSUME NEW T \in SUBSET Nat, T # {}, IsFiniteSet(T)
  PROVE  /\ Min(T) \in T /\ Max(T) \in T
         /\ \A t \in T : Min(T) <= t /\ t <= Max(T)
<1>1. Min(T) \in T /\ \A t \in T : Min(T) <= t
  BY LeastOf DEF Min
<1>2. PICK m \in T : \A t \in T : t <= m
  BY GreatestOf
<1>3. \A t \in T : m >= t
  BY <1>2
<1>4. Max(T) \in T /\ \A t \in T : Max(T) >= t
  BY <1>3 DEF Max
<1> QED
  BY <1>1, <1>4

\* The samples of a chart with times that do not go back.
Drawable(samples, n) ==
  /\ DOMAIN samples = 1 .. n
  /\ \A i \in 1 .. n : samples[i].time \in Nat /\ samples[i].value \in Nat \cup {None}
  /\ \A i, k \in 1 .. n : i <= k => samples[i].time <= samples[k].time

\* The places that are drawn are finitely many and have numbers.
LEMMA FiniteSamples ==
  ASSUME NEW samples, NEW n \in Nat, Drawable(samples, n)
  PROVE  /\ Finite(samples) \subseteq 1 .. n /\ IsFiniteSet(Finite(samples))
         /\ Cardinality(Finite(samples)) \in Nat
         /\ \A i \in Finite(samples) : samples[i].value \in Nat
<1>1. Finite(samples) \subseteq 1 .. n /\ \A i \in Finite(samples) : samples[i].value \in Nat
  BY DEF Finite, Drawable
<1>2. IsFiniteSet(1 .. n)
  BY FS_Interval
<1> QED
  BY <1>1, <1>2, FS_Subset, FS_CardinalityType

\* The axis: no value exceeds it and, unless it is 0, one reaches it.
LEMMA AxisMaximum ==
  ASSUME NEW samples, NEW n \in Nat, Drawable(samples, n)
  PROVE  /\ ChartMaximum(samples) \in Nat
         /\ \A i \in Finite(samples) : samples[i].value <= ChartMaximum(samples)
         /\ ChartMaximum(samples) > 0 =>
              \E i \in Finite(samples) : samples[i].value = ChartMaximum(samples)
<1> DEFINE drawn == {samples[i].value : i \in Finite(samples)}
           all == {0} \cup drawn
<1>1. IsFiniteSet(drawn) /\ drawn \subseteq Nat
  <2>1. drawn \subseteq Nat /\ IsFiniteSet(Finite(samples))
    BY FiniteSamples
  <2>2. [i \in Finite(samples) |-> samples[i].value] \in Surjection(Finite(samples), drawn)
    BY DEF Surjection
  <2> QED
    BY <2>1, <2>2, FS_Surjection DEF ExistsSurjection
<1>2. IsFiniteSet(all) /\ all \in SUBSET Nat /\ all # {}
  BY <1>1, FS_AddElement
<1>3. Max(all) \in all /\ \A t \in all : t <= Max(all)
  BY <1>2, Extrema
<1>4. ChartMaximum(samples) = Max(all)
  BY DEF ChartMaximum
<1>5. \A i \in Finite(samples) : samples[i].value \in all
  OBVIOUS
<1>6. Max(all) > 0 => \E i \in Finite(samples) : samples[i].value = Max(all)
  BY <1>3
<1>7. Max(all) \in Nat
  BY <1>2, <1>3
<1> HIDE DEF all
<1> QED
  BY <1>3, <1>4, <1>5, <1>6, <1>7

\* The place of a value in the filtered array.
LEMMA IndexBounds ==
  ASSUME NEW samples, NEW n \in Nat, Drawable(samples, n), NEW i \in Finite(samples)
  PROVE  /\ Index(samples, i) \in Nat
         /\ Index(samples, i) <= Cardinality(Finite(samples)) - 1
         /\ \A k \in Finite(samples) : i < k => Index(samples, i) <= Index(samples, k)
<1> DEFINE Before(k) == {j \in Finite(samples) : j < k}
<1>1. /\ Finite(samples) \subseteq 1 .. n /\ IsFiniteSet(Finite(samples))
      /\ Cardinality(Finite(samples)) \in Nat
  BY FiniteSamples
<1>2. \A k \in Finite(samples) : IsFiniteSet(Before(k)) /\ Cardinality(Before(k)) \in Nat
  BY <1>1, FS_Subset, FS_CardinalityType
<1>3. Cardinality(Before(i)) < Cardinality(Finite(samples))
  <2>1. Before(i) \in SUBSET Finite(samples) /\ Before(i) # Finite(samples)
    BY <1>1
  <2> QED
    BY <1>1, <2>1, StrictSubset
<1>4. ASSUME NEW k \in Finite(samples), i < k
      PROVE  Cardinality(Before(i)) <= Cardinality(Before(k))
  <2>1. Before(i) \in SUBSET Before(k)
    BY <1>1, <1>4
  <2> QED
    BY <1>2, <2>1, FS_Subset
<1> QED
  BY <1>1, <1>2, <1>3, <1>4 DEF Index

\* Where a value is drawn under the axis, and a share of the time from the left.
Tall == 1000
Width == 6520
Height(value, maximum) == Bottom - Rounded(value * Tall, maximum)
Place(part, whole) == Left + Rounded(part * Width, whole)

\* The frame, in inequalities.
LEMMA Frame ==
  /\ Left \in Nat /\ Right \in Nat /\ Top \in Nat /\ Bottom \in Nat /\ Tall \in Nat /\ Width \in Nat
  /\ Left + Width = Right /\ Bottom - Tall = Top
  /\ \A x \in Int : Left <= x /\ x <= Right => x \in Across
  /\ \A y \in Int : Top <= y /\ y <= Bottom => y \in Down
<1>1. /\ Left \in Nat /\ Right \in Nat /\ Top \in Nat /\ Bottom \in Nat
      /\ Tall \in Nat /\ Width \in Nat /\ Left + Width = Right /\ Bottom - Tall = Top
  BY DEF Left, Right, Top, Bottom, Tall, Width
<1> QED
  BY <1>1 DEF Across, Down

\* The highest value is at the top of the frame.
LEMMA HeightInFrame ==
  ASSUME NEW value \in Nat, NEW maximum \in Nat \ {0}, value <= maximum
  PROVE  /\ Height(value, maximum) \in Down
         /\ value = maximum => Height(value, maximum) = Top
<1> DEFINE r == Rounded(value * Tall, maximum)
<1>1. r \in 0 .. Tall
  BY Frame, RoundedShare
<1>2. ASSUME value = maximum PROVE r = Tall
  <2>1. value * Tall = Tall * maximum
    BY <1>2, Frame
  <2>2. Rounded(Tall * maximum, maximum) = Tall
    BY Frame, RoundedExact
  <2> QED
    BY <2>1, <2>2
<1> HIDE DEF r
<1>3. Bottom - r \in Int /\ Top <= Bottom - r /\ Bottom - r <= Bottom
  BY <1>1, Frame
<1>4. Bottom - r \in Down /\ (value = maximum => Bottom - r = Top)
  BY <1>2, <1>3, Frame
<1> QED
  BY <1>4 DEF Height, r

\* A later point is not to the left of an earlier one.
LEMMA PlaceInFrame ==
  ASSUME NEW part \in Nat, NEW more \in Nat, NEW whole \in Nat \ {0},
         part <= more, more <= whole
  PROVE  Place(part, whole) \in Across /\ Place(part, whole) <= Place(more, whole)
<1> DEFINE r == Rounded(part * Width, whole)
           s == Rounded(more * Width, whole)
<1>1. /\ part <= whole /\ Width \in Nat
      /\ part * Width \in Nat /\ more * Width \in Nat /\ part * Width <= more * Width
  BY Frame
<1>2. r \in 0 .. Width /\ s \in 0 .. Width
  BY <1>1, RoundedShare
<1>3. r <= s
  BY <1>1, RoundedMonotone
<1> HIDE DEF r, s
<1>4. /\ Left + r \in Int /\ Left <= Left + r /\ Left + r <= Right
      /\ Left + r <= Left + s
  BY <1>2, <1>3, Frame
<1>5. Left + r \in Across
  BY <1>4, Frame
<1> QED
  BY <1>4, <1>5 DEF Place, r, s

\* One chart: the axis is the highest value, places follow the times, or the order
\* where all times are equal.
LEMMA ChartInFrame ==
  ASSUME NEW samples, NEW n \in Nat, Drawable(samples, n)
  PROVE  InFrame(ChartPoints(samples), ChartMaximum(samples))
<1> DEFINE values == Finite(samples)
           top == ChartMaximum(samples)
           maximum == IF top = 0 THEN 1 ELSE top
           first == samples[Min(values)].time
           range == samples[Max(values)].time - first
           size == Cardinality(values)
           points == ChartPoints(samples)
<1>1. /\ values \in SUBSET Nat /\ values \subseteq 1 .. n /\ IsFiniteSet(values) /\ size \in Nat
      /\ \A i \in values : samples[i].value \in Nat /\ samples[i].time \in Nat
  BY FiniteSamples, SMTT(30) DEF Drawable
<1>2. /\ top \in Nat /\ maximum \in Nat \ {0}
      /\ \A i \in values : samples[i].value <= maximum
      /\ top > 0 => \E i \in values : samples[i].value = maximum
  BY <1>1, AxisMaximum
<1>3. /\ DOMAIN points = values
      /\ \A i \in values :
           /\ points[i].y = Height(samples[i].value, maximum)
           /\ points[i].x = IF range > 0 THEN Place(samples[i].time - first, range)
                            ELSE IF size = 1 THEN 3780
                            ELSE Place(Index(samples, i), size - 1)
  BY DEF ChartPoints, Height, Place, Left, Bottom, Tall, Width
<1> HIDE DEF maximum, points, top, values
<1>4. /\ \A i \in values : points[i].y \in Down
      /\ top > 0 => \E i \in values : points[i].y = Top
  <2>1. ASSUME NEW i \in values
        PROVE  /\ points[i].y \in Down
               /\ samples[i].value = maximum => points[i].y = Top
    <3>1. samples[i].value \in Nat /\ samples[i].value <= maximum
      BY <1>1, <1>2
    <3>2. points[i].y = Height(samples[i].value, maximum)
      BY <1>3
    <3> QED
      BY <1>2, <3>1, <3>2, HeightInFrame
  <2> QED
    BY <1>2, <2>1
<1>5. ASSUME NEW i \in values, NEW k \in values, i <= k
      PROVE  points[i].x \in Across /\ points[i].x <= points[k].x
  <2>1. /\ Min(values) \in 1 .. n /\ Max(values) \in 1 .. n
        /\ Min(values) <= i /\ k <= Max(values)
    BY <1>1, Extrema
  <2>2. /\ first \in Nat /\ range \in Int
        /\ samples[i].time - first \in Nat /\ samples[k].time - first \in Nat
        /\ samples[i].time - first <= samples[k].time - first
        /\ samples[k].time - first <= range
    <3>1. i \in 1 .. n /\ k \in 1 .. n
      BY <1>1
    <3>2. /\ first <= samples[i].time /\ samples[i].time <= samples[k].time
          /\ samples[k].time <= samples[Max(values)].time
      BY <1>5, <2>1, <3>1 DEF Drawable
    <3>3. /\ first \in Nat /\ samples[Max(values)].time \in Nat
          /\ samples[i].time \in Nat /\ samples[k].time \in Nat
      BY <2>1, <3>1 DEF Drawable
    <3> HIDE DEF first
    <3> QED
      BY <3>2, <3>3
  <2> HIDE DEF first, range
  <2>3. CASE range > 0
    <3> DEFINE a == samples[i].time - first
               b == samples[k].time - first
    <3>1. points[i].x = Place(a, range) /\ points[k].x = Place(b, range)
      BY <1>3, <2>3
    <3>2. range \in Nat \ {0} /\ a \in Nat /\ b \in Nat /\ a <= b /\ b <= range
      BY <2>2, <2>3, SMTT(30)
    <3> HIDE DEF a, b
    <3> QED
      BY <3>1, <3>2, PlaceInFrame
  <2>4. CASE ~(range > 0) /\ size = 1
    <3>1. Left <= 3780 /\ 3780 <= Right
      BY DEF Left, Right
    <3>2. 3780 \in Across
      BY <3>1, Frame
    <3> QED
      BY <1>3, <2>4, <3>2
  <2>5. CASE ~(range > 0) /\ size # 1
    <3>1. /\ Index(samples, i) \in Nat /\ Index(samples, k) \in Nat
          /\ Index(samples, i) <= Index(samples, k) /\ Index(samples, k) <= size - 1
      <4>1. CASE i < k
        BY <4>1, IndexBounds DEF values
      <4>2. CASE i = k
        <5>1. Index(samples, i) \in Nat /\ Index(samples, i) <= size - 1
          BY IndexBounds DEF values
        <5> QED
          BY <4>2, <5>1
      <4> QED
        BY <1>1, <1>5, <4>1, <4>2
    <3>2. size # 0
      BY <1>1, FS_EmptySet
    <3> DEFINE a == Index(samples, i)
               b == Index(samples, k)
               w == size - 1
    <3>3. w \in Nat \ {0} /\ a \in Nat /\ b \in Nat /\ a <= b /\ b <= w
      BY <1>1, <2>5, <3>1, <3>2
    <3>4. points[i].x = Place(a, w) /\ points[k].x = Place(b, w)
      BY <1>3, <2>5
    <3> HIDE DEF a, b, w
    <3> QED
      BY <3>3, <3>4, PlaceInFrame
  <2> QED
    BY <2>3, <2>4, <2>5, Zenon
<1>0. \A i \in values : i \in Nat
  BY <1>1, Zenon
<1>6. \A i \in values : points[i].x \in Across
  <2>1. \A i \in values : i <= i
    BY <1>0
  <2> QED
    BY <1>5, <2>1, Zenon
<1>7. \A i, k \in values : i < k => points[i].x <= points[k].x
  <2>1. ASSUME NEW i \in values, NEW k \in values, i < k
        PROVE  i <= k
    <3>1. i \in Nat /\ k \in Nat
      BY <1>0, ZenonT(30)
    <3> QED
      BY <2>1, <3>1
  <2> QED
    BY <1>5, <2>1, Zenon
<1>8. InFrame(points, top)
  <2>0. DOMAIN points = values
    BY <1>3
  <2>1. /\ \A i \in DOMAIN points : points[i].x \in Across /\ points[i].y \in Down
        /\ \A i, k \in DOMAIN points : i < k => points[i].x <= points[k].x
        /\ top > 0 => \E i \in DOMAIN points : points[i].y = Top
    BY <1>4, <1>6, <1>7, <2>0, ZenonT(30)
  <2> QED
    BY <2>1, ZenonT(30) DEF InFrame
<1> QED
  BY <1>8 DEF points, top

\* What a history holds.
LEMMA ReadingsTyped ==
  ASSUME NEW h \in Seq([job : PollJobs, reading : Samples])
  PROVE  /\ Len(h) \in Nat /\ DOMAIN h = 1 .. Len(h)
         /\ \A i \in 1 .. Len(h) : /\ h[i].reading.time \in Nat /\ h[i].reading.cpu \in Nat
                                  /\ h[i].reading.memory \in Nat
<1>1. \A s \in Samples : s.time \in Nat /\ s.cpu \in Nat /\ s.memory \in Nat
  BY PollingAssumption
<1>2. /\ Len(h) \in Nat /\ DOMAIN h = 1 .. Len(h)
      /\ \A i \in 1 .. Len(h) : h[i] \in [job : PollJobs, reading : Samples]
  <2> DEFINE E == [job : PollJobs, reading : Samples]
  <2>1. h \in Seq(E)
    OBVIOUS
  <2> HIDE DEF E
  <2>2. Len(h) \in Nat /\ DOMAIN h = 1 .. Len(h) /\ \A i \in 1 .. Len(h) : h[i] \in E
    BY <2>1
  <2> QED
    BY <2>2 DEF E
<1>3. \A i \in 1 .. Len(h) : h[i].reading \in Samples
  BY <1>2
<1> QED
  BY <1>1, <1>2, <1>3

\* Times that do not go back from one sample to the next are in order: the least
\* sample taken before an earlier one would follow one that is not.
LEMMA TimesOrdered ==
  ASSUME NEW h \in Seq([job : PollJobs, reading : Samples]),
         \A i \in 2 .. Len(h) : h[i - 1].reading.time <= h[i].reading.time
  PROVE  \A i, k \in 1 .. Len(h) : i <= k => h[i].reading.time <= h[k].reading.time
<1> DEFINE time(i) == h[i].reading.time
<1>0. Len(h) \in Nat /\ \A i \in 1 .. Len(h) : time(i) \in Nat
  BY ReadingsTyped
<1>1. \A i \in 2 .. Len(h) : time(i - 1) <= time(i)
  OBVIOUS
<1> HIDE DEF time
<1>2. ASSUME NEW i \in 1 .. Len(h), NEW k \in 1 .. Len(h), i <= k, time(k) < time(i)
      PROVE  FALSE
  <2> DEFINE Back == {j \in 1 .. Len(h) : i <= j /\ time(j) < time(i)}
  <2>1. Back \in SUBSET Nat /\ k \in Back
    BY <1>0, <1>2
  <2>2. PICK j \in Back : \A m \in Back : j <= m
    BY <2>1, LeastOf
  <2>3. j \in 1 .. Len(h) /\ i <= j /\ time(j) < time(i)
    BY <2>2
  <2>4. j # i
    BY <1>0, <2>3
  <2>5. j - 1 \in 1 .. Len(h) /\ i <= j - 1 /\ j \in 2 .. Len(h) /\ ~(j <= j - 1)
    BY <1>0, <2>3, <2>4
  <2>6. ~(time(j - 1) < time(i))
    BY <2>2, <2>5
  <2>7. time(j - 1) <= time(j)
    BY <1>1, <2>5
  <2>8. time(j - 1) \in Nat /\ time(j) \in Nat /\ time(i) \in Nat
    BY <1>0, <2>3, <2>5
  <2> QED
    BY <2>3, <2>6, <2>7, <2>8
<1>3. \A i, k \in 1 .. Len(h) : i <= k => time(i) <= time(k)
  BY <1>0, <1>2
<1> QED
  BY <1>3 DEF time

\* Both charts of any history.
LEMMA HistoryInFrame ==
  ASSUME history \in Seq([job : PollJobs, reading : Samples])
  PROVE  ChartsFaithful
<1> DEFINE n == Len(history)
<1> SUFFICES ASSUME \A i \in 2 .. n : history[i - 1].reading.time <= history[i].reading.time
             PROVE  /\ InFrame(ChartPoints(CpuSamples(history)), ChartMaximum(CpuSamples(history)))
                    /\ InFrame(ChartPoints(MemorySamples(history)),
                               ChartMaximum(MemorySamples(history)))
  BY DEF ChartsFaithful
<1>1. /\ n \in Nat /\ DOMAIN history = 1 .. n
      /\ \A i \in 1 .. n : /\ history[i].reading.time \in Nat /\ history[i].reading.cpu \in Nat
                           /\ history[i].reading.memory \in Nat
  BY ReadingsTyped
<1>2. \A i, k \in 1 .. n : i <= k => history[i].reading.time <= history[k].reading.time
  BY TimesOrdered
<1>3. Drawable(MemorySamples(history), n)
  BY <1>1, <1>2 DEF Drawable, MemorySamples
<1>4. Drawable(CpuSamples(history), n)
  <2>1. /\ DOMAIN CpuSamples(history) = 1 .. n
        /\ \A i \in 1 .. n : CpuSamples(history)[i].time = history[i].reading.time
    BY <1>1 DEF CpuSamples
  <2>2. ASSUME NEW i \in 1 .. n
        PROVE  CpuSamples(history)[i].value \in Nat \cup {None}
    <3>1. CASE i = 1
      BY <1>1, <3>1 DEF CpuSamples
    <3>2. CASE i # 1
      <4> DEFINE elapsed == history[i].reading.time - history[i - 1].reading.time
                 delta == history[i].reading.cpu - history[i - 1].reading.cpu
      <4>1. CpuSamples(history)[i].value
              = IF elapsed > 0 /\ delta >= 0 THEN Rounded(1000 * delta, elapsed) ELSE None
        BY <1>1, <3>2, SMTT(30) DEF CpuSamples
      <4>2. elapsed \in Int /\ delta \in Int
        BY <1>1, <3>2, SMTT(30)
      <4> HIDE DEF elapsed, delta
      <4>3. elapsed > 0 /\ delta >= 0 => Rounded(1000 * delta, elapsed) \in Nat
        <5>1. ASSUME elapsed > 0, delta >= 0
              PROVE  /\ elapsed \in Nat \ {0}
                     /\ 1000 * delta \in Nat /\ 1000 * delta <= 1000 * delta
          BY <4>2, <5>1
        <5> DEFINE d == 1000 * delta
        <5>2. ASSUME elapsed > 0, delta >= 0
              PROVE  d \in Nat /\ d <= d /\ elapsed \in Nat \ {0}
          BY <5>1, <5>2
        <5> HIDE DEF d
        <5>3. elapsed > 0 /\ delta >= 0 => Rounded(d, elapsed) \in Nat
          BY <5>2, RoundedMonotone
        <5> QED
          BY <5>3 DEF d
      <4> QED
        BY <4>1, <4>3
    <3> QED
      BY <3>1, <3>2
  <2> QED
    BY <1>1, <1>2, <2>1, <2>2 DEF Drawable
<1> QED
  BY <1>1, <1>3, <1>4, ChartInFrame

\* Whatever was sampled, what the dialog draws while the server's clock did not go
\* back lies in the frame, in the order of the times, with the axis reached.
THEOREM ChartsStayInFrame == PollSpec => []ChartsFaithful
<1>1. DialogInv /\ PollInv => ChartsFaithful
  BY HistoryInFrame DEF PollInv, PollTypeOK
<1> QED
  BY <1>1, PollInvariant, PTL

-----------------------------------------------------------------------------
(* BrowserPage *)

\* The inductive invariant of the page: what the parts need of the dialogs is
\* disturbed by no other part.
PageInv == DialogInv /\ FormsInv /\ PreviewInv /\ PollInv

\* A rendered page with nothing in flight.
LEMMA PageInitInv == PageInit => PageInv
<1> SUFFICES ASSUME PageInit PROVE PageInv
  OBVIOUS
<1>1. "resource" \notin opened
  BY DEF PageInit, FormsInit, PlainPage, PageWithOpenDialog, AllClosed, Reopened
<1> QED
  BY <1>1, FormsInitInv, PreviewInitInv, PollInitInv DEF PageInit, PageInv

\* A step of one part is a step of dialogs of its own to the others.
LEMMA PageStepInv ==
  PageInv /\ [PageNext]_pageVars => PageInv' /\ [Viewer!Next]_<<Target, history>>
<1> SUFFICES ASSUME PageInv, [PageNext]_pageVars
             PROVE  PageInv' /\ [Viewer!Next]_<<Target, history>>
  OBVIOUS
<1>0. /\ DialogInv /\ FormsInv /\ PreviewInv /\ PollInv
      /\ FormDialogs \in SUBSET Dialogs /\ {"detail"} \in SUBSET Dialogs
      /\ {"resource"} \in SUBSET Dialogs
  BY DEF PageInv, FormDialogs, Dialogs
<1>1. CASE FormsNext /\ UNCHANGED <<previewVars, pollVars>>
  <2>1. DialogStep(FormDialogs) /\ FormsInv'
    BY <1>0, <1>1, FormsStepInv
  <2>2. DialogInv'
    BY <1>0, <2>1, DialogStepInv
  <2>3. /\ FormDialogs \subseteq Dialogs \ {"detail"} /\ FormDialogs \subseteq Dialogs \ {"resource"}
        /\ FormDialogs \subseteq Dialogs
    BY DEF FormDialogs
  <2>4. PreviewInv'
    BY <1>0, <1>1, <2>1, <2>3, PreviewBystander DEF DialogStep
  <2>5. PollInv' /\ Target' = Target
    BY <1>0, <1>1, <2>1, <2>3, PollBystander DEF DialogStep
  <2>6. history' = history
    BY <1>1 DEF pollVars
  <2> QED
    BY <2>1, <2>2, <2>4, <2>5, <2>6 DEF PageInv
<1>2. CASE PreviewNext /\ UNCHANGED <<formVars, pollVars>>
  <2>1. DialogStep({"detail"}) /\ PreviewInv'
    BY <1>0, <1>2, PreviewStepInv
  <2>2. DialogInv'
    BY <1>0, <2>1, DialogStepInv
  <2>3. "detail" \in Dialogs \ {"confirm", "editor"} /\ "detail" \in Dialogs \ {"resource"}
    BY DEF Dialogs
  <2>4. FormsInv'
    BY <1>0, <1>2, <2>1, <2>3, FormsBystander DEF DialogStep
  <2>5. PollInv' /\ Target' = Target
    BY <1>0, <1>2, <2>1, <2>3, PollBystander DEF DialogStep
  <2>6. history' = history
    BY <1>2 DEF pollVars
  <2> QED
    BY <2>1, <2>2, <2>4, <2>5, <2>6 DEF PageInv
<1>3. CASE PollNext /\ UNCHANGED <<formVars, previewVars>>
  <2>1. DialogStep({"resource"}) /\ PollInv' /\ [Viewer!Next]_<<Target, history>>
    BY <1>0, <1>3, PollStepInv
  <2>2. DialogInv'
    BY <1>0, <2>1, DialogStepInv
  <2>3. "resource" \in Dialogs \ {"confirm", "editor"} /\ "resource" \in Dialogs \ {"detail"}
    BY DEF Dialogs
  <2>4. FormsInv'
    BY <1>0, <1>3, <2>1, <2>3, FormsBystander DEF DialogStep
  <2>5. PreviewInv'
    BY <1>0, <1>3, <2>1, <2>3, PreviewBystander DEF DialogStep
  <2> QED
    BY <2>1, <2>2, <2>4, <2>5 DEF PageInv
<1>4. CASE UNCHANGED pageVars
  <2>1. UNCHANGED <<dialogVars, formVars, previewVars, pollVars>>
    BY <1>4 DEF pageVars
  <2>2. DialogInv'
    BY <1>0, <2>1, DialogStepInv DEF DialogStep
  <2>3. FormsInv' /\ PreviewInv' /\ PollInv' /\ Target' = Target
    BY <1>0, <2>1, FormsBystander, PreviewBystander, PollBystander
  <2>4. history' = history
    BY <2>1 DEF pollVars
  <2> QED
    BY <2>2, <2>3, <2>4 DEF PageInv
<1> QED
  BY <1>1, <1>2, <1>3, <1>4 DEF PageNext

\* With all dialogs in one page and one queue of close events, each part keeps what
\* it promises by itself.
THEOREM PageCorrect ==
  PageSpec => [](LockFollowsDialogs /\ SubmitsWhatIsShown /\ EditorStartsFromPartition
                 /\ OnlyScrollMisleads /\ FetchAccounting /\ OnePollLoop /\ ChartsFaithful)
<1>1. PageInv => LockFollowsDialogs /\ SubmitsWhatIsShown /\ EditorStartsFromPartition
                 /\ OnlyScrollMisleads /\ FetchAccounting /\ OnePollLoop
  BY DEF PageInv, DialogInv, FormsInv, PreviewInv, PollInv
<1>2. PageInv => ChartsFaithful
  BY HistoryInFrame DEF PageInv, PollInv, PollTypeOK
<1> QED
  BY PageInitInv, PageStepInv, <1>1, <1>2, PTL DEF PageSpec

\* The page is locked exactly under a dialog, but for the two gaps that close events
\* leave, with the dialogs of all parts in one page.
THEOREM PageIsLockedUnderDialogs == PageSpec => []LockFollowsDialogs
BY PageCorrect, PTL

\* The page implements JobViewer too, whatever its other dialogs do.
THEOREM PageRefinesViewer == PageSpec => ImplementsViewer
<1>1. PageInit => Viewer!Init
  BY DEF PageInit, FormsInit, PlainPage, PageWithOpenDialog, AllClosed, Reopened, PollInit,
         Viewer!Init
<1> QED
  BY <1>1, PageInitInv, PageStepInv, PTL DEF PageSpec, ImplementsViewer, Viewer!Spec, Target
=============================================================================
