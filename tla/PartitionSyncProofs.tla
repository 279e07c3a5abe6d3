------------------------- MODULE PartitionSyncProofs ------------------------
(***************************************************************************)
(* Proofs about PartitionSync, for any number of partitions, nodes,        *)
(* requests, restarts of the service and restarts of Slurm.                *)
(***************************************************************************)
EXTENDS PartitionSync, TLAPS

\* A request under way names a partition and has at least one node; none is
\* under way before the two syncs of New are done.
RequestsSane ==
  /\ \A q \in Requests : request[q].step # "idle" =>
       request[q].name \in Names /\ request[q].nodes # {}
  /\ phase # "serving" => \A q \in Requests : request[q].step = "idle"

\* The flag alone means what it says, and a partition that is not torn has
\* only lone requests.
AloneIsAlone ==
  \A q \in Requests : request[q].step # "idle" =>
    /\ request[q].alone => \A o \in Requests :
         request[o].step # "idle" /\ request[o].name = request[q].name => o = q
    /\ ~torn[request[q].name] => request[q].alone

\* What a lone request has written to the database is still there when it
\* runs its scontrol commands.
LoneProgress ==
  \A q \in Requests : request[q].alone =>
    /\ request[q].step \in {"create", "update"} =>
         db[request[q].name] = Row("managed", request[q].nodes)
    /\ request[q].step \in {"drop", "undo"} => db[request[q].name] = NoRow

\* Past its first look at the database no request is about a system row.
NoSystemRequest ==
  \A q \in Requests : request[q].step \in Steps \ {"idle", "store"} =>
    db[request[q].name].source # "system"

\* A partition that a lone request has settled agrees and is not imported.
SettledAgrees ==
  \A p \in Names : settled[p] /\ Active(p) = {} =>
    slurm[p] = db[p].nodes /\ db[p].source # "system"

\* Unless a delete is half done, Slurm runs no partition of the platform's
\* own that the database has no managed row for.
OwnIsManaged ==
  \A p \in Names : conf[p] = {} /\ ~torn[p] =>
    /\ db[p].source # "system"
    /\ slurm[p] # {} => db[p].source = "managed" \/ HalfDeleted(p)

\* The inductive invariant.
IInv ==
  /\ TypeOK
  /\ RequestsSane
  /\ AloneIsAlone
  /\ LoneProgress
  /\ NoSystemRequest
  /\ SettledAgrees
  /\ OwnIsManaged

-----------------------------------------------------------------------------
(* Types *)

\* The first state satisfies the inductive invariant: no row, no request,
\* Slurm as its configuration says.
LEMMA InitIInv == Init => IInv
<1> SUFFICES ASSUME Init PROVE IInv
  OBVIOUS
<1> USE PartitionAssumption DEF Init, NoRow, Idle, Steps
<1>1. TypeOK
  BY DEF TypeOK
<1>2. RequestsSane /\ AloneIsAlone /\ LoneProgress /\ NoSystemRequest
  BY DEF RequestsSane, AloneIsAlone, LoneProgress, NoSystemRequest
<1>3. SettledAgrees /\ OwnIsManaged
  BY DEF SettledAgrees, OwnIsManaged
<1> QED
  BY <1>1, <1>2, <1>3 DEF IInv

\* A request that begins has a type, whatever else is under way.
LEMMA BeginTypes ==
  ASSUME TypeOK, RequestsSane, NEW q \in Requests, NEW p \in Names,
         NEW step \in Steps \ {"idle"}, NEW nodes \in SUBSET Nodes, nodes # {},
         Begin(q, p, step, nodes)
  PROVE  /\ request' \in [Requests -> [step: Steps, name: Names \cup {0},
                                       nodes: SUBSET Nodes, alone: BOOLEAN]]
         /\ torn' \in [Names -> BOOLEAN]
         /\ phase = "serving"
         /\ \A o \in Requests : request'[o].step # "idle" =>
              request'[o].name \in Names /\ request'[o].nodes # {}
<1> DEFINE Record == [step: Steps, name: Names \cup {0}, nodes: SUBSET Nodes, alone: BOOLEAN]
           new == [step |-> step, name |-> p, nodes |-> nodes, alone |-> Active(p) = {}]
           marked(o) == [request[o] EXCEPT !.alone = FALSE]
<1>1. new \in Record
  <2>1. (Active(p) = {}) \in BOOLEAN
    OBVIOUS
  <2> QED
    BY <2>1
<1>2. \A o \in Requests : request[o] \in Record /\ marked(o) \in Record
  BY ZenonT(60) DEF TypeOK
<1>3. request' = [o \in Requests |-> IF o = q THEN new
                                     ELSE IF o \in Active(p) THEN marked(o) ELSE request[o]]
  BY DEF Begin
<1>4. request' \in [Requests -> Record]
  <2> HIDE DEF Record, new, marked
  <2> QED
    BY <1>1, <1>2, <1>3
<1>5. torn' \in [Names -> BOOLEAN]
  <2>1. (torn[p] \/ Active(p) # {}) \in BOOLEAN
    OBVIOUS
  <2>2. torn \in [Names -> BOOLEAN] /\ torn' = [torn EXCEPT ![p] = (torn[p] \/ Active(p) # {})]
    BY DEF TypeOK, Begin
  <2> QED
    BY <2>1, <2>2
<1>6. \A o \in Requests : request'[o].step # "idle" =>
              request'[o].name \in Names /\ request'[o].nodes # {}
  BY <1>3 DEF RequestsSane, TypeOK
<1> QED
  BY <1>4, <1>5, <1>6 DEF Begin

\* A request that ends leaves its record and settled typed.
LEMMA EndTypes ==
  ASSUME TypeOK, RequestsSane, NEW q \in Requests, request[q].step # "idle",
         NEW ok \in BOOLEAN, End(q, ok)
  PROVE  /\ request' \in [Requests -> [step: Steps, name: Names \cup {0},
                                       nodes: SUBSET Nodes, alone: BOOLEAN]]
         /\ settled' \in [Names -> BOOLEAN]
         /\ \A o \in Requests : request'[o].step # "idle" =>
              request'[o].name \in Names /\ request'[o].nodes # {}
<1>1. /\ request' \in [Requests -> [step: Steps, name: Names \cup {0},
                                    nodes: SUBSET Nodes, alone: BOOLEAN]]
      /\ \A o \in Requests : request'[o].step # "idle" =>
              request'[o].name \in Names /\ request'[o].nodes # {}
  BY DEF TypeOK, RequestsSane, End, Idle, Steps
<1>2. (ok /\ request[q].alone) \in BOOLEAN
  OBVIOUS
<1>3. /\ settled \in [Names -> BOOLEAN]
      /\ settled' = [settled EXCEPT ![request[q].name] = (ok /\ request[q].alone)]
  BY DEF TypeOK, End
<1> QED
  BY <1>1, <1>2, <1>3

\* Each step keeps every variable in its type and the requests sane.
LEMMA StepTypeOK == TypeOK /\ RequestsSane /\ [Next]_vars => TypeOK' /\ RequestsSane'
<1> SUFFICES ASSUME TypeOK, RequestsSane, [Next]_vars PROVE TypeOK' /\ RequestsSane'
  OBVIOUS
<1> USE PartitionAssumption DEF TypeOK, RequestsSane, bounds, Row, NoRow, Idle, Steps
<1>1. ASSUME NEW stop \in 1..Count + 1, ImportSystem(stop) PROVE TypeOK' /\ RequestsSane'
  BY <1>1 DEF ImportSystem, Importable, Group
<1>2. ASSUME NEW stop \in 1..Count + 1, Restore(stop) PROVE TypeOK' /\ RequestsSane'
  BY <1>2 DEF Restore
<1>3. ASSUME NEW q \in Requests, NEW p \in Names, Delete(q, p) PROVE TypeOK' /\ RequestsSane'
  <2>1. "delete" \in Steps \ {"idle"} /\ db[p].nodes \in SUBSET Nodes /\ db[p].nodes # {}
    BY <1>3 DEF Delete
  <2>2. Begin(q, p, "delete", db[p].nodes) /\ UNCHANGED <<conf, known, slurm, db, phase, bounds, settled>>
    BY <1>3 DEF Delete
  <2> QED
    BY <2>1, <2>2, BeginTypes, SMTT(30)
<1>4. ASSUME NEW q \in Requests, NEW p \in Names, NEW nodes \in SUBSET known, Save(q, p, nodes)
      PROVE TypeOK' /\ RequestsSane'
  <2>1. "store" \in Steps \ {"idle"} /\ nodes \in SUBSET Nodes /\ nodes # {}
    BY <1>4 DEF Save
  <2>2. Begin(q, p, "store", nodes) /\ UNCHANGED <<conf, known, slurm, db, phase, bounds, settled>>
    BY <1>4 DEF Save
  <2> QED
    BY <2>1, <2>2, BeginTypes
<1>5. ASSUME NEW q \in Requests, StoreSave(q) PROVE TypeOK' /\ RequestsSane'
  BY <1>5, SMTT(30) DEF StoreSave, Advance
<1>6. ASSUME NEW q \in Requests, StoreSaveFails(q) PROVE TypeOK' /\ RequestsSane'
  BY <1>6 DEF StoreSaveFails, End
<1>7. ASSUME NEW q \in Requests, Create(q) PROVE TypeOK' /\ RequestsSane'
  <2>1. slurm' \in [Names -> SUBSET Nodes] /\ UNCHANGED <<conf, known, db, phase, bounds, torn>>
    BY <1>7 DEF Create
  <2>2. CASE End(q, TRUE)
    BY <1>7, <2>1, <2>2, EndTypes, ZenonT(30) DEF Create
  <2>3. CASE Advance(q, "update") /\ UNCHANGED settled
    BY <1>7, <2>1, <2>3, SMTT(30) DEF Create, Advance
  <2> QED
    BY <1>7, <2>2, <2>3 DEF Create
<1>8. ASSUME NEW q \in Requests, CreateFails(q) PROVE TypeOK' /\ RequestsSane'
  BY <1>8, SMTT(30) DEF CreateFails, Advance
<1>9. ASSUME NEW q \in Requests, Update(q) PROVE TypeOK' /\ RequestsSane'
  BY <1>9 DEF Update, End
<1>10. ASSUME NEW q \in Requests, UpdateFails(q) PROVE TypeOK' /\ RequestsSane'
  BY <1>10 DEF UpdateFails, End
<1>11. ASSUME NEW q \in Requests, StoreDelete(q) PROVE TypeOK' /\ RequestsSane'
  BY <1>11, SMTT(30) DEF StoreDelete, Advance
<1>12. ASSUME NEW q \in Requests, StoreDeleteFails(q) PROVE TypeOK' /\ RequestsSane'
  BY <1>12 DEF StoreDeleteFails, End
<1>13. ASSUME NEW q \in Requests, Drop(q) PROVE TypeOK' /\ RequestsSane'
  <2>1. slurm' \in [Names -> SUBSET Nodes] /\ UNCHANGED <<conf, known, db, phase, bounds, torn>>
    BY <1>13 DEF Drop
  <2>2. CASE End(q, TRUE)
    BY <1>13, <2>1, <2>2, EndTypes, ZenonT(30) DEF Drop
  <2>3. CASE Advance(q, "undo") /\ UNCHANGED settled
    BY <1>13, <2>1, <2>3, SMTT(30) DEF Drop, Advance
  <2> QED
    BY <1>13, <2>2, <2>3 DEF Drop
<1>14. ASSUME NEW q \in Requests, DropFails(q) PROVE TypeOK' /\ RequestsSane'
  BY <1>14, SMTT(30) DEF DropFails, Advance
<1>15. ASSUME NEW q \in Requests, Undo(q) PROVE TypeOK' /\ RequestsSane'
  BY <1>15 DEF Undo, End
<1>16. ASSUME NEW q \in Requests, UndoFails(q) PROVE TypeOK' /\ RequestsSane'
  BY <1>16 DEF UndoFails, End
<1>17. CASE Crash
  BY <1>17 DEF Crash
<1>18. CASE Reload
  BY <1>18 DEF Reload
<1>19. CASE UNCHANGED vars
  BY <1>19 DEF vars
<1> QED
  BY <1>1, <1>2, <1>3, <1>4, <1>5, <1>6, <1>7, <1>8, <1>9, <1>10, <1>11, <1>12, <1>13,
     <1>14, <1>15, <1>16, <1>17, <1>18, <1>19 DEF Next, RequestStep

-----------------------------------------------------------------------------
(* Who is under way *)

\* The ways in which a step moves requests.
LEMMA StepShape ==
  ASSUME TypeOK, RequestsSane, [Next]_vars
  PROVE  \/ UNCHANGED <<request, torn>>
         \/ \E q \in Requests, p \in Names, step \in Steps \ {"idle"}, nodes \in SUBSET Nodes :
              Begin(q, p, step, nodes)
         \/ \E q \in Requests, step \in Steps \ {"idle"} :
              request[q].step # "idle" /\ Advance(q, step) /\ UNCHANGED torn
         \/ \E q \in Requests, ok \in BOOLEAN :
              /\ request[q].step # "idle" /\ End(q, ok)
              /\ torn' \in [Names -> BOOLEAN] /\ \A p \in Names : torn[p] => torn'[p]
         \/ Crash
<1> USE DEF Steps
<1>1. ASSUME NEW stop \in 1..Count + 1, ImportSystem(stop) \/ Restore(stop)
      PROVE  UNCHANGED <<request, torn>>
  BY <1>1 DEF ImportSystem, Restore
<1>2. ASSUME NEW q \in Requests, NEW p \in Names, Delete(q, p)
      PROVE  \E step \in Steps \ {"idle"}, nodes \in SUBSET Nodes : Begin(q, p, step, nodes)
  BY <1>2 DEF Delete, TypeOK
<1>3. ASSUME NEW q \in Requests, NEW p \in Names, NEW nodes \in SUBSET known, Save(q, p, nodes)
      PROVE  \E step \in Steps \ {"idle"}, set \in SUBSET Nodes : Begin(q, p, step, set)
  BY <1>3 DEF Save, TypeOK
<1>4. ASSUME NEW q \in Requests,
             StoreSave(q) \/ CreateFails(q) \/ StoreDelete(q) \/ DropFails(q)
      PROVE  \E step \in Steps \ {"idle"} :
               request[q].step # "idle" /\ Advance(q, step) /\ UNCHANGED torn
  BY <1>4 DEF StoreSave, CreateFails, StoreDelete, DropFails
<1>5. ASSUME NEW q \in Requests, Create(q) \/ Drop(q)
      PROVE  \/ \E step \in Steps \ {"idle"} :
                  request[q].step # "idle" /\ Advance(q, step) /\ UNCHANGED torn
             \/ \E ok \in BOOLEAN : request[q].step # "idle" /\ End(q, ok) /\ UNCHANGED torn
  BY <1>5 DEF Create, Drop
<1>6. ASSUME NEW q \in Requests,
             \/ StoreSaveFails(q) \/ Update(q) \/ UpdateFails(q)
             \/ StoreDeleteFails(q) \/ Undo(q)
      PROVE  \E ok \in BOOLEAN : request[q].step # "idle" /\ End(q, ok) /\ UNCHANGED torn
  BY <1>6 DEF StoreSaveFails, Update, UpdateFails, StoreDeleteFails, Undo
<1>7. ASSUME NEW q \in Requests, UndoFails(q)
      PROVE  \E ok \in BOOLEAN :
               /\ request[q].step # "idle" /\ End(q, ok)
               /\ torn' \in [Names -> BOOLEAN] /\ \A p \in Names : torn[p] => torn'[p]
  BY <1>7 DEF UndoFails, TypeOK
<1>8. CASE Reload
  BY <1>8 DEF Reload
<1>9. CASE UNCHANGED vars
  BY <1>9 DEF vars
<1>10. UNCHANGED torn =>
         torn' \in [Names -> BOOLEAN] /\ \A p \in Names : torn[p] => torn'[p]
  BY DEF TypeOK
<1> HIDE DEF Steps
<1> QED
  <2>1. ASSUME NEW q \in Requests, RequestStep(q)
        PROVE  \/ \E p \in Names : Delete(q, p)
               \/ \E p \in Names, nodes \in SUBSET known : Save(q, p, nodes)
               \/ StoreSave(q) \/ CreateFails(q) \/ StoreDelete(q) \/ DropFails(q)
               \/ Create(q) \/ Drop(q)
               \/ StoreSaveFails(q) \/ Update(q) \/ UpdateFails(q)
               \/ StoreDeleteFails(q) \/ Undo(q)
               \/ UndoFails(q)
    BY <2>1 DEF RequestStep
  <2>2. \/ \E stop \in 1..Count + 1 : ImportSystem(stop) \/ Restore(stop)
        \/ \E q \in Requests : RequestStep(q)
        \/ Crash \/ Reload \/ UNCHANGED vars
    BY DEF Next
  <2> QED
    BY <1>1, <1>2, <1>3, <1>4, <1>5, <1>6, <1>7, <1>8, <1>9, <1>10, <2>1, <2>2

\* Each step keeps the flag alone true to its meaning.
LEMMA StepAlone ==
  ASSUME TypeOK, RequestsSane, AloneIsAlone, [Next]_vars
  PROVE  AloneIsAlone'
<1>1. CASE UNCHANGED <<request, torn>>
  BY <1>1 DEF AloneIsAlone
<1>2. ASSUME NEW q \in Requests, NEW p \in Names, NEW step \in Steps \ {"idle"},
             NEW nodes \in SUBSET Nodes, Begin(q, p, step, nodes)
      PROVE  AloneIsAlone'
  <2>1. /\ request'[q].step = step /\ request'[q].name = p
        /\ request'[q].alone <=> Active(p) = {}
        /\ request[q].step = "idle"
        /\ \A o \in Requests \ {q} :
             /\ request'[o].step = request[o].step /\ request'[o].name = request[o].name
             /\ request'[o].alone => request[o].alone /\ o \notin Active(p)
             /\ o \notin Active(p) => request'[o].alone = request[o].alone
        /\ \A r \in Names : torn'[r] <=> torn[r] \/ (r = p /\ Active(p) # {})
    BY <1>2, ZenonT(60) DEF Begin, TypeOK
  <2>2. \A o \in Requests : o \in Active(p) <=> request[o].step # "idle" /\ request[o].name = p
    BY DEF Active
  <2>3. ASSUME NEW x \in Requests, request'[x].step # "idle", request'[x].alone,
               NEW o \in Requests, request'[o].step # "idle",
               request'[o].name = request'[x].name
        PROVE  o = x
    BY <2>1, <2>2, <2>3 DEF AloneIsAlone
  <2>4. ASSUME NEW x \in Requests, request'[x].step # "idle", ~torn'[request'[x].name]
        PROVE  request'[x].alone
    BY <2>1, <2>2, <2>4 DEF AloneIsAlone, RequestsSane
  <2> QED
    BY <2>3, <2>4 DEF AloneIsAlone
<1>3. ASSUME NEW q \in Requests, NEW step \in Steps \ {"idle"},
             request[q].step # "idle" /\ Advance(q, step) /\ UNCHANGED torn
      PROVE  AloneIsAlone'
  BY <1>3 DEF AloneIsAlone, RequestsSane, TypeOK, Advance
<1>4. ASSUME NEW q \in Requests, NEW ok \in BOOLEAN,
             /\ request[q].step # "idle" /\ End(q, ok)
             /\ torn' \in [Names -> BOOLEAN] /\ \A p \in Names : torn[p] => torn'[p]
      PROVE  AloneIsAlone'
  BY <1>4 DEF AloneIsAlone, RequestsSane, TypeOK, End, Idle
<1>5. CASE Crash
  BY <1>5 DEF Crash, AloneIsAlone, Idle
<1> QED
  BY <1>1, <1>2, <1>3, <1>4, <1>5, StepShape

-----------------------------------------------------------------------------
(* What requests and restarts do to the database and to Slurm *)

\* A request that begins is at its first step and writes nothing.
LEMMA BeginQuiet ==
  ASSUME TypeOK, NEW q \in Requests, NEW p \in Names, NEW step \in Steps \ {"idle"},
         NEW nodes \in SUBSET Nodes, Begin(q, p, step, nodes)
  PROVE  /\ request'[q].step = step /\ request'[q].name = p /\ request'[q].nodes = nodes
         /\ request[q].step = "idle"
         /\ \A o \in Requests \ {q} :
              /\ request'[o].step = request[o].step /\ request'[o].name = request[o].name
              /\ request'[o].nodes = request[o].nodes
              /\ request'[o].alone => request[o].alone
         /\ \A r \in Names : torn[r] => torn'[r]
BY DEF Begin, TypeOK

\* Each step keeps the writes of lone requests and leaves the system rows to
\* the import.
LEMMA StepProgress ==
  ASSUME TypeOK, RequestsSane, AloneIsAlone, LoneProgress, NoSystemRequest, [Next]_vars
  PROVE  LoneProgress' /\ NoSystemRequest'
<1> USE DEF LoneProgress, NoSystemRequest, bounds, Row, NoRow, Idle, Steps
<1>1. ASSUME NEW stop \in 1..Count + 1, ImportSystem(stop) PROVE LoneProgress' /\ NoSystemRequest'
  BY <1>1 DEF ImportSystem, RequestsSane
<1>2. ASSUME NEW stop \in 1..Count + 1, Restore(stop) PROVE LoneProgress' /\ NoSystemRequest'
  BY <1>2 DEF Restore
<1>3. ASSUME NEW q \in Requests, NEW p \in Names, Delete(q, p)
      PROVE  LoneProgress' /\ NoSystemRequest'
  <2>1. /\ Begin(q, p, "delete", db[p].nodes) /\ db[p].nodes \in SUBSET Nodes
        /\ db' = db /\ db[p].source # "system"
    BY <1>3 DEF Delete, TypeOK
  <2> QED
    BY <2>1, BeginQuiet, SMTT(30)
<1>4. ASSUME NEW q \in Requests, NEW p \in Names, NEW nodes \in SUBSET known, Save(q, p, nodes)
      PROVE  LoneProgress' /\ NoSystemRequest'
  <2>1. Begin(q, p, "store", nodes) /\ nodes \in SUBSET Nodes /\ db' = db
    BY <1>4 DEF Save, TypeOK
  <2> QED
    BY <2>1, BeginQuiet, SMTT(30)
<1>5. ASSUME NEW q \in Requests, StoreSave(q) PROVE LoneProgress' /\ NoSystemRequest'
  BY <1>5 DEF StoreSave, Advance, TypeOK, RequestsSane, AloneIsAlone
<1>6. ASSUME NEW q \in Requests, StoreSaveFails(q) PROVE LoneProgress' /\ NoSystemRequest'
  BY <1>6 DEF StoreSaveFails, End, TypeOK
<1>7. ASSUME NEW q \in Requests, Create(q) PROVE LoneProgress' /\ NoSystemRequest'
  <2>1. CASE End(q, TRUE)
    BY <1>7, <2>1 DEF Create, End, TypeOK
  <2>2. CASE Advance(q, "update")
    BY <1>7, <2>2 DEF Create, Advance, TypeOK
  <2> QED
    BY <1>7, <2>1, <2>2 DEF Create
<1>8. ASSUME NEW q \in Requests, CreateFails(q) PROVE LoneProgress' /\ NoSystemRequest'
  BY <1>8, SMTT(30) DEF CreateFails, Advance, TypeOK
<1>9. ASSUME NEW q \in Requests, Update(q) PROVE LoneProgress' /\ NoSystemRequest'
  BY <1>9 DEF Update, End, TypeOK
<1>10. ASSUME NEW q \in Requests, UpdateFails(q) PROVE LoneProgress' /\ NoSystemRequest'
  BY <1>10 DEF UpdateFails, End, TypeOK
<1>11. ASSUME NEW q \in Requests, StoreDelete(q) PROVE LoneProgress' /\ NoSystemRequest'
  BY <1>11 DEF StoreDelete, Advance, TypeOK, RequestsSane, AloneIsAlone
<1>12. ASSUME NEW q \in Requests, StoreDeleteFails(q) PROVE LoneProgress' /\ NoSystemRequest'
  BY <1>12 DEF StoreDeleteFails, End, TypeOK
<1>13. ASSUME NEW q \in Requests, Drop(q) PROVE LoneProgress' /\ NoSystemRequest'
  <2>1. CASE End(q, TRUE)
    BY <1>13, <2>1 DEF Drop, End, TypeOK
  <2>2. CASE Advance(q, "undo")
    BY <1>13, <2>2 DEF Drop, Advance, TypeOK
  <2> QED
    BY <1>13, <2>1, <2>2 DEF Drop
<1>14. ASSUME NEW q \in Requests, DropFails(q) PROVE LoneProgress' /\ NoSystemRequest'
  BY <1>14 DEF DropFails, Advance, TypeOK
<1>15. ASSUME NEW q \in Requests, Undo(q) PROVE LoneProgress' /\ NoSystemRequest'
  BY <1>15, SMTT(30) DEF Undo, End, TypeOK, RequestsSane, AloneIsAlone
<1>16. ASSUME NEW q \in Requests, UndoFails(q) PROVE LoneProgress' /\ NoSystemRequest'
  BY <1>16 DEF UndoFails, End, TypeOK
<1>17. CASE Crash
  BY <1>17 DEF Crash
<1>18. CASE Reload
  BY <1>18 DEF Reload
<1>19. CASE UNCHANGED vars
  BY <1>19 DEF vars
<1> QED
  BY <1>1, <1>2, <1>3, <1>4, <1>5, <1>6, <1>7, <1>8, <1>9, <1>10, <1>11, <1>12, <1>13,
     <1>14, <1>15, <1>16, <1>17, <1>18, <1>19 DEF Next, RequestStep

\* A step of request q that touches nothing but its own partition.
Local(q) ==
  /\ request[q].step # "idle" /\ request[q].name \in Names
  /\ conf' = conf
  /\ \A o \in Requests \ {q} : request'[o] = request[o]
  /\ \A r \in Names \ {request[q].name} :
       db'[r] = db[r] /\ slurm'[r] = slurm[r] /\ settled'[r] = settled[r] /\ torn'[r] = torn[r]
  /\ request'[q].step = "idle" \/ request'[q].name = request[q].name

\* What such a step must do there.
KeepsSettled(q) ==
  LET p == request[q].name IN
  request'[q].step = "idle" /\ settled'[p] =>
    slurm'[p] = db'[p].nodes /\ db'[p].source # "system"
KeepsOwn(q) ==
  LET p == request[q].name IN
  conf[p] = {} /\ ~torn'[p] =>
    /\ db'[p].source # "system"
    /\ slurm'[p] # {} => db'[p].source = "managed" \/ request'[q].step \in {"drop", "undo"}

\* The record of a request that goes on changes in its step only.
LEMMA AdvanceQuiet ==
  ASSUME TypeOK, NEW q \in Requests, NEW step \in Steps, Advance(q, step)
  PROVE  /\ request'[q].step = step /\ request'[q].name = request[q].name
         /\ \A o \in Requests \ {q} : request'[o] = request[o]
BY DEF Advance, TypeOK

\* A request that ends settles its partition or not, and no other.
LEMMA EndQuiet ==
  ASSUME TypeOK, RequestsSane, NEW q \in Requests, request[q].step # "idle",
         NEW ok \in BOOLEAN, End(q, ok)
  PROVE  /\ request'[q].step = "idle"
         /\ \A o \in Requests \ {q} : request'[o] = request[o]
         /\ \A r \in Names \ {request[q].name} : settled'[r] = settled[r]
         /\ settled'[request[q].name] => ok /\ request[q].alone
<1>1. request[q].name \in Names
  BY DEF RequestsSane
<1>2. settled'[request[q].name] = (ok /\ request[q].alone)
  BY <1>1 DEF End, TypeOK
<1> QED
  BY <1>1, <1>2 DEF End, TypeOK, Idle

\* What a lone request, or any request on a partition that is not torn, finds
\* in the database when it runs its scontrol commands.
LEMMA LoneRow ==
  ASSUME TypeOK, RequestsSane, AloneIsAlone, LoneProgress, NEW q \in Requests,
         request[q].step # "idle", request[q].alone \/ ~torn[request[q].name]
  PROVE  /\ request[q].step \in {"create", "update"} =>
              db[request[q].name].source = "managed" /\ db[request[q].name].nodes = request[q].nodes
         /\ request[q].step \in {"drop", "undo"} =>
              db[request[q].name].source = "none" /\ db[request[q].name].nodes = {}
<1>1. request[q].alone
  BY DEF AloneIsAlone
<1>2. request[q].step \in {"create", "update"} =>
        db[request[q].name] = Row("managed", request[q].nodes)
  BY <1>1 DEF LoneProgress
<1>3. request[q].step \in {"drop", "undo"} => db[request[q].name] = NoRow
  BY <1>1 DEF LoneProgress
<1> QED
  BY <1>2, <1>3 DEF Row, NoRow

\* A step of one request keeps what is settled if it does so where it works.
LEMMA LocalSettled ==
  ASSUME SettledAgrees, NEW q \in Requests, Local(q), KeepsSettled(q)
  PROVE  SettledAgrees'
<1> SUFFICES ASSUME NEW p \in Names, settled'[p],
                    \A o \in Requests : ~(request'[o].step # "idle" /\ request'[o].name = p)
             PROVE  slurm'[p] = db'[p].nodes /\ db'[p].source # "system"
  BY DEF SettledAgrees, Active
<1>1. CASE p = request[q].name
  BY <1>1 DEF Local, KeepsSettled
<1>2. CASE p # request[q].name
  <2>1. Active(p) = {}
    BY <1>2 DEF Active, Local
  <2> QED
    BY <1>2, <2>1 DEF SettledAgrees, Local
<1> QED
  BY <1>1, <1>2

\* The same of the platform's own partitions.
LEMMA LocalOwn ==
  ASSUME OwnIsManaged, NEW q \in Requests, Local(q), KeepsOwn(q)
  PROVE  OwnIsManaged'
<1> SUFFICES ASSUME NEW p \in Names, conf[p] = {}, ~torn'[p]
             PROVE  /\ db'[p].source # "system"
                    /\ slurm'[p] # {} =>
                         \/ db'[p].source = "managed"
                         \/ \E o \in Requests : /\ request'[o].step # "idle"
                                                /\ request'[o].name = p
                                                /\ request'[o].step \in {"drop", "undo"}
  BY DEF OwnIsManaged, HalfDeleted, Active, Local
<1>1. CASE p = request[q].name
  BY <1>1 DEF Local, KeepsOwn
<1>2. CASE p # request[q].name
  BY <1>2, SMTT(30) DEF OwnIsManaged, HalfDeleted, Active, Local
<1> QED
  BY <1>1, <1>2

\* Every later step of a request is local and keeps both.
LEMMA RequestLocal ==
  ASSUME TypeOK, RequestsSane, AloneIsAlone, LoneProgress, NoSystemRequest, OwnIsManaged,
         NEW q \in Requests, RequestStep(q)
  PROVE  \/ \E p \in Names : Delete(q, p) \/ \E nodes \in SUBSET known : Save(q, p, nodes)
         \/ Local(q) /\ KeepsSettled(q) /\ KeepsOwn(q)
<1> USE DEF Local, KeepsSettled, KeepsOwn, RequestsSane, Steps
<1>0. request[q].step # "idle" => request[q].name \in Names
  OBVIOUS
<1>1. CASE StoreSave(q)
  <2>1. /\ request[q].step = "store" /\ Advance(q, "create")
        /\ UNCHANGED <<conf, slurm, settled, torn>>
        /\ db'[request[q].name].source = "managed"
        /\ \A r \in Names \ {request[q].name} : db'[r] = db[r]
    BY <1>0, <1>1 DEF StoreSave, TypeOK, Row
  <2> QED
    BY <1>0, <2>1, AdvanceQuiet
<1>2. CASE StoreSaveFails(q)
  <2>1. /\ request[q].step = "store" /\ End(q, FALSE)
        /\ UNCHANGED <<conf, slurm, db, torn>>
    BY <1>2 DEF StoreSaveFails
  <2> QED
    BY <1>0, <2>1, EndQuiet, ZenonT(90) DEF OwnIsManaged, HalfDeleted, Active, AloneIsAlone
<1>3. CASE Create(q)
  <2>1. /\ request[q].step = "create" /\ UNCHANGED <<conf, db, torn>>
        /\ \A r \in Names : slurm'[r] = IF r = request[q].name THEN request[q].nodes ELSE slurm[r]
    BY <1>0, <1>3 DEF Create, TypeOK
  <2>2. CASE End(q, TRUE)
    BY <1>0, <2>1, <2>2, EndQuiet, LoneRow, ZenonT(30)
  <2>3. CASE Advance(q, "update") /\ UNCHANGED settled
    BY <1>0, <2>1, <2>3, AdvanceQuiet, LoneRow
  <2> QED
    BY <1>3, <2>2, <2>3 DEF Create
<1>4. CASE CreateFails(q)
  <2>1. /\ request[q].step = "create" /\ UNCHANGED <<conf, slurm, db, settled, torn>>
        /\ Advance(q, "update")
    BY <1>4 DEF CreateFails
  <2> QED
    BY <1>0, <2>1, AdvanceQuiet, LoneRow
<1>5. CASE Update(q)
  <2>1. /\ request[q].step = "update" /\ UNCHANGED <<conf, db, torn>>
        /\ \A r \in Names : slurm'[r] = IF r = request[q].name THEN request[q].nodes ELSE slurm[r]
    BY <1>0, <1>5 DEF Update, TypeOK
  <2>2. PICK ok \in BOOLEAN : End(q, ok)
    BY <1>5 DEF Update
  <2> QED
    BY <1>0, <2>1, <2>2, EndQuiet, LoneRow
<1>6. CASE UpdateFails(q)
  <2>1. /\ request[q].step = "update" /\ UNCHANGED <<conf, slurm, db, torn>>
        /\ End(q, FALSE)
    BY <1>6 DEF UpdateFails
  <2> QED
    BY <1>0, <2>1, EndQuiet, LoneRow
<1>7. CASE StoreDelete(q)
  BY <1>0, <1>7, AdvanceQuiet DEF StoreDelete, TypeOK, NoRow
<1>8. CASE StoreDeleteFails(q)
  <2>1. /\ request[q].step = "delete" /\ End(q, FALSE)
        /\ UNCHANGED <<conf, slurm, db, torn>>
    BY <1>8 DEF StoreDeleteFails
  <2> QED
    BY <1>0, <2>1, EndQuiet, ZenonT(90) DEF OwnIsManaged, HalfDeleted, Active, AloneIsAlone
<1>9. CASE Drop(q)
  <2>1. /\ request[q].step = "drop" /\ UNCHANGED <<conf, db, torn>>
        /\ \A r \in Names : slurm'[r] = IF r = request[q].name THEN {} ELSE slurm[r]
    BY <1>0, <1>9 DEF Drop, TypeOK
  <2>2. CASE End(q, TRUE)
    BY <1>0, <2>1, <2>2, EndQuiet, LoneRow, ZenonT(30)
  <2>3. CASE Advance(q, "undo") /\ UNCHANGED settled
    BY <1>0, <2>1, <2>3, AdvanceQuiet, LoneRow
  <2> QED
    BY <1>9, <2>2, <2>3 DEF Drop
<1>10. CASE DropFails(q)
  <2>1. /\ request[q].step = "drop" /\ UNCHANGED <<conf, slurm, db, settled, torn>>
        /\ Advance(q, "undo")
    BY <1>10 DEF DropFails
  <2> QED
    BY <1>0, <2>1, AdvanceQuiet, LoneRow
<1>11. CASE Undo(q)
  <2>1. /\ request[q].step = "undo" /\ End(q, FALSE) /\ UNCHANGED <<conf, slurm, torn>>
        /\ db'[request[q].name].source = "managed"
        /\ \A r \in Names \ {request[q].name} : db'[r] = db[r]
    BY <1>0, <1>11 DEF Undo, TypeOK, Row
  <2> QED
    BY <1>0, <2>1, EndQuiet
<1>12. CASE UndoFails(q)
  <2>1. /\ request[q].step = "undo" /\ End(q, FALSE) /\ UNCHANGED <<conf, slurm, db>>
        /\ torn'[request[q].name]
        /\ \A r \in Names \ {request[q].name} : torn'[r] = torn[r]
    BY <1>0, <1>12 DEF UndoFails, TypeOK
  <2> QED
    BY <1>0, <2>1, EndQuiet
<1> QED
  BY <1>1, <1>2, <1>3, <1>4, <1>5, <1>6, <1>7, <1>8, <1>9, <1>10, <1>11, <1>12, ZenonT(30) DEF RequestStep

\* Each step keeps what lone requests have settled, and the platform's own
\* partitions managed unless they are torn.
LEMMA StepSettledOwn ==
  ASSUME IInv, [Next]_vars
  PROVE  SettledAgrees' /\ OwnIsManaged'
<1> USE DEF IInv, bounds, Row, NoRow, Steps
<1>1. ASSUME NEW stop \in 1..Count + 1, ImportSystem(stop)
      PROVE  SettledAgrees' /\ OwnIsManaged'
  <2>1. UNCHANGED <<conf, torn, slurm, settled, request>>
    BY <1>1 DEF ImportSystem
  <2>2. \A p \in Names : ~HalfDeleted(p)
    BY <1>1 DEF ImportSystem, RequestsSane, HalfDeleted, Active
  <2>3. ASSUME NEW p \in Names, settled[p], Active(p) = {}
        PROVE  db'[p] = db[p]
    BY <1>1, <2>3 DEF ImportSystem, Importable, Group, SettledAgrees, TypeOK
  <2>4. ASSUME NEW p \in Names, conf[p] = {}, ~torn[p]
        PROVE  db'[p] = db[p]
    BY <1>1, <2>2, <2>4 DEF ImportSystem, Importable, Group, OwnIsManaged, TypeOK
  <2> QED
    BY <2>1, <2>2, <2>3, <2>4 DEF SettledAgrees, OwnIsManaged, Active
<1>2. ASSUME NEW stop \in 1..Count + 1, Restore(stop) PROVE SettledAgrees' /\ OwnIsManaged'
  <2>1. UNCHANGED <<conf, torn, db, settled, request>>
    BY <1>2 DEF Restore
  <2>2. ASSUME NEW p \in Names, settled[p], Active(p) = {}
        PROVE  slurm'[p] = slurm[p]
    BY <1>2, <2>2 DEF Restore, SettledAgrees, TypeOK
  <2>3. \A p \in Names : slurm'[p] = slurm[p] \/ db[p].source = "managed"
    BY <1>2 DEF Restore, TypeOK
  <2> QED
    BY <2>1, <2>2, <2>3 DEF SettledAgrees, OwnIsManaged, HalfDeleted, Active
<1>3. ASSUME NEW q \in Requests, NEW p \in Names, NEW step \in Steps \ {"idle"},
             NEW nodes \in SUBSET Nodes, Begin(q, p, step, nodes),
             UNCHANGED <<conf, db, slurm, settled>>
      PROVE  SettledAgrees' /\ OwnIsManaged'
  BY <1>3, BeginQuiet DEF SettledAgrees, OwnIsManaged, HalfDeleted, Active
<1>4. ASSUME NEW q \in Requests, RequestStep(q) PROVE SettledAgrees' /\ OwnIsManaged'
  <2>1. ASSUME NEW p \in Names, Delete(q, p) PROVE SettledAgrees' /\ OwnIsManaged'
    BY <1>3, <2>1 DEF Delete, TypeOK
  <2>2. ASSUME NEW p \in Names, NEW nodes \in SUBSET known, Save(q, p, nodes)
        PROVE  SettledAgrees' /\ OwnIsManaged'
    BY <1>3, <2>2 DEF Save, TypeOK
  <2> QED
    BY <1>4, <2>1, <2>2, RequestLocal, LocalSettled, LocalOwn
<1>5. CASE Crash
  <2>1. /\ \A p \in Names : settled'[p] => settled[p] /\ Active(p) = {}
        /\ \A p \in Names : ~torn'[p] => ~torn[p] /\ ~HalfDeleted(p)
        /\ UNCHANGED <<conf, db, slurm>>
    BY <1>5 DEF Crash
  <2> QED
    BY <2>1 DEF SettledAgrees, OwnIsManaged
<1>6. CASE Reload
  BY <1>6 DEF Reload, SettledAgrees, OwnIsManaged
<1>7. CASE UNCHANGED vars
  BY <1>7 DEF vars, SettledAgrees, OwnIsManaged, HalfDeleted, Active
<1> QED
  BY <1>1, <1>2, <1>4, <1>5, <1>6, <1>7 DEF Next

-----------------------------------------------------------------------------
(* The theorems *)

\* The inductive invariant holds in every behaviour, with any overlap of
\* requests, failed or half-done scontrol commands, crashes and reloads.
LEMMA Invariance == Spec => []IInv
<1>1. IInv /\ [Next]_vars => IInv'
  BY StepTypeOK, StepAlone, StepProgress, StepSettledOwn DEF IInv
<1> QED
  BY InitIInv, <1>1, PTL DEF Spec

\* Every variable of partition management keeps its type, and the store never
\* holds a partition without nodes, for any number of partitions and requests.
THEOREM TypeCorrect == Spec => []TypeOK
<1>1. IInv => TypeOK
  BY DEF IInv
<1> QED
  BY Invariance, <1>1, PTL

\* A save or delete that ran alone and reported success has made database and
\* Slurm agree, whatever timed out on the way and whatever came after it.
THEOREM LoneSuccess == Spec => []LoneSuccessAgrees
<1>1. IInv => LoneSuccessAgrees
  BY DEF IInv, SettledAgrees, LoneSuccessAgrees
<1> QED
  BY Invariance, <1>1, PTL

\* Only a delete that was torn lets New import a partition of the platform's
\* own as a read-only system partition.
THEOREM OwnPartitions == Spec => []OwnPartitionStaysManaged
<1>1. IInv => OwnPartitionStaysManaged
  BY DEF IInv, OwnIsManaged, OwnPartitionStaysManaged
<1> QED
  BY Invariance, <1>1, PTL

\* No step of the platform changes in Slurm what the database records as a
\* system partition; only Slurm's own restart does.
THEOREM SystemRows == Spec => SystemRowsUntouched
<1> DEFINE Untouched == \A p \in Names :
             db[p].source = "system" /\ slurm'[p] # slurm[p] => slurm'[p] = conf[p]
<1>1. IInv /\ [Next]_vars => [Untouched]_vars
  <2> SUFFICES ASSUME IInv, [Next]_vars PROVE Untouched
    OBVIOUS
  <2> USE DEF IInv, NoSystemRequest, TypeOK, RequestsSane, Steps
  <2>1. ASSUME NEW stop \in 1..Count + 1, ImportSystem(stop) \/ Restore(stop) PROVE Untouched
    BY <2>1 DEF ImportSystem, Restore
  <2>2. ASSUME NEW q \in Requests, Create(q) \/ Update(q) \/ Drop(q) PROVE Untouched
    BY <2>2 DEF Create, Update, Drop
  <2>3. CASE Reload
    BY <2>3 DEF Reload
  <2>4. CASE UNCHANGED slurm
    BY <2>4
  <2>5. ASSUME NEW q \in Requests, RequestStep(q), ~(Create(q) \/ Update(q) \/ Drop(q))
        PROVE  UNCHANGED slurm
    BY <2>5 DEF RequestStep, Delete, Save, StoreSave, StoreSaveFails, CreateFails, UpdateFails,
                StoreDelete, StoreDeleteFails, DropFails, Undo, UndoFails
  <2>6. Crash \/ UNCHANGED vars => UNCHANGED slurm
    BY DEF Crash, vars
  <2> QED
    BY <2>1, <2>2, <2>3, <2>4, <2>5, <2>6 DEF Next
<1> QED
  BY Invariance, <1>1, PTL DEF Spec, SystemRowsUntouched
=============================================================================
