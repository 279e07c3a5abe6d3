---------------------------- MODULE PartitionSync ---------------------------
(***************************************************************************)
(* Partition management: savePartition, deletePartition and the two syncs  *)
(* that New runs at start-up (internal/web/partitions.go), over the        *)
(* PartitionStore (SQLite, internal/platform/partitions.go) and Slurm,     *)
(* which Client.ApplyPartition and DeletePartition change by scontrol      *)
(* (internal/slurm/partition_admin.go).                                    *)
(*                                                                         *)
(* A store transaction is one action and so is an scontrol command.  Slurm *)
(* is external: a command fails without effect, takes effect, or takes     *)
(* effect and is reported as failed (a timeout or a client that went       *)
(* away).  Partitions are numbered in the order of their names.  A set of  *)
(* nodes stands for a definition; in Slurm the empty set is no partition.  *)
(***************************************************************************)
EXTENDS Naturals, FiniteSets

CONSTANTS Count,        \* number of partition names
          Nodes,        \* node names
          Requests,     \* handler goroutines
          MaxCrashes,   \* bound on restarts of this service
          MaxReloads    \* bound on restarts of Slurm

ASSUME PartitionAssumption == /\ Count \in Nat
                              /\ Nodes # {}
                              /\ MaxCrashes \in Nat
                              /\ MaxReloads \in Nat

Names == 1..Count

VARIABLES
  conf,      \* what slurm.conf defines (external, constant)
  known,     \* the nodes slurmctld knows (external)
  slurm,     \* the partitions slurmctld runs (external)
  db,        \* rows of slurm_partitions with their nodes
  phase,     \* New: "import", then "restore", then "serving"
  request,   \* per goroutine: step, partition, definition, ran alone so far
  crashes, reloads,
  \* History variables: they record what happened and guard nothing.
  settled,   \* the last request on the partition ran alone and succeeded
  torn       \* requests overlapped on it, or a delete was left half done

bounds == <<crashes, reloads>>
vars == <<conf, known, slurm, db, phase, request, crashes, reloads, settled, torn>>

NoRow == [source |-> "none", nodes |-> {}]
Row(source, nodes) == [source |-> source, nodes |-> nodes]
Idle == [step |-> "idle", name |-> 0, nodes |-> {}, alone |-> TRUE]
Steps == {"idle", "store", "create", "update", "delete", "drop", "undo"}

Active(p) == {q \in Requests : request[q].step # "idle" /\ request[q].name = p}
Defined(p) == slurm[p] # {}

\* First start, on an empty database.
Init ==
  /\ conf \in [Names -> SUBSET Nodes]
  /\ known = Nodes
  /\ slurm = conf
  /\ db = [p \in Names |-> NoRow]
  /\ phase = "import"
  /\ request = [q \in Requests |-> Idle]
  /\ crashes = 0
  /\ reloads = 0
  /\ settled = [p \in Names |-> FALSE]
  /\ torn = [p \in Names |-> FALSE]

-----------------------------------------------------------------------------
(* syncSystemPartitions and syncStoredPartitions, before the first request *)

\* parseNodesJSON joins the names of a node's partitions: the nodes that are
\* in the partitions S and in no other.
Group(S) == {n \in Nodes : S = {p \in Names : n \in slurm[p]}}

\* ImportSystem rejects a joined name, and a partition the platform manages.
\* A joined name sorts right after its first partition.
Importable(p) == Group({p}) # {} /\ db[p].source # "managed"
Rejected(p) == Group({p}) # {} /\ db[p].source = "managed"
Unnameable(p) ==
  \E S \in SUBSET Names :
    /\ Cardinality(S) > 1
    /\ p \in S
    /\ \A s \in S : p <= s
    /\ Group(S) # {}

\* The import stops at the first error, or at a later database error: only
\* names below stop are imported.
ImportSystem(stop) ==
  /\ phase = "import"
  /\ \A p \in Names : p < stop => ~Rejected(p) /\ (Unnameable(p) => p = stop - 1)
  /\ db' = [p \in Names |-> IF p < stop /\ Importable(p)
                              THEN Row("system", Group({p})) ELSE db[p]]
  /\ phase' = "restore"
  /\ UNCHANGED <<conf, known, slurm, request, bounds, settled, torn>>

\* ApplyPartition for every managed row in order, up to the first failure.
Restore(stop) ==
  /\ phase = "restore"
  /\ \A p \in Names : p < stop /\ db[p].source = "managed" => db[p].nodes \subseteq known
  /\ slurm' = [p \in Names |-> IF p < stop /\ db[p].source = "managed"
                                 THEN db[p].nodes ELSE slurm[p]]
  /\ phase' = "serving"
  /\ UNCHANGED <<conf, known, db, request, bounds, settled, torn>>

-----------------------------------------------------------------------------
(* Requests *)

\* A request on p begins; history notes whether others are under way.
Begin(q, p, step, nodes) ==
  /\ phase = "serving"
  /\ request[q].step = "idle"
  /\ request' = [o \in Requests |->
       IF o = q THEN [step |-> step, name |-> p, nodes |-> nodes, alone |-> Active(p) = {}]
       ELSE IF o \in Active(p) THEN [request[o] EXCEPT !.alone = FALSE]
       ELSE request[o]]
  /\ torn' = [torn EXCEPT ![p] = @ \/ Active(p) # {}]

Advance(q, step) == request' = [request EXCEPT ![q].step = step]

\* The request ends; ok says whether it reported success.
End(q, ok) ==
  /\ request' = [request EXCEPT ![q] = Idle]
  /\ settled' = [settled EXCEPT ![request[q].name] = ok /\ request[q].alone]

\* Mutant of Save: the empty selection is not refused.
SaveEmpty(q, p, nodes) ==
  /\ Begin(q, p, "store", nodes)
  /\ UNCHANGED <<conf, known, slurm, db, phase, bounds, settled>>

\* savePartition: the selected nodes were in the (cached) node snapshot.
Save(q, p, nodes) ==
  /\ nodes # {}
  /\ Begin(q, p, "store", nodes)
  /\ UNCHANGED <<conf, known, slurm, db, phase, bounds, settled>>

\* Mutant of StoreSave: savePartition goes on after the error of Upsert.
StoreSaveUnchecked(q) ==
  /\ request[q].step = "store"
  /\ db' = IF db[request[q].name].source = "system" THEN db
           ELSE [db EXCEPT ![request[q].name] = Row("managed", request[q].nodes)]
  /\ Advance(q, "create")
  /\ UNCHANGED <<conf, known, slurm, phase, bounds, settled, torn>>

\* Upsert: one transaction, which refuses the rows of system partitions.
StoreSave(q) ==
  /\ request[q].step = "store"
  /\ db[request[q].name].source # "system"
  /\ db' = [db EXCEPT ![request[q].name] = Row("managed", request[q].nodes)]
  /\ Advance(q, "create")
  /\ UNCHANGED <<conf, known, slurm, phase, bounds, settled, torn>>

\* Read-only, or a database error.
StoreSaveFails(q) ==
  /\ request[q].step = "store"
  /\ End(q, FALSE)
  /\ UNCHANGED <<conf, known, slurm, db, phase, bounds, torn>>

\* ApplyPartition: scontrol create.
Create(q) ==
  /\ request[q].step = "create"
  /\ ~Defined(request[q].name)
  /\ request[q].nodes \subseteq known
  /\ slurm' = [slurm EXCEPT ![request[q].name] = request[q].nodes]
  /\ \/ End(q, TRUE)
     \/ Advance(q, "update") /\ UNCHANGED settled  \* reported as failed
  /\ UNCHANGED <<conf, known, db, phase, bounds, torn>>

\* Mutant of CreateFails: "already exists" counts as success.
CreateFailsIgnored(q) ==
  /\ request[q].step = "create"
  /\ End(q, Defined(request[q].name))
  /\ UNCHANGED <<conf, known, slurm, db, phase, bounds, torn>>

\* It fails: the partition exists, a node does not, or any other reason.
CreateFails(q) ==
  /\ request[q].step = "create"
  /\ Advance(q, "update")
  /\ UNCHANGED <<conf, known, slurm, db, phase, bounds, settled, torn>>

\* scontrol update.
Update(q) ==
  /\ request[q].step = "update"
  /\ Defined(request[q].name)
  /\ request[q].nodes \subseteq known
  /\ slurm' = [slurm EXCEPT ![request[q].name] = request[q].nodes]
  /\ \E ok \in BOOLEAN : End(q, ok)
  /\ UNCHANGED <<conf, known, db, phase, bounds, torn>>

UpdateFails(q) ==
  /\ request[q].step = "update"
  /\ End(q, FALSE)
  /\ UNCHANGED <<conf, known, slurm, db, phase, bounds, torn>>

\* deletePartition: Get finds a managed row, whose definition is kept.
Delete(q, p) ==
  /\ db[p].source = "managed"
  /\ Begin(q, p, "delete", db[p].nodes)
  /\ UNCHANGED <<conf, known, slurm, db, phase, bounds, settled>>

\* DeleteManaged: no error either when the row has gone meanwhile.
StoreDelete(q) ==
  /\ request[q].step = "delete"
  /\ db' = [db EXCEPT ![request[q].name] = NoRow]
  /\ Advance(q, "drop")
  /\ UNCHANGED <<conf, known, slurm, phase, bounds, settled, torn>>

StoreDeleteFails(q) ==
  /\ request[q].step = "delete"
  /\ End(q, FALSE)
  /\ UNCHANGED <<conf, known, slurm, db, phase, bounds, torn>>

\* scontrol delete.
Drop(q) ==
  /\ request[q].step = "drop"
  /\ Defined(request[q].name)
  /\ slurm' = [slurm EXCEPT ![request[q].name] = {}]
  /\ \/ End(q, TRUE)
     \/ Advance(q, "undo") /\ UNCHANGED settled  \* reported as failed
  /\ UNCHANGED <<conf, known, db, phase, bounds, torn>>

\* Mutant of DropFails: nothing is written back.
DropFailsForgets(q) ==
  /\ request[q].step = "drop"
  /\ End(q, FALSE)
  /\ UNCHANGED <<conf, known, slurm, db, phase, bounds, torn>>

\* It fails: Slurm has no such partition, or jobs run in it, or it is down.
DropFails(q) ==
  /\ request[q].step = "drop"
  /\ Advance(q, "undo")
  /\ UNCHANGED <<conf, known, slurm, db, phase, bounds, settled, torn>>

\* The compensating Upsert writes the kept definition back.
Undo(q) ==
  /\ request[q].step = "undo"
  /\ db' = [db EXCEPT ![request[q].name] = Row("managed", request[q].nodes)]
  /\ End(q, FALSE)
  /\ UNCHANGED <<conf, known, slurm, phase, bounds, torn>>

\* Its error is ignored: it runs on the context of the request, which is done
\* when the client going away is what made scontrol fail.
UndoFails(q) ==
  /\ request[q].step = "undo"
  /\ End(q, FALSE)
  /\ torn' = [torn EXCEPT ![request[q].name] = TRUE]
  /\ UNCHANGED <<conf, known, slurm, db, phase, bounds>>

-----------------------------------------------------------------------------
(* Restarts *)

HalfDeleted(p) == \E q \in Active(p) : request[q].step \in {"drop", "undo"}

\* This service ends at any point and starts again.
Crash ==
  /\ crashes < MaxCrashes
  /\ crashes' = crashes + 1
  /\ phase' = "import"
  /\ request' = [q \in Requests |-> Idle]
  /\ settled' = [p \in Names |-> settled[p] /\ Active(p) = {}]
  /\ torn' = [p \in Names |-> torn[p] \/ HalfDeleted(p)]
  /\ UNCHANGED <<conf, known, slurm, db, reloads>>

\* slurmctld restarts: partitions made by scontrol are lost, and nodes may
\* have been taken out of its configuration.
Reload ==
  /\ reloads < MaxReloads
  /\ reloads' = reloads + 1
  /\ slurm' = conf
  /\ known' \in {K \in SUBSET known \ {{}} : \A p \in Names : conf[p] \subseteq K}
  /\ settled' = [p \in Names |-> FALSE]
  /\ UNCHANGED <<conf, db, phase, request, crashes, torn>>

-----------------------------------------------------------------------------
RequestStep(q) ==
  \/ \E p \in Names : Delete(q, p) \/ \E nodes \in SUBSET known : Save(q, p, nodes)
  \/ StoreSave(q) \/ StoreSaveFails(q)
  \/ Create(q) \/ CreateFails(q) \/ Update(q) \/ UpdateFails(q)
  \/ StoreDelete(q) \/ StoreDeleteFails(q)
  \/ Drop(q) \/ DropFails(q) \/ Undo(q) \/ UndoFails(q)

Next ==
  \/ \E stop \in 1..Count + 1 : ImportSystem(stop) \/ Restore(stop)
  \/ \E q \in Requests : RequestStep(q)
  \/ Crash
  \/ Reload

Spec == Init /\ [][Next]_vars

-----------------------------------------------------------------------------
\* Every variable keeps its type; a row of the store has at least one node
\* (savePartition and upsert refuse an empty list).
TypeOK ==
  /\ conf \in [Names -> SUBSET Nodes]
  /\ known \in SUBSET Nodes
  /\ slurm \in [Names -> SUBSET Nodes]
  /\ db \in [Names -> [source: {"none", "managed", "system"}, nodes: SUBSET Nodes]]
  /\ \A p \in Names : db[p].source = "none" <=> db[p].nodes = {}
  /\ phase \in {"import", "restore", "serving"}
  /\ request \in [Requests -> [step: Steps, name: Names \cup {0}, nodes: SUBSET Nodes,
                               alone: BOOLEAN]]
  /\ crashes \in 0..MaxCrashes
  /\ reloads \in 0..MaxReloads
  /\ settled \in [Names -> BOOLEAN]
  /\ torn \in [Names -> BOOLEAN]

\* A save or delete that ran alone and reported success has made database and
\* Slurm agree, whatever commands timed out after taking effect on the way.
LoneSuccessAgrees ==
  \A p \in Names : settled[p] /\ Active(p) = {} => slurm[p] = db[p].nodes

\* Once a partition is recorded as a system partition, the platform does not
\* touch it in Slurm: savePartition and deletePartition never get as far as
\* an scontrol command, with any other requests and restarts in between.
SystemRowsUntouched ==
  [][\A p \in Names :
       db[p].source = "system" /\ slurm'[p] # slurm[p] => slurm'[p] = conf[p]]_vars

\* A partition the platform itself created is imported as a read-only system
\* partition (and can then no longer be edited or deleted) only after a delete
\* of it was left half done or overlapped with another request.
OwnPartitionStaysManaged ==
  \A p \in Names : conf[p] = {} /\ db[p].source = "system" => torn[p]

\* partitions_test.go:322, TestPartitionManagementPageRejectsSystemPartitionEdits:
\* partitions that come from Slurm's own configuration are read-only.
SystemReadOnly ==
  \A p \in Names : conf[p] # {} => slurm[p] = conf[p]
=============================================================================
