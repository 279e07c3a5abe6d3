-------------------------- MODULE MCPartitionSync ---------------------------
(***************************************************************************)
(* PartitionSync for TLC, in two scenarios that differ in what the         *)
(* environment does, so that one run covers both: requests one at a time   *)
(* over every slurm.conf, and requests that overlap on the first partition *)
(* where slurm.conf does not define the second.                            *)
(***************************************************************************)
EXTENDS PartitionSync, TLC

VARIABLE scenario

Busy == {q \in Requests : request[q].step # "idle"}

MCInit ==
  /\ Init
  /\ scenario \in {"sequential", "overlapping"}
  /\ scenario = "overlapping" => \A p \in Names \ {1} : conf[p] = {}

MCNext ==
  /\ Next
  /\ scenario = "sequential" => Cardinality(Busy') <= 1
  /\ scenario = "overlapping" => \A q \in Busy' : request'[q].name = 1
  /\ UNCHANGED scenario

MCSpec == MCInit /\ [][MCNext]_<<vars, scenario>>

\* Nodes and goroutines are interchangeable; names are ordered.
Symmetry == Permutations(Nodes) \cup Permutations(Requests)
=============================================================================
