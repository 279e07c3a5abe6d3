SPECIFICATION MCSpec
CONSTANTS
  Count = 2
  Nodes = {n1, n2}
  Requests = {q1, q2, q3}
  MaxCrashes = 1
  MaxReloads = 1
SYMMETRY Symmetry
INVARIANTS TypeOK LoneSuccessAgrees OwnPartitionStaysManaged
PROPERTIES SystemRowsUntouched
