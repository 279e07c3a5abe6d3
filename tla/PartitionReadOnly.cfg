SPECIFICATION Spec
CONSTANTS
  Count = 2
  Nodes = {n1, n2}
  Requests = {q1}
  MaxCrashes = 0
  MaxReloads = 0
INVARIANTS SystemReadOnly
