SPECIFICATION Spec
CONSTANTS
  Users = {u1, u2}
  Requests = {r1, r2, r3}
  Sockets = {}
  MaxTerminalSessions = 2
  MaxTerminalSessionsPerUser = 2
  None = None
SYMMETRY Symmetry
INVARIANTS WithinLimits OnlyLateSurvive
CHECK_DEADLOCK FALSE
