SPECIFICATION Spec
CONSTANTS
  Users = {u1}
  Requests = {r1}
  Sockets = {}
  MaxTerminalSessions = 2
  MaxTerminalSessionsPerUser = 1
  None = None
INVARIANTS LogoutCloses
CHECK_DEADLOCK FALSE
