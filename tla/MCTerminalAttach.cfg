SPECIFICATION FairSpec
CONSTANTS
  Users = {u1, u2}
  Requests = {r1}
  Sockets = {s1, s2}
  MaxTerminalSessions = 1
  MaxTerminalSessionsPerUser = 1
  None = None
INVARIANTS NoOrphan AttachedOnceByOwner
PROPERTIES EveryTerminalCloses
CHECK_DEADLOCK FALSE
