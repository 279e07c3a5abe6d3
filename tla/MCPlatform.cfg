SPECIFICATION PlatformSpec
CONSTANTS
  MaxAuditEvents = 5
  PageSize = 2
  MaxRecorded = 12
  Clients = {c1, c2, c3}
  Attempts = {a1, a2}
  Window = 2
  MaxAttempts = 1
  Capacity = 2
  MaxClock = 4
  Creates = {q1, q2, q3}
  UserNames = {alice, bob}
  UidNumbers = {1001, 1002}
  DirectorySlots = 2
INVARIANTS AuditWalkComplete AttemptsBounded IdentityUnlessRaced
PROPERTIES ImplementsDirectoryPool
CHECK_DEADLOCK FALSE
