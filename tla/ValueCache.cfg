SPECIFICATION FairSpec
CONSTANTS
  Callers = {c1, c2}
  Admins = {a1}
  TTL = 1
  MaxVersion = 2
INVARIANTS SingleFlight StaleOnlyAfterRace
PROPERTIES CancelIsPrivate WaiterWakes CancelledReturns
