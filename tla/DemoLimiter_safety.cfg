SPECIFICATION Spec
CONSTANTS
  Requests = {r1, r2, r3, r4}
  Ips = {i1, i2}
  Limit = 2
  Window = 2
  PurgeAt = 1
  Lag = 1
  LastTick = 3
  None = None
SYMMETRY Symm
CHECK_DEADLOCK FALSE
INVARIANTS
  ChargesAccounted
  ServedWithinLimit
PROPERTIES
  DeniedOnlyWhenSpent
  LiveWindowKept
  ImplementsLedger
