SPECIFICATION Spec
CONSTANTS
  Requests = {r1, r2, r3, r4, r5}
  Ips = {i1}
  Limit = 2
  Window = 3
  PurgeAt = 1
  Lag = 1
  LastTick = 4
  None = None
SYMMETRY Symm
CHECK_DEADLOCK FALSE
INVARIANTS
  AtMostLimitPer24h
