SPECIFICATION Spec
CONSTANTS
  Keys <- Days
  Values = {v1, v2}
  Callers = {c1, c2}
  MaxItems = 2
  EvictPct = 100
  TTL = 1
  DayTicks = 2
  LastTick = 2
  None = None
  Last = Last
  Found = Found
SYMMETRY Symm
INVARIANTS SizeBounded
PROPERTIES LiveEntryKept StoredIsKept ImplementsCache
