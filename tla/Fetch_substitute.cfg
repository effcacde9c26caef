SPECIFICATION Spec
CONSTANTS
  Requests = {r1, r2}
  LastDay = 2
  ImageDates = {1}
  None = None
SYMMETRY Symm
CHECK_DEADLOCK FALSE
INVARIANTS
  ExplicitDateNeverSubstituted
