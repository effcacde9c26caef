SPECIFICATION FairSpec
CONSTANTS
  Callers = {c1, c2, c3}
  Dates = {d1}
  FailMax = 2
  OpenWindow = 2
  None = None
INVARIANTS NobodyAdmittedWhileOpen LastDateHasRecord
PROPERTIES OpensOnStreak Recovers
