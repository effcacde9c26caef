SPECIFICATION FairSpec
CONSTANTS
  Requests = {r1, r2}
  LastDay = 1
  ImageDates = {1}
  None = None
CHECK_DEADLOCK FALSE
PROPERTIES EveryCallReturns LeaversReturn
