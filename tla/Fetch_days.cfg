SPECIFICATION Spec
CONSTANTS
  Requests = {r1, r2}
  LastDay = 2
  ImageDates = {1}
  None = None
SYMMETRY Symm
CHECK_DEADLOCK FALSE
INVARIANTS
  CachesNotPoisoned
  TodayExpires
  SubstituteOnlyByJoining
  ImagesFollow
  OneFlightPerDate
  CanceledHasACause
PROPERTIES
  ImplementsService
