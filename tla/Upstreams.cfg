CONSTANTS
  d1 = d1
  d2 = d2
  d3 = d3
  Dates <- MCDates
  ShortDates = {d1}
  Burst = 1
  NASADeadline = 2
  WebDeadline = 1
  LastBegin = 1
  Replies <- MCReplies
  Searches <- MCSearches
SYMMETRY Symmetry
SPECIFICATION Spec
INVARIANTS
  RateKept
  QueueBounded
  FetchBounded
  PictureOfTheDay
\* A flight ends, and no new one begins after LastBegin.
CHECK_DEADLOCK FALSE
