SPECIFICATION Spec
CONSTANTS
  Handlers = {h1, h2}
  DaySlots = 7
  PrefetchAt = 1
  StartupDelay = 1
  MaxRetries = 1
  RetryPause = 2
  AttemptTime = 1
  ShutdownTime = 2
INVARIANTS JobsExitSmoothly
