SPECIFICATION LoopFairSpec
CONSTANTS
  Interval = 2
  StartsAt = 1
  Deadline = 4
  QueueSize = 1
  MaxRevision = 2
  MaxClock = 5
  BaseBackoff = 1
  MaxBackoff = 5
  MaxFailures = 4
INVARIANTS
  StopsOnlyWhenRefused
  RetryDelayBounded
PROPERTIES
  BrokenSessionEnds
  RunEnds
CHECK_DEADLOCK FALSE
