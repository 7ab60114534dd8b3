SPECIFICATION Spec
CONSTANTS
  Interval = 2
  StartsAt = 1
  Deadline = 4
  QueueSize = 1
  MaxRevision = 2
  MaxClock = 5
INVARIANTS
  RevisionClosedOnce
CHECK_DEADLOCK FALSE
