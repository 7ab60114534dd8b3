SPECIFICATION FleetSpec
CONSTANTS
  Worker = w1
  Interval = 2
  StartsAt = 1
  Deadline = 6
  QueueSize = 1
  MaxRevision = 3
  MaxClock = 7
  MaxSessions = 2
INVARIANTS
  TypeOK
  
  DeadlineReported
  LoadMatchesRevision
  CompleteCountsAll
PROPERTIES
  OneSessionCounts
CHECK_DEADLOCK FALSE
