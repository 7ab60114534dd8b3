SPECIFICATION Spec
CONSTANTS
  Workers <- Two
  MinWorkers = 1
  Load <- OneUser
  LeadTime = 1
  Duration = 1
  MaxAttempts = 1
  MaxSessions = 2
  MaxHeartbeats = 0
  MaxClock = 0
INVARIANT
  AcknowledgedFirst
CHECK_DEADLOCK FALSE
