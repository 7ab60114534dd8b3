SPECIFICATION FairSpec
CONSTANTS
  Workers <- Two
  MinWorkers = 1
  Load <- OneUser
  LeadTime = 1
  Duration = 1
  MaxAttempts = 2
  MaxSessions = 2
  MaxHeartbeats = 0
  MaxClock = 0
PROPERTIES
  StaleSessionRemoved
  AnnouncedGetsAssignment
CHECK_DEADLOCK FALSE
