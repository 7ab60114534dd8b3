SPECIFICATION Spec
CONSTANTS
  Workers <- Two
  MinWorkers = 1
  Load <- RateLoad
  LeadTime = 1
  Duration = 1
  MaxAttempts = 2
  MaxSessions = 2
  MaxHeartbeats = 2
  MaxClock = 2
INVARIANTS
  TypeOK
  LiveSessionRegistered
  RecordedBeforeDelivered
  CoordinatorCaughtUp
  HealthyWorkerNeverRefused
PROPERTIES
  NoTakeover
CHECK_DEADLOCK FALSE
