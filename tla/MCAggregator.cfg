SPECIFICATION Spec
CONSTANTS
  a = a
  b = b
  Workers <- One
  Interval = 2
  StartsAt = 1
  Deadline = 5
  MaxCount = 2
  MaxRevisions = 3
  MaxSequence = 4
  MaxRequests = 1
INVARIANTS
  TypeOK
  StateMatchesHistory
  IntervalsFollow
  CompleteMeansReported
PROPERTIES
  ImplementsLedger
CHECK_DEADLOCK FALSE
