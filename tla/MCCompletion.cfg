SPECIFICATION PromptSpec
CONSTANTS
  a = a
  b = b
  Workers <- Pair
  Fleets <- Growing
  Interval = 1
  StartsAt = 1
  Deadline = 2
  MaxCount = 9
  MaxRevisions = 2
  MaxSequence = 1
  MaxRequests = 1
INVARIANTS
  PassIsComplete
  PromptPassCountsFinals
  
PROPERTIES
  CompleteIsNoticed
  SignalEnds
  StartedRunEnds
CHECK_DEADLOCK FALSE
