SPECIFICATION CompletionSpec
CONSTANTS
  a = a
  b = b
  Workers <- One
  Fleets <- Alone
  Interval = 1
  StartsAt = 1
  Deadline = 3
  MaxCount = 9
  MaxRevisions = 1
  MaxSequence = 2
  MaxRequests = 1
INVARIANTS
  PassCountsFinals
CHECK_DEADLOCK FALSE
