SPECIFICATION Spec
CONSTANTS
  VirtualUsers = 2
  MaxInFlight = 2
  BufferSize = 2
  MaxArrivals = 6
INVARIANTS
  NothingUnaccounted
  PassIsReliable
PROPERTIES
  RunEnds
CHECK_DEADLOCK FALSE
