SPECIFICATION FairSpec
CONSTANTS
  Producers = {p1, p2}
  Callers = {c1, c2}
  NoCaller = NoCaller
  BufferSize = 2
  MaxSamples = 4
  MaxCalls = 3
INVARIANTS
  TypeOK
  CountedOnce
  Barrier
PROPERTIES
  CallsReturn
CHECK_DEADLOCK FALSE
