SPECIFICATION FairSessionSpec
CONSTANTS
  c1 = c1
  c2 = c2
  Reader = Reader
  Closer = Closer
  Nobody = Nobody
  Requests <- MCRequests
  QueueSize = 1
CHECK_DEADLOCK FALSE
INVARIANTS
  WaitersExact
PROPERTIES
  ClosingEnds
