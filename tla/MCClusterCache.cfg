SPECIFICATION FairSpec
CONSTANTS
  i1 = i1  i2 = i2  w1 = w1  w2 = w2  r1 = r1  p1 = p1
  first = first
  First = first
  None = None
  at <- MCAt
  Instances <- MCInstances
  Writers <- MCWriters
  Readers <- MCReaders
  Proxied <- MCProxied
CHECK_DEADLOCK FALSE
INVARIANTS
  StaleOnlyIfUntold
  ProxyUsesWhatItRead
PROPERTIES
  Converges
  UndoneOnlyByOverlap
