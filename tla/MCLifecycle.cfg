SPECIFICATION LifecycleSpec
CONSTANTS
  Requests <- MCRequests
  Kinds <- MCKinds
  DrainTimeout = 2
  ShutdownTimeout = 5
  APIRequestTimeout = 2
  DbCloseTimeout = 1
  ProbePeriod = 1
  LastSignal = 1
CHECK_DEADLOCK FALSE
INVARIANTS
  
  FlushedUnlessStuck

  
