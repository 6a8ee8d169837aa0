SPECIFICATION AdmissionSpec
CONSTANTS
  p1 = p1  p2 = p2  p3 = p3  u1 = u1  u2 = u2  c1 = c1  c2 = c2
  Procs <- MCProcs
  Users <- MCUsers
  Callers <- MCCallers
  MaxGlobal = 2
  MaxPerUser = 1
  r1 = r1  r2 = r2  global = global  alice = alice  bob = bob
  Runs <- MCRuns
  Keys <- MCKeys
  Limit <- MCLimit
  Dims <- MCDims
  Pos <- MCPos
  Offset <- MCOffset
  TTL = 3
  RefreshInterval = 1
  Floor = 0
INVARIANTS
  LimiterExact
  LeaseLimitsHold
PROPERTY LeaseContract
