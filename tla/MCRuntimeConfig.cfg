SPECIFICATION FairSpec
CONSTANTS
  i1 = i1  i2 = i2  c1 = c1  c2 = c2  t = t  k = k
  None = None
  Instances <- MCInstances
  Calls <- MCCalls
  Tools <- MCTools
  Skills <- MCSkills
  Startup <- MCStartup
  Requests <- MCRequests
  Placements <- MCPlacements
CHECK_DEADLOCK FALSE
INVARIANTS
  VersionsTellTheTruth
PROPERTIES
  Converges
