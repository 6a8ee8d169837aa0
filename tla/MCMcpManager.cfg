SPECIFICATION ManagerSpec
CONSTANTS
  MaxBackoff = 2
  t = t
  Tools <- MCTools
  c1 = c1  c2 = c2  c3 = c3
  Calls <- MCCalls
  MaxConcurrency = 2
  Threshold = 2
INVARIANTS
  OnlyWatched
  ToolsCurrent
  AdmissionExact

  
  
CHECK_DEADLOCK FALSE
