SPECIFICATION FairSpec
CONSTANTS
  a = a
  b = b
  Keys <- MCKeys
  MaxSteps = 3
  MaxReflections = 1
  MaxReflectionSteps = 2
  MaxToolErrors = 2
  MaxReplans = 1
  ReplanInterval = 1
  MaxRewrites = 1
  Jurors = 3
  Opinions <- MCOpinions
  MaxBatch = 2
INVARIANTS
  BudgetsKept
  CallsExact
PROPERTIES
  RunsEnd
