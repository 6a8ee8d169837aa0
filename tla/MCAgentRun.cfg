SPECIFICATION FairSpec
CONSTANTS
  here = here
  there = there
  Cancellers <- MCCancellers
  Local <- MCLocal
INVARIANTS
  RowsTellTheTruth
  NothingLeftBehind
PROPERTIES
  SettledUnlessRaced
  CancelWorks
  EverythingSettles
