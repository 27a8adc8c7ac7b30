SPECIFICATION FairSpec
CONSTANTS
  MaxRuns = 2
  MaxCrashes = 1
  MaxFails = 1
  Late = TRUE
INVARIANTS
  TypeOK
  LoopHasDirectory
PROPERTIES
  OverIsReclaimed
CHECK_DEADLOCK FALSE
