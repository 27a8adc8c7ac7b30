SPECIFICATION FairSpec
CONSTANTS
  MaxRuns = 3
  MaxInterrupts = 0
  PrecheckFails = FALSE
  StopFails = FALSE
  DeleteFails = FALSE
INVARIANTS
  TypeOK
PROPERTIES
  RunsAreSettled
CHECK_DEADLOCK FALSE
