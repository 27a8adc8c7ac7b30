SPECIFICATION Spec
CONSTANTS
  MaxRuns = 2
  MaxInterrupts = 1
  PrecheckFails = TRUE
  StopFails = TRUE
  DeleteFails = TRUE
INVARIANTS
  ReportOfCurrentRun
  MergedRunIsCurrent
  LoopHasWorkspace
  OneChildInWorkspace
PROPERTIES
  RemovedAfterSettling
  AcceptedWorkStays
CHECK_DEADLOCK FALSE
