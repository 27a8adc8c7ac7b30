SPECIFICATION FairSpec
CONSTANTS
  NumPaths = 2
  NumCalls = 2
  Shapes <- ChildsFiles
  Scopes <- Whole
  MaxMerges = 2
  MaxEdits = 1
  MaxCrashes = 1
  WriteFails = TRUE
INVARIANTS
  TypeOK
  MergedIsApplied
  EditsSurvive
  AppliedHoldsChild
  FailedIsRolledBack
PROPERTIES
  InterruptedIsSettled
CHECK_DEADLOCK FALSE
