SPECIFICATION Spec
CONSTANTS
  Writers = {a, b, c}
  NoWriter = NoWriter
  MaxWrites = 4
  MaxCrashes = 2
  ReplaceRefused = TRUE
  HandoffFails = TRUE
  UnlinkFails = FALSE
SYMMETRY Symmetric
INVARIANTS
  TypeOK
  
  AckedSurvive
PROPERTIES
  AbandonedLocksRecovered
  ImplementsRegister
CHECK_DEADLOCK FALSE
