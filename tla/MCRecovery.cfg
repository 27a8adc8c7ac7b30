SPECIFICATION Spec
CONSTANTS
  Processes = {a, b, c}
  Nobody = Nobody
  MaxRuns = 2
  LeaseTtl = 2
  StartingTimeout = 2
  MaxOpen = 2
SYMMETRY Symmetric
INVARIANTS
  TypeOK
  LoopKeepsRow
  OwnerCanCancel
  NoHalfLaunchLeft
CHECK_DEADLOCK FALSE
