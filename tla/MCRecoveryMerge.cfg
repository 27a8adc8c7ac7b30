SPECIFICATION Spec
CONSTANTS
  Processes = {a, b}
  Nobody = Nobody
  MaxRuns = 1
  LeaseTtl = 2
  StartingTimeout = 2
  MaxOpen = 1
INVARIANTS
  AcceptedCanBeMerged
CHECK_DEADLOCK FALSE
