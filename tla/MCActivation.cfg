SPECIFICATION Spec
CONSTANTS
  Owners = {a, b}
  Runs = {r1, r2}
  NoOwner = NoOwner
  NoRun = NoRun
  LeaseTtl = 3
  HeartbeatEvery = 1
  MaxLate = 0
  MaxLag = 1
  MaxGeneration = 3
  MaxRemovals = 1
SYMMETRY Symmetric
INVARIANTS
  TypeOK
  OneOwnerPerGeneration
  LoopOwnsRow
PROPERTIES
  StaleTokenFenced
  ImplementsOwnership
CHECK_DEADLOCK FALSE
