SPECIFICATION FairSpec
CONSTANTS
  Main = main
  Remotes = {w1}
  MaxSeq = 4
  MaxMoves = 2
  MaxCuts = 1
  MaxReverts = 1
INVARIANTS
  TypeOK
  NumbersInOrder
PROPERTIES
  CaughtUp
CHECK_DEADLOCK FALSE
