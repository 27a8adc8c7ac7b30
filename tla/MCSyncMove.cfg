SPECIFICATION FairSpec
CONSTANTS
  Main = main
  Remotes = {w1, w2}
  MaxSeq = 2
  MaxMoves = 2
  MaxCuts = 0
  MaxReverts = 0
PROPERTIES
  OwnerIsHeard
CHECK_DEADLOCK FALSE
