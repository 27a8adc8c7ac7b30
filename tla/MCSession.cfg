SPECIFICATION FairSpec
CONSTANTS
  Prompts = {p}
  Wakes = {w}
  MaxCancels = 2
  MaxWorks = 3
INVARIANTS
  TypeOK
  OneAtATime
  RunningIsFound
  QuietIsIdle
  WakeupsAreRead
PROPERTIES
  WaitersAnswered
CHECK_DEADLOCK FALSE
