SPECIFICATION Spec
CONSTANTS
  Prompts = {p}
  Wakes = {w}
  MaxCancels = 2
  MaxWorks = 3
PROPERTIES
  StopSticks
CHECK_DEADLOCK FALSE
