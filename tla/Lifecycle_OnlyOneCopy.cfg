SPECIFICATION Spec
CONSTANTS
  Daemons = {d1, d2}
  ScriptsOverlap = TRUE
  MaxLaunches = 4
CHECK_DEADLOCK FALSE
INVARIANT OnlyOneCopy
