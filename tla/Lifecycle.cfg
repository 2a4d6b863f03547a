SPECIFICATION Spec
CONSTANTS
  Daemons = {d1, d2}
  ScriptsOverlap = FALSE
  MaxLaunches = 4
\* The process may have used its starts up.
CHECK_DEADLOCK FALSE
INVARIANTS
  TypeOK
  NameIsServed
  NoStalePipe
PROPERTY StopsOwnPipe
