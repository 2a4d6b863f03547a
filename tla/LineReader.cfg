SPECIFICATION Spec
CONSTANTS
  BufferSize = 5
  Lengths = {0, 1, 2, 3, 4, 5}
  QueueMayFill = TRUE
  PipeCapacity = 9
  MaxLines = 4
CHECK_DEADLOCK FALSE
INVARIANTS
  TypeOK
  Lossless
  NoMixedLines
  DamageBounded
  InOrder
  OverrunByNulOnly
