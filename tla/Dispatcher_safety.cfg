SPECIFICATION Spec
CONSTANTS
  Workers = {w1, w2}
  Capacity = 2
  Jobs <- MCJobs
  NoJob = "none"
  RefreshList <- MCRefreshList
  Garbled = "garbled"
  Quit = "QUIT"
  PipeCapacity = 2
  MaxBatch = 2
  MaxCommands = 2
  MaxSignals = 2
CHECK_DEADLOCK FALSE
INVARIANTS
  TypeOK
  TokenBalance
  NoStaleJob
  NoLostWakeup
  StopTokens
  RingConsistent
PROPERTIES
  SharedStateLive
  ImplementsFifo
