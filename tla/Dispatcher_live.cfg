SPECIFICATION FairSpec
CONSTANTS
  Workers = {w1, w2}
  Capacity = 1
  Jobs <- MCJobs
  NoJob = "none"
  RefreshList <- MCRefreshList
  Garbled = "garbled"
  Quit = "QUIT"
  PipeCapacity = 2
  MaxBatch = 2
  MaxCommands = 2
  MaxSignals = 2
CHECK_DEADLOCK FALSE
PROPERTIES
  TerminationOrStuck
  JobsDrain
