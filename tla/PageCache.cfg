SPECIFICATION Spec
CONSTANTS
  Workers = {w1, w2}
  Urls <- MCUrls
  ChunksOf <- MCChunksOf
  TextOf <- MCTextOf
  MemoryChunks = 2
  KeyFits <- MCKeyFits
  MaxVersion = 1
  MaxJobs = 3
  Absent = Absent
SYMMETRY WorkerSymmetry
CHECK_DEADLOCK FALSE
INVARIANTS
  TypeOK
  WholePages
  NothingOldSurvives
PROPERTY StoresWhatWasAskedFor
