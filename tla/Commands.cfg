SPECIFICATION Spec
CONSTANTS
  Chars <- MCChars
  Lines <- MCLines
  Caches <- MCCaches
  Words <- MCWords
  Junk <- MCJunk
  BufferSize = 7
  MaxKey = 5
  PrefixLength = 1
  LogSize = 6
  Text <- MCText
  MaxLines = 2
\* A write past a buffer ends the model, and the lines are used up.
CHECK_DEADLOCK FALSE
INVARIANTS
  TypeOK
  Understood
  RefreshReachesCache
  NamesLastWord
  OverrunsAtKnownLengths
