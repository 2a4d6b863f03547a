\* glibc has a slot to spare for one, two and four pointers, not for three.
SPECIFICATION Spec
CONSTANTS
  Kinds <- MCKinds
  Pages <- MCPages
  CacheNames <- MCNames
  LongNames = {"long"}
  MaxFiles = 4
  MaxUrls = 2
  Slack = {1, 2, 4}
  Refused = Refused
  Misquoted = Misquoted
  Incomplete = Incomplete
  Overlong = Overlong
  Null = Null
  Junk = Junk
  NoList = NoList
\* The program ends.
CHECK_DEADLOCK FALSE
INVARIANTS
  TypeOK
  OnlyKnownMisuse
  UpdatesAsConfigured
