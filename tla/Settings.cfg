SPECIFICATION Spec
CONSTANTS
  Configs <- MCConfigs
  Servers <- MCServers
  LongServers <- MCLongServers
  MaxWorkers = 3
  DefaultWorkers = 2
  MaxContention = 3
  DefaultContention = 1
  MaxPrefix = 4
  DefaultPrefix = 2
  DefaultExpiration = 5
  RandMax = 12
  Absent = Absent
  Incomplete = Incomplete
  Overlong = Overlong
  Null = Null
\* The program ends.
CHECK_DEADLOCK FALSE
INVARIANTS
  TypeOK
  UsesConfiguredServers
  FreedOnce
  DelayBounded
  OnlyBadSettings
