SPECIFICATION Spec
CONSTANTS
  MCShort = 3
  MCLength = 4
  Confs <- MCConfs
  Requests <- MCRequests
  SplitsMax = 3
  MaxTime = 5
INVARIANTS
  TypeOK
  StatsExact
  WithinSplits
PROPERTIES
  Paced
CHECK_DEADLOCK FALSE
