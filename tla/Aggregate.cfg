SPECIFICATION Spec
CONSTANTS
  errors = errors
  hits = hits
  time = time
  size = size
  Series <- MCSeries
  Kind <- MCKind
  Hash <- MCHash
  KeyBytes <- MCKeyBytes
  Size = 8
  Values = 2
  ValueBytes = 1
  Interval = 1
  MsecWrap = 5
  MaxLag = 1
  MaxStats = 4
INVARIANTS
  TypeOK
  ArenaSafe
  IndexExact
  SeriesPure
  ValuesBounded
  Conserved
  SeriesOrder
  TimerCovers
  HoldsNoLonger
  EmptyArenaServes
PROPERTIES
  LeavesOnTime
CHECK_DEADLOCK FALSE
