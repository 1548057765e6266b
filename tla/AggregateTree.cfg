SPECIFICATION TreeFairSpec
CONSTANTS
  errors = errors
  hits = hits
  time = time
  size = size
  users = users
  Series <- MCSeries
  Kind <- MCKind
  Hash <- MCHash
  KeyBytes <- MCKeyBytes
  Size = 5
  Values = 1
  ValueBytes = 1
  Interval = 0
  MsecWrap = 1
  MaxLag = 0
  MaxStats = 4
INVARIANTS
  TreeExact
PROPERTIES
  AggregateImplemented
  HeldLeaves
CHECK_DEADLOCK FALSE
