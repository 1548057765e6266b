SPECIFICATION Spec
CONSTANTS
  Series <- MCSeries
  Kind <- MCKind
  Hash <- MCHash
  KeyBytes <- MCKeyBytes
  Size = 12
  Values = 2
  ValueBytes = 1
  Interval = 1
  MsecWrap = 5
  MaxLag = 1
  MaxStats = 2
INVARIANTS
  SeriesPure
CHECK_DEADLOCK FALSE
