SPECIFICATION FairSpec
CONSTANTS
  hits = hits
  time = time
  Series <- MCSeries
  Kind <- MCKind
  Hash <- MCHash
  KeyBytes <- MCKeyBytes
  MetricBytes <- MCMetricBytes
  Size = 5
  Values = 2
  ValueBytes = 1
  ValueLen = 1
  Interval = 1
  MsecWrap = 3
  MaxLag = 0
  BufferSize = 4
  MaxStats = 3
INVARIANTS
  TypeOK
  ExactlyOnce
  FlushedAtOnce
PROPERTIES
  LostForCause
  SentOrHeld
  DeliverySpec
  StatLeaves
CHECK_DEADLOCK FALSE
