SPECIFICATION Spec
CONSTANTS
  hits = hits
  time = time
  Series <- MCSeries
  Kind <- MCKind
  Hash <- MCHash
  KeyBytes <- MCKeyBytes
  MetricBytes <- MCMetricBytes
  Size = 7
  Values = 2
  ValueBytes = 1
  ValueLen = 1
  Interval = 1
  MsecWrap = 3
  MaxLag = 0
  BufferSize = 4
  MaxStats = 4
PROPERTIES
  SentAfterRequest
CHECK_DEADLOCK FALSE
