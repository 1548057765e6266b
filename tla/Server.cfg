SPECIFICATION Spec
CONSTANTS
  BufferSize = 5
  FlushInterval = 2
  MsecWrap = 7
  MaxLag = 1
  Sizes = {2, 3, 6}
  MaxMetrics = 4
INVARIANTS
  TypeOK
  BufferFits
  FlushArmed
  WaitsNoLonger
  NoSocketAfterQuit
  AtMostOnce
PROPERTIES
  DropsForCause
CHECK_DEADLOCK FALSE
