SPECIFICATION Spec
CONSTANTS
  http = http
  front = front
  back = back
  images = images
  Main = http
  Parent <- MCParent
  ServerArgs <- MCServerArgs
  MetricArgs <- MCMetricArgs
  OffWords = {"off"}
  Known = {"known"}
  MaxDirectives = 3
  MaxCalls = 2
  MaxTime = 2
PROPERTY
  PacedWithinWorker
CHECK_DEADLOCK FALSE
