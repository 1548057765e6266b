SPECIFICATION Spec
CONSTANTS
  http = http
  front = front
  back = back
  images = images
  Main = http
  Parent <- MCParent
  ServerArgs <- MCOffServerArgs
  MetricArgs <- MCMetricArgs
  OffWords = {"off", "offshore"}
  Known = {"known"}
  MaxDirectives = 3
  MaxCalls = 2
  MaxTime = 2
INVARIANT
  ServerAsWritten
CHECK_DEADLOCK FALSE
