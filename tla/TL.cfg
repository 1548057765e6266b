SPECIFICATION Spec
CONSTANTS
  MCLens = {0, 3, 252, 253, 254, 255}
  MCMaxKeys = 1
  MCMaxValues = 3
  Stats <- MCStats
  MaxStats = 2
INVARIANTS
  LengthExact
  Aligned
  RoundTrip
CHECK_DEADLOCK FALSE
