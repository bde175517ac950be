CONSTANTS
  Elements = {1, 2}
  MaxRows = 5
  Limit = 7
  Unmapped = 0
  NotAccepted = 99
  BlockSizes = {1, 2, 3}
  Tile = 2
SPECIFICATION BatchSpec
INVARIANTS LanesCurrent PrefixWritten FirstFailureReported
PROPERTY ImplementsRowByRow
