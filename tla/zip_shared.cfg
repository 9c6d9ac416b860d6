SPECIFICATION Spec
CONSTANTS
  r1 = r1
  r2 = r2
  Reader = {r1, r2}
  Item <- MCItemShared
  MaxItems = 1
  U32_MAX = 200
  U16_MAX = 2
  RangePoints <- MCRangePointsShared
  BufSizes = {4096}
  ShortReads = {}
  CrcEnabled = TRUE
  CrcBuffer = 25
  NewSizes = {30, 40}
  MaxChanges = 1
  IoErrors = TRUE
INVARIANTS CrcAgrees BusyHasReader
PROPERTY StreamEnds
CHECK_DEADLOCK FALSE
