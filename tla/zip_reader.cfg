SPECIFICATION Spec
CONSTANTS
  r1 = r1
  r2 = r2
  Reader = {r1}
  Item <- MCItem
  MaxItems = 2
  U32_MAX = 200
  U16_MAX = 1
  RangePoints <- MCRangePoints
  BufSizes = {50, 4096}
  ShortReads = {7}
  CrcEnabled = TRUE
  CrcBuffer = 128
  NewSizes = {0, 40}
  MaxChanges = 1
  IoErrors = TRUE
INVARIANTS LengthsAgree Decodable BytesFaithful CallExact IntactServed
PROPERTIES ImplementsRangeReader EveryStepCounts
CHECK_DEADLOCK FALSE
