SPECIFICATION Spec
CONSTANTS
  Item <- MCItem
  MaxItems = 2
  RangePoints <- MCRangePoints
  BufSizes <- MCBufSizes
  ShortReads = {299}
  CutTo = {0}
  NewSizes = {512}
  MaxReplaced = 1
INVARIANTS Layout BytesFaithful CallExact OneVersionPerEntry
PROPERTIES ImplementsRangeReader EveryStepCounts StreamEnds
CHECK_DEADLOCK FALSE
