SPECIFICATION HistorySpec
CONSTANTS
  t1 = t1
  t2 = t2
  None = None
  Thread <- MCThread
  Path <- MCPath
  Source <- MCRoot
  MaxVersion = 1
  Repeats = FALSE
  Misses = TRUE
  MaxCapacity = 1
  PruneFactor = 0
  PruneFloor = 0
INVARIANTS WaitersServed NeverOlder
PROPERTY RequestsReturn
