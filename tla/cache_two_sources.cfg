SPECIFICATION Spec
CONSTANTS
  t1 = t1
  t2 = t2
  None = None
  Thread <- MCThread
  Path <- MCPath
  Source <- MCPath
  MaxVersion = 1
  Repeats = FALSE
  Misses = TRUE
  MaxCapacity = 2
  PruneFactor = 0
  PruneFloor = 1
INVARIANT StaleAccounted
PROPERTY OnlyUnregisterLosesTrack
SYMMETRY Symmetry
