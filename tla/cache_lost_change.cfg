SPECIFICATION Spec
CONSTANTS
  t1 = t1
  t2 = t2
  None = None
  Thread <- MCThread
  Path <- MCPath
  Source <- MCRoot
  MaxVersion = 1
  Repeats = FALSE
  Misses = FALSE
  MaxCapacity = 1
  PruneFactor = 0
  PruneFloor = 0
INVARIANT CoherentWhenQuiet
