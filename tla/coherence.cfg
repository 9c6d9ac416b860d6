SPECIFICATION CoherenceSpec
CONSTANTS
  Thread = {t1}
  Path <- OnePath
  Source <- OnePath
  None = None
  MaxVersion = 2
  Repeats = TRUE
  Misses = TRUE
  MaxCapacity = 1
  PruneFactor = 1
  PruneFloor = 0
  POLL_INTERVAL = 1
  debounce = 1
  MAX_DEBOUNCE_WINDOW = 2
  MaxQueued = 2
INVARIANT NothingLeftBehind
PROPERTIES CacheSteps WatcherSpec StaleVisibleGoes
