SPECIFICATION Spec
CONSTANTS
  Path = {p, q}
  POLL_INTERVAL = 1
  debounce = 2
  MAX_DEBOUNCE_WINDOW = 3
  MaxQueued = 2
INVARIANT NotForgotten
PROPERTIES ChangesReachCache DropReturns
