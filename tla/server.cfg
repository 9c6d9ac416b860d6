SPECIFICATION ServerSpec
CONSTANTS
  Me = Me
  o1 = o1
  o2 = o2
  Request <- MCRequest
  Queries <- MCQueries
  Totals <- MCTotals
  U64_MAX = 7
  Env <- MCEnv
  Default <- MCDefault
  MaxLength = 5
  MIN_STREAM_READ_BUFFER_SIZE = 2
  STREAM_CHANNEL_CAPACITY = 2
  WaitsAtCut = FALSE
INVARIANTS InFlight MemoryBounded ResponseHonest NobodyCutOff
PROPERTIES ClientSeesRange DisconnectReleases ImplementsStream TaskServed Answered ShutdownEnds
CHECK_DEADLOCK FALSE
