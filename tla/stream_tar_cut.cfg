SPECIFICATION Spec
CONSTANTS
  Env <- MCEnv
  Default <- MCDefault
  MaxLength = 9
  MIN_STREAM_READ_BUFFER_SIZE = 2
  STREAM_CHANNEL_CAPACITY = 2
  WaitsAtCut = TRUE
PROPERTY DisconnectReleases
CHECK_DEADLOCK FALSE
