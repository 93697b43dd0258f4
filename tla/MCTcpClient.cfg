SPECIFICATION FairSpec
CONSTANTS
  Fds = {1, 2, 3}
  None = None
  kInitRetryDelayMs = 2
  kMaxRetryDelayMs = 7
  Retry = TRUE
  CallsIn = {"loop", "other"}
  Connects = 1  Stops = 1  Disconnects = 1  ForceCloses = 1  Destroys = 1
INVARIANTS ClientInv OneAttempt StopIsFinal
PROPERTY KeepsTrying
CHECK_DEADLOCK FALSE
