CONSTANTS
  c1 = c1
  c2 = c2
  c3 = c3
  None = none
  Events = {"R", "W"}
  DisableFirst = TRUE
  Channels <- MCChannels
  Fd <- MCFd
SPECIFICATION EPollSpec
INVARIANT EPollInv
PROPERTY EPollImplementsPoller
CHECK_DEADLOCK FALSE
