CONSTANTS
  c1 = c1
  c2 = c2
  c3 = c3
  c4 = c4
  None = none
  Events = {"R"}
  DisableFirst = FALSE
  Channels <- MCChannels
  Fd <- MCFd
SPECIFICATION Spec
INVARIANT PollInv
PROPERTY ImplementsPoller
CHECK_DEADLOCK FALSE
