CONSTANTS
  Addrs = {1, 3}
  Sentry = 2
  Whens = {0, 2}
  Deltas = {0, 1}
  MaxClock = 3
  MaxTimers = 2
  MaxOps = 1
SPECIFICATION Spec
INVARIANT AddTimerThreadSafe
CHECK_DEADLOCK FALSE
