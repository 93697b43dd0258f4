CONSTANTS
  Addrs = {1, 3}
  Sentry = 2
  Whens = {0, 3}
  Deltas = {0, 1}
  MaxClock = 3
  MaxTimers = 2
  MaxOps = 2
SPECIFICATION FairSpec
INVARIANTS TimerInv ArmedInTime
PROPERTIES CancelHitsItsTimer DueTimerRuns
CHECK_DEADLOCK FALSE
