CONSTANTS
  Threads = {t1}
  Uses <- MCUses
  MaxSends = 2
  Lens = {2}
  HighWaterMark = 2
SPECIFICATION FairSpec
INVARIANTS OutputInv StreamIntact AssertsHold DownOnce
PROPERTIES ShutdownCompletes ClosedIsRemoved
CHECK_DEADLOCK FALSE
