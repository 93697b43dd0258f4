CONSTANTS
  Threads = {t1, t2}
  Functors = {f1, f2, f3}
  Channels = {c1}
  Wakeup = wk
  QueueBeforeLoop = FALSE
SPECIFICATION FairSpec
INVARIANTS TypeOK FifoExactlyOnce NoLostWakeup
PROPERTIES ImplementsSerialExecutor PendingIsRun QuitEndsLoop
