CONSTANTS
  Owner = o
  Threads = {o}
  Functors = {f1, f2}
  Channels = {c1}
  Wakeup = wk
  QueueBeforeLoop = TRUE
SPECIFICATION TSpec
INVARIANT ThreadInv
PROPERTIES StartLoopReturns DestructorReturnsFromLoop
CHECK_DEADLOCK FALSE
