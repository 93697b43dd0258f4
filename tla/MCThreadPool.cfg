CONSTANTS
  Workers = {w1, w2}
  Producers = {p1, p2}
  Tasks = {a, b, c, d}
  maxQueueSize = 2
SPECIFICATION FairSpec
INVARIANT PoolInv
PROPERTIES TaskIsTaken ProducerGetsRoom StopReturns
CHECK_DEADLOCK FALSE
