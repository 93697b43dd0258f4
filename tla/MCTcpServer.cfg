CONSTANTS
  MaxClients = 3
  MaxThreads = 2
  MaxOthers = 1
  LastFd = 3
SPECIFICATION FairSpec
INVARIANTS ServerInv RoundRobin ServerAssertsHold
PROPERTIES ClientsAreAnswered ClosedIsFreed ServerDestructorReturns
CHECK_DEADLOCK FALSE
