SPECIFICATION FairSpec
CONSTANTS
  Messages = {m1, m2, m3}
  Poison = {m1}
  Concurrency = 2
  BatchMax = 2
INVARIANTS TypeOK SemaphoreCounts CleanStop ShutdownLosesNothing
PROPERTIES ImplementsDelivery
CHECK_DEADLOCK FALSE
