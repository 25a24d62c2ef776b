SPECIFICATION Spec
CONSTANTS
  Messages = {m1, m2, m3}
  Poison = {m1}
  Concurrency = 2
  BatchMax = 2
INVARIANT DrainedBeforeReturn
CHECK_DEADLOCK FALSE
