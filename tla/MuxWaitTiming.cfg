CONSTANTS
  Counts = {0, 1}
  Timeouts <- TimedOrForever
  OutPointers = {TRUE, FALSE}
  Latency = 1
  MaxSignals = 2
  MaxTime = 16
  Scale = 2
  Width = 16
SPECIFICATION Spec
INVARIANTS TypeOK TimeoutMeansExpired SleepLastsItsTime
PROPERTIES TimedWaitReturns EventEndsWait
CHECK_DEADLOCK FALSE
