CONSTANTS
  Counts = {0}
  Timeouts <- LongTimeouts
  OutPointers = {TRUE}
  Latency = 1
  MaxSignals = 0
  MaxTime = 16
  Scale = 2
  Width = 16
SPECIFICATION Spec
INVARIANT SleepLastsItsTime
