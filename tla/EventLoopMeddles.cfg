CONSTANTS
  Events = {e1}
  Timers = {t1}
  Pipe = p
  Fds <- MCFds
  Objs <- MCFds
  HandlersOf <- MCHandlersOf
  Absent = Absent
  MaxValue = 2
  Meddles = TRUE
  MessageLen = 2
  PipeSize = 3
  EofFlags = {"clear"}
  Interrupts = TRUE
SPECIFICATION LoopSpec
INVARIANT LoopNeverBlocks
