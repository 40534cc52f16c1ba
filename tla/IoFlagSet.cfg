CONSTANTS
  Events = {e1}
  Timers = {t1}
  Pipe = p
  Fds <- MCFds
  Objs <- MCFds
  HandlersOf <- MCHandlersOf
  Absent = Absent
  MaxValue = 2
  Meddles = FALSE
  MessageLen = 2
  PipeSize = 3
  EofFlags = {"set"}
  Interrupts = TRUE
SPECIFICATION LoopSpec
INVARIANT MessagesWhole
