CONSTANTS
  Fds <- MCFds
  Objs <- MCObjs
  FdOf <- MCFdOf
  HandlersOf <- MCHandlersOf
  Absent = Absent
  Conditions = {"read", "hangup", "error"}
  Threadpools = {TRUE}
  Disciplined = TRUE
  NEvents = 2
  MaxCount = 4
SPECIFICATION MuxAppSpec
PROPERTY EveryEventHandled
CHECK_DEADLOCK FALSE
