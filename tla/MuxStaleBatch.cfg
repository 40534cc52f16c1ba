CONSTANTS
  Fds <- MCFds
  Objs <- MCObjs
  FdOf <- MCFdOf
  HandlersOf <- MCHandlersOf
  Absent = Absent
  Conditions = {"read", "hangup", "error"}
  Threadpools = {FALSE}
  Disciplined = TRUE
  NEvents = 2
  MaxCount = 4
SPECIFICATION MuxAppSpec
PROPERTY NoCallbackAfterRm
CHECK_DEADLOCK FALSE
