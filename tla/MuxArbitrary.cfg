CONSTANTS
  Fds <- MCFds
  Objs <- MCObjs
  FdOf <- MCFdOf
  HandlersOf <- MCHandlersOf
  Absent = Absent
  Conditions = {"read", "hangup", "error"}
  Threadpools = {TRUE, FALSE}
  Disciplined = FALSE
  NEvents = 2
  MaxCount = 4
SPECIFICATION MuxAppSpec
INVARIANTS MuxTypeOK CountCoversRegistered
CHECK_DEADLOCK FALSE
