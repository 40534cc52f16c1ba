CONSTANTS
  Threads = {t1, t2}
  Reporters = {t1}
  Handlers = {h1}
  Chatty = {}
  None = None
  Size = 6
  LogRoom = 4
  CountWidth = 3
  Lengths = {1, 3, 6}
  MaxAdds = 3
  Masks <- MCMasks
  LogLevels = {"ERR"}
  InstallLate = TRUE
SPECIFICATION Spec
INVARIANT HandlerGetsItsContext
