CONSTANTS
  Fds = {1, 2}
  ListenFd = 1
  Conns = {c1}
  Listener = Listener
  Absent = Absent
  NoFd = NoFd
  ClientKinds = {"read"}
  HasRm = TRUE
  Replies = TRUE
  AddMayFail = FALSE
SPECIFICATION Spec
INVARIANT ContextIsLive
CHECK_DEADLOCK FALSE
