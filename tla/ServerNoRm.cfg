CONSTANTS
  Fds = {1, 2, 3}
  ListenFd = 1
  Conns = {c1, c2, c3}
  Listener = Listener
  Absent = Absent
  NoFd = NoFd
  ClientKinds = {"read", "write"}
  HasRm = FALSE
  Replies = FALSE
  AddMayFail = FALSE
SPECIFICATION Spec
PROPERTY HangUpIsReaped
CHECK_DEADLOCK FALSE
