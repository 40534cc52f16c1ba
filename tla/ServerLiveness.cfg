CONSTANTS
  Fds = {1, 2, 3}
  ListenFd = 1
  Conns = {c1, c2, c3}
  Listener = Listener
  Absent = Absent
  NoFd = NoFd
  ClientKinds = {"read", "write"}
  HasRm = TRUE
  Replies = TRUE
  AddMayFail = FALSE
SPECIFICATION Spec
PROPERTIES HangUpIsReaped BacklogDrains
CHECK_DEADLOCK FALSE
