CONSTANTS
  Fds = {1, 2, 3}
  ListenFd = 1
  Conns = {c1, c2, c3}
  Listener = Listener
  Absent = Absent
  NoFd = NoFd
  ClientKinds = {"read"}
  HasRm = TRUE
  Replies = TRUE
  AddMayFail = TRUE
  MaxSetups = 4
SPECIFICATION SetupSpec
INVARIANTS ClientsOwnTheirFds PendingEventsLive AcceptNeverBlocks ReadyServerIsHeard
SYMMETRY SetupInterchangeable
CHECK_DEADLOCK FALSE
