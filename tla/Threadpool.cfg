CONSTANTS
  N = 2
  Jobs <- MCJobs
  NoJob = NoJob
  Child <- Children
  MaxMsg = 3
  CreateMayFail = TRUE
  MaxInterrupts = 1
  MaxRounds = 2
SPECIFICATION Spec
INVARIANTS TypeOK EveryThreadGetsAStop
PROPERTIES KeepsPromise JoinReturns QueuedJobBegins
CHECK_DEADLOCK FALSE
