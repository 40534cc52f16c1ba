CONSTANTS
  N = 2
  Jobs <- MCJobs
  NoJob = NoJob
  Child <- Children
  MaxMsg = 3
  CreateMayFail = FALSE
  MaxInterrupts = 0
  MaxRounds = 1
SPECIFICATION Spec
PROPERTY JoinAlwaysReturns
CHECK_DEADLOCK FALSE
