SPECIFICATION Spec
CONSTANTS
  Ids = {j1}
  NoJob = NoJob
  MaxReaders = 1
  MaxFaults = 0
INVARIANTS
  FailureIsReported
CHECK_DEADLOCK FALSE
