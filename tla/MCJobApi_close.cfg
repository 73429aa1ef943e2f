SPECIFICATION Spec
CONSTANTS
  Ids = {j1, j2}
  NoJob = NoJob
  MaxReaders = 1
  MaxFaults = 0
SYMMETRY IdSymmetry
INVARIANTS
  LockCoversUse
PROPERTIES
  InterruptsOwn
CHECK_DEADLOCK FALSE
