SPECIFICATION FairSpec
CONSTANTS
  Ids = {j1}
  NoJob = NoJob
  MaxReaders = 2
  MaxFaults = 2
INVARIANTS
  TypeOK
  RemovalExcludesUse
  GoneLeavesNothing
  LeaseHeld
  SettledFiles
  StartedOnce
PROPERTIES
  SubmissionSettles
  EveryJobLeaves
CHECK_DEADLOCK FALSE
