SPECIFICATION FairSpec
CONSTANTS
  Runs = {r1}
  Values = {v1, v2}
  Nothing = Nothing
  Requests = {t1, t2}
  Worker = Worker
  NoThread = NoThread
  NoRun = NoRun
  Editable = TRUE
  MaxEdits = 2
  MaxCrashes = 1
  MaxFaults = 1
INVARIANTS
  NoOrphanSelection
PROPERTIES
  RestoredIntentFinishes
CHECK_DEADLOCK FALSE
