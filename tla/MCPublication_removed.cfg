SPECIFICATION FairSpec
CONSTANTS
  Runs = {r1}
  Values = {v1}
  Nothing = Nothing
  Requests = {t1}
  Worker = Worker
  NoThread = NoThread
  NoRun = NoRun
  Editable = TRUE
  MaxEdits = 2
  MaxCrashes = 0
  MaxFaults = 0
PROPERTIES
  IntentFinishes
CHECK_DEADLOCK FALSE
