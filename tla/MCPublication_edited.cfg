SPECIFICATION Spec
CONSTANTS
  Runs = {r1}
  Values = {v1, v2}
  Nothing = Nothing
  Requests = {t1}
  Worker = Worker
  NoThread = NoThread
  NoRun = NoRun
  Editable = TRUE
  MaxEdits = 4
  MaxCrashes = 0
  MaxFaults = 0
PROPERTIES
  KeepsNewer
CHECK_DEADLOCK FALSE
