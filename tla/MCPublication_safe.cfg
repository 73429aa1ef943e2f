SPECIFICATION Spec
CONSTANTS
  Runs = {r1, r2}
  Values = {v1, v2}
  Nothing = Nothing
  Requests = {t1, t2}
  Worker = Worker
  NoThread = NoThread
  NoRun = NoRun
  Editable = FALSE
  MaxEdits = 2
  MaxCrashes = 1
  MaxFaults = 0
SYMMETRY PublicationSymmetry
INVARIANTS
  TypeOK
  PublishedOnce
PROPERTIES
  KeepsNewer
  IntentKept
  TruthfulVerdict
  SlotSpec
CHECK_DEADLOCK FALSE
