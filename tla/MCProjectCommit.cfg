CONSTANTS
  Cards = {c1, c2}
  Canvas = canvas
  Clients = {a, b}
  NoClient = nobody
  MaxVersions = 2
  MaxFaults = 2
SPECIFICATION FairSpec
INVARIANTS
  TypeOK
PROPERTIES
  StoreSpec
  ForeignEditStops
  
  CommitFinishes
CHECK_DEADLOCK FALSE
