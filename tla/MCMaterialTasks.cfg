SPECIFICATION FairDrawnSpec
CONSTANTS
  o1 = o1
  o2 = o2
  a = a
  b = b
  c = c
  x = x
  y = y
  Ops = {o1, o2}
  Mats = {a, b}
  NoMat = NoMat
  Free = Free
  Plan <- PlanChain
  Needs <- NeedsChain
  Circle = Circle
  NoCanvas = NoCanvas
  Canvases <- SmallCanvases
  MaxTasks = 5
  MaxEdits = 1
  MaxEvents = 1
INVARIANTS
  TypeOK
  OneAtATime
  SuccessIsEarned
  NothingLeft
  CirclesRefused
  DependenciesFirst
  InterfaceOrder
PROPERTIES
  ReadsRefreshed
  ManualChoiceKept
  InterruptHolds
  OutcomeStays
  OperationsEnd
CHECK_DEADLOCK FALSE
