SPECIFICATION DrawnSpec
CONSTANTS
  o1 = o1
  o2 = o2
  a = a
  b = b
  c = c
  x = x
  y = y
  Ops = {o1, o2}
  Mats = {a, b}
  NoMat = NoMat
  Free = Free
  Plan <- PlanApart
  Needs <- NeedsCircle
  Circle = Circle
  NoCanvas = NoCanvas
  Canvases = {}
  MaxTasks = 5
  MaxEdits = 0
  MaxEvents = 0
INVARIANTS
  NoCircle
CHECK_DEADLOCK FALSE
