SPECIFICATION Spec
CONSTANTS
  w = w
  o = o
  s = s
  a = a
  b = b
  c = c
  Done = Done
  NoTask = NoTask
  Worker = w
  Owner = o
  Threads <- MCThreads
  Items <- MCItems
CHECK_DEADLOCK FALSE
INVARIANTS
  RunsInSendOrder
  ActiveInv
PROPERTIES
  EveryFutureCompletes
  ImplementsActiveObject
