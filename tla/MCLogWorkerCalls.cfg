SPECIFICATION Spec
CONSTANTS
  c1 = c1
  c2 = c2
  k1 = k1
  k2 = k2
  m1 = m1
  m2 = m2
  Clients = {c1, c2}
  Owner = c1
  Worker = Worker
  Sinks = {k1}
  Msgs = {m1}
  None = None
  Crashing = {k1}
  MaxCalls = 2
CHECK_DEADLOCK FALSE
INVARIANTS
  OwnedIffAlive
  FlushedWhenDestroyed
  RemovalIsSynchronous
PROPERTIES
  CallsReturn
  FatalExits
