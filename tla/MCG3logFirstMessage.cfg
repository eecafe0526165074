SPECIFICATION SafeSpec
CONSTANTS
  t1 = t1
  t2 = t2
  w1 = w1
  w2 = w2
  h1 = h1
  m1 = m1
  m2 = m2
  f1 = f1
  f2 = f2
  None = None
  Warning = Warning
  Threads = {t1, t2}
  Workers = {w1, w2}
  Msgs = {m1, m2, f1}
  FatalMsgs = {f1}
  Hooks = {}
CHECK_DEADLOCK FALSE
INVARIANTS
  UninitializedNeverCrashes
