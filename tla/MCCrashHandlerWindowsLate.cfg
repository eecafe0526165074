SPECIFICATION Spec
CONSTANTS
  t1 = t1
  t2 = t2
  bg = bg
  abrt = abrt
  segv = segv
  av = av
  cpp = cpp
  None = None
  Threads = {t1, t2}
  Worker = bg
  SharedSignals = {abrt}
  ThreadSignals = {segv}
  SIGABRT = abrt
  Known = {av}
  Unknown = {cpp}
  AccessViolation = av
  SignalOf <- MCSignalOf
  MaxEvents = 1
  MaxDepth = 2
  MaxInstalls = 0
CHECK_DEADLOCK FALSE
PROPERTY
  ExitsThroughTheSignal
