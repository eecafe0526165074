SPECIFICATION Spec
CONSTANTS
  abrt = abrt
  term = term
  main = main
  aux = aux
  bg = bg
  None = None
  SIGABRT = abrt
  Signals = {abrt, term}
  kSignals = {abrt, term}
  Threads = {main, aux, bg}
  Worker = bg
  MaxCalls = 5
CHECK_DEADLOCK FALSE
INVARIANTS
  ReemittedToPreviousHandler
  OnlyItsOwnSignals
PROPERTIES
  CaughtSignalEndsProcess
