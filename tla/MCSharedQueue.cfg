SPECIFICATION QSpec
CONSTANTS
  t1 = t1
  t2 = t2
  t3 = t3
  a = a
  b = b
  c = c
  Threads <- MCThreads
  Items <- MCItems
INVARIANTS
  WakeupsCoverItems
  Fifo
PROPERTIES
  NoThreadLeftWaiting
