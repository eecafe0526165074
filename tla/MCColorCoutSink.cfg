SPECIFICATION Spec
CONSTANTS
  k1 = k1
  k2 = k2
  Sinks = {k1, k2}
  Streams <- MCStreams
  Schemes <- MCSchemes
  K_DEFAULT_SETTINGS <- MCDefault
  Entries <- MCEntries
  ConsoleColours <- MCColours
  MaxCalls = 2
  MaxMessageSize = 3
  Nul = Nul
  Nl = Nl
  None = None
SYMMETRY MCSymmetry
INVARIANTS
  ShownAsAsked
  PrintedWhole
  ConsoleRestored
CHECK_DEADLOCK FALSE
