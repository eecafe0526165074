SPECIFICATION Spec
CONSTANTS
  Header = Header
  Note = Note
  Change = Change
  Refusal = Refusal
  Bye = Bye
  Date <- MCDate
  Decimal <- MCDecimal
  Starts <- MCStarts
  Changes <- MCChanges
  Sizes <- MCSizes
  Counts <- MCCounts
  Policies <- MCPolicies
  Filters <- MCFilters
  LogPrefixes <- MCPrefixes
  Dirs <- MCDirs
  Ids <- MCIds
  MaxMessages = 5
  MaxNum = 2
  MaxClock = 1
  MaxStarts = 2
  MaxCalls = 1
INVARIANTS
  NothingLost
  FlushPolicyKept
  WritesThrough
PROPERTIES
  LimitKept
  RotatesOutOfErrors
  NewestStay
