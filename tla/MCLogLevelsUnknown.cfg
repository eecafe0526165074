SPECIFICATION Spec
CONSTANTS
  Levels <- MCLevels
  Defaults <- MCDefaults
  INFO = 3
  None = None
PROPERTIES
  SetHighestAsDocumented
