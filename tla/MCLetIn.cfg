SPECIFICATION Spec
CONSTANTS
  MaxCalls = 2
  MaxTaps = 0
PROPERTIES
  UserIsLetIn
CHECK_DEADLOCK FALSE
