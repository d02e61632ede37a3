SPECIFICATION Spec
CONSTANTS
  MaxStack = 3
  MaxArgs = 2
PROPERTY CallGivesItsResults
CHECK_DEADLOCK FALSE
