SPECIFICATION Spec
CONSTANTS
  MaxStack = 3
  MaxArgs = 2
INVARIANT TypeOK
PROPERTY OwnValuesKept
CHECK_DEADLOCK FALSE
