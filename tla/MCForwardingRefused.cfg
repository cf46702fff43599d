SPECIFICATION Spec
CONSTANTS
  Missing = Missing
  Bad = Bad
  None = None
  Files <- MCFiles
INVARIANTS
  RefusalsForgiven
CHECK_DEADLOCK FALSE
