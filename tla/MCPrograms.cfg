SPECIFICATION FairSpec
CONSTANTS
  Missing = Missing
  Bad = Bad
  None = None
  Files <- MCFiles
INVARIANTS
  QuietStart
  LoneRefusalForgiven
PROPERTIES
  StickLives
CHECK_DEADLOCK FALSE
