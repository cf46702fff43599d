CONSTANTS
  None = None
  StickData <- MCStickData
SPECIFICATION DriverSpec
INVARIANTS
  DriverTypeOK
  Settled
  PulseBounded
  TurnBounded
PROPERTIES
  TornPulseNear
  Actuates
CHECK_DEADLOCK FALSE
