CONSTANTS
  None = None
  Report <- MCReport
  StickData <- MCStickData
  Sessions = 2
  WireCap = 1
  UdpCap = 1
SPECIFICATION FairSpec
INVARIANTS
  TypeOK
  SessionOrder
PROPERTIES
  DriverFollows
  EndOfSessionIsFatal
CHECK_DEADLOCK FALSE
