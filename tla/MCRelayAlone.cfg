CONSTANTS
  r1 = r1
  c1 = c1
  c2 = c2
  None = None
  Rover = {r1}
  Controller = {c1, c2}
  Earlier = {}
  MayExit = {c1}
  GstreamerCli = {}
  SignInFirst = FALSE
  SleepSuffices = FALSE
  SocketCap = 1
  MaxSends = 2
SPECIFICATION FairSpec
INVARIANTS
  TypeOK
  Accounted
  InOrder
PROPERTIES
  Drains
CHECK_DEADLOCK FALSE
