CONSTANTS
  r1 = r1
  c1 = c1
  c2 = c2
  c3 = c3
  None = None
  Rover = {r1}
  Controller = {c1}
  Earlier = {}
  MayExit = {}
  GstreamerCli = {}
  SignInFirst = TRUE
  SleepSuffices = TRUE
  SocketCap = 2
SPECIFICATION FairSpec
PROPERTIES
  NewSDPRestarts
CHECK_DEADLOCK FALSE
