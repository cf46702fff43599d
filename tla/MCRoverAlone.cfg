CONSTANTS
  r1 = r1
  r2 = r2
  c1 = c1
  None = None
  Rover = {r1, r2}
  Controller = {c1}
  Earlier <- MCEarlier
  MayExit = {r1}
  GstreamerCli = {r2}
  SignInFirst = FALSE
  SleepSuffices = FALSE
  SocketCap = 1
  Self = r1
  MaxRequests = 3
SPECIFICATION FairSpec
INVARIANTS
  TypeOK
  RoverBalanced
PROPERTIES
  Supervised
  Settles
  DiesOnlyWhileEnding
CHECK_DEADLOCK FALSE
