CONSTANTS
  r1 = r1
  c1 = c1
  None = None
  Rover = {r1}
  Controller = {c1}
  Earlier = {}
  MayExit = {c1}
  GstreamerCli = {c1}
  SignInFirst = FALSE
  SleepSuffices = FALSE
  SocketCap = 1
  Self = c1
  Peer = r1
  MaxOffers = 3
SPECIFICATION FairSpec
INVARIANTS
  TypeOK
  ControllerBalanced
  OffersKept
PROPERTIES
  Supervised
  PutBackEnds
CHECK_DEADLOCK FALSE
