CONSTANTS
  r1 = r1
  c1 = c1
  c2 = c2
  c3 = c3
  None = None
  Rover = {r1}
  Controller = {c1, c2, c3}
  Earlier <- MCEarlier
  MayExit = {c1, c2}
  GstreamerCli = {}
  SignInFirst = TRUE
  SleepSuffices = TRUE
  SocketCap = 1
SPECIFICATION FairSpec
INVARIANTS
  TypeOK
  MisledByThePast
PROPERTIES
  Meets
  RequestsSettle
CHECK_DEADLOCK FALSE
