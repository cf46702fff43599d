CONSTANTS
  r1 = r1
  r2 = r2
  c1 = c1
  None = None
  Rover = {r1}
  Controller = {c1}
  Earlier <- MCEarlier
  MayExit = {}
  GstreamerCli = {r1}
  SignInFirst = FALSE
  SleepSuffices = TRUE
  SocketCap = 1
  Self = r1
  MaxRequests = 2
SPECIFICATION Spec
INVARIANTS
  RestartKeepsProcess
CHECK_DEADLOCK FALSE
