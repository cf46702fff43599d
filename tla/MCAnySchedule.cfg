CONSTANTS
  r1 = r1
  c1 = c1
  c2 = c2
  c3 = c3
  None = None
  Rover = {r1}
  Controller = {c1, c2}
  Earlier <- MCEarlier
  MayExit = {r1, c1}
  GstreamerCli = {}
  SignInFirst = FALSE
  SleepSuffices = FALSE
  SocketCap = 2
SPECIFICATION Spec
INVARIANTS
  ClientsBalanced
  RequestBudget
  OneCopy
CHECK_DEADLOCK FALSE
