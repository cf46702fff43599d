CONSTANTS
  SignalCap = 1
  Sessions = 2
SPECIFICATION FairSpec
INVARIANTS
  TypeOK
  OwnTracks
  NoLateWrite
PROPERTIES
  CameraTakenOnlyEarly
  EndingEnds
  VideoFlows
CHECK_DEADLOCK FALSE
