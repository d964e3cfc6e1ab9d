SPECIFICATION FairSpec
CONSTANTS
  WarmUnits = 1
  BaseLoad = 2
  OutageLoad = 1
  Load = 5
  Window = 2
  Deadline = 2
  IdleBudget = 4
  TailGrace = 4
  DefaultIdle = 2
  FirstByte = 3
  Timeout = 10
  Settle = 1
  Quiet = 1
  OutageQuiet = 2
  DrainCap = 2
  MaxLeftover = 1
  MaxRead = 2
  Modes <- BothModes
PROPERTIES
  ReachesVerdict
INVARIANTS
  RecoveredInTime
  NeverStoodStill
  GivesRoomToRecover
