SPECIFICATION Spec
CONSTANTS
  WarmUnits = 1
  BaseLoad = 3
  OutageLoad = 1
  Load = 8
  Window = 2
  Deadline = 2
  IdleBudget = 4
  TailGrace = 4
  DefaultIdle = 2
  FirstByte = 4
  Timeout = 13
  Settle = 1
  Quiet = 1
  OutageQuiet = 2
  DrainCap = 2
  MaxLeftover = 1
  MaxRead = 2
  Modes <- LossOnly
INVARIANTS
  StillCarrying
