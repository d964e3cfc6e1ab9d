SPECIFICATION FairSpec
CONSTANTS
  MaxSize = 3
  Sizes = {2, 3}
  MinPeers = 2
  Networks = {TRUE, FALSE}
  RotseeTarget = 1
  Exit = 0
  Binaries = 2
  Boots = 2
INVARIANTS
  PortIsFree
  GateMeansUsable
  TargetsAreLive
PROPERTIES
  NeverCloses
  SetupEnds
