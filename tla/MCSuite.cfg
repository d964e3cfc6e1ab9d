SPECIFICATION FairSpec
CONSTANTS
  DefaultSize = 1
  MinSize = 1
  MaxSize = 2
  Binaries <- TwoBinaries
INVARIANTS
  EveryNodeWasReady
  SuiteCleansUp
PROPERTIES
  SuitesEnd
