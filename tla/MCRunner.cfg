SPECIFICATION FairSpec
CONSTANTS
  Requests <- FourRuns
  Scenarios = {"survives", "two_hop", "spread"}
  TwoHop = {"two_hop"}
  Spread = "spread"
  MaxSignals = 2
INVARIANTS
  TypeOK
  ManifestRestored
  SuiteOnItsLine
  GreenIsGreen
  NoChainLeft
PROPERTIES
  RunEnds
