SPECIFICATION FairSpec
CONSTANTS
  Ceiling = 1
  Tolerance = 0
  Scenarios = 2
  MaxUseful = 2
  MaxSurplus = 3
  MaxSamples = 4
INVARIANTS
  RunIsOwn
  FragmentedIsOwn
PROPERTIES
  TraceIsCollected
