SPECIFICATION Spec
CONSTANTS
  Window = 2
  PixPolys = 4
  PixShares = 1
  DefaultSurplus = 1
  MinSurplus = 1
  FieldMax = 5
  TargetRate = 1
  Runs <- SmallRuns
  KillPercent = 25
  MinShare = 30
  Lifetime <- SmallLifetime
  MaxScrapes = 1
  MaxEvictions = 1
  MaxWipes = 1
  MaxEarly = 3
  MaxBlind = 2
  MaxCycles = 2
INVARIANTS
  NeverRefused
  BurstSurvived
  PassMeansSurvived
PROPERTIES
  KillRemovesACarrier
  ScenarioEnds
