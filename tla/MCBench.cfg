SPECIFICATION BFairSpec
CONSTANTS
  w1 = w1
  w2 = w2
  Workers = {w1, w2}
  MaxTicks = 5
  Configs <- MCConfigs
  TestDuration = 2
  TotalCount = 2
  MaxSamples = 1
INVARIANT TypeOK
INVARIANT BTypeOK
INVARIANT TokensConserved
INVARIANT ResultIsComplete
INVARIANT SwapIsInLoad
INVARIANT NothingIsRunningWhenCollected
INVARIANT NothingIsLeft
PROPERTY BTerminates
