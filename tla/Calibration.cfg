SPECIFICATION Spec
CONSTANTS
  MinSamples = 2
  FeatureSamples = 6
  Returns <- MCReturns
  MaxNow = 6
  MaxRoots = 8
  Batches <- MCBatches
  Horizon = 1
  Retention = 4
  RefitInterval = 2
  CensoredPercent = 20
INVARIANTS
  ProvenOnTheFuture
  CohortsAreMostNumerous
PROPERTIES
  ActionableCoversTheCohort
  GlobalNegativeIsKept
CHECK_DEADLOCK FALSE
