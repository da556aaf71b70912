SPECIFICATION FairSpec
CONSTANTS
  Recs = {1, 2}
  Events = {1, 2}
  Workers = {1, 2}
  Shapes <- MCShapes
  ProcessLimit = 1
  FetchLimit = 1
  JobLimit = 1
  Overlap = 0
  MaxFaults = 1
  Stalls = FALSE
INVARIANTS
  LedgerMatchesOutcomes
  OutcomesCountFunding
PROPERTIES
  OutcomesStand
  EveryRowIsFinished
