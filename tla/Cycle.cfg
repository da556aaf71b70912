SPECIFICATION Spec
CONSTANTS
  Gap = 2
  Hold = 2
  Release = 2
  MaxNow = 4
  Horizon = 3
  StaleAfter = 2
  FreshFor = 1
  Samples <- MCSamples
  Offers <- MCOffers
INVARIANTS
  CooldownsHold
  LockdownsEnd
  NoTradeRootsDoNotOverlap
PROPERTIES
  ConfirmedByTheCycleBefore
CHECK_DEADLOCK FALSE
