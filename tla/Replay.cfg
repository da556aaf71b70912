CONSTANTS
  Lower = 4
  Step = 2
  GridCount = 3
  KsLower = 2
  KsUpper = 12
  GridFee = 1
  MarketFee = 2
  Scale = 100
  Below = 3
  Above = 9
  Bots <- MCBots
  Prices = {1, 3, 5, 6, 7, 9, 11, 13}
  Volumes = {1, 9}
  Rates = {"none", "missing", "longs"}
  Evidence = {"candle", "trades", "mismatch"}
  Minutes = 2
  MaxTrades = 3
SPECIFICATION ReplaySpec
INVARIANTS
  LabelMatchesTape
  LabelNamesTheFirstTouch
  PositionWithinCommitment
  StopWithinStress
CHECK_DEADLOCK FALSE
