CONSTANTS
  b1 = b1
  b2 = b2
  Bots <- MCBots
  Trades <- MCTrades
  Events <- MCEvents
  Snaps <- MCSnaps
  BotOf <- MCBotOf
  Net <- MCNet
  Side <- MCSide
  Covers <- MCCovers
  Clean <- MCClean
  Skew = 1
  Grace = 1
  MaxClock = 2
SPECIFICATION Spec
INVARIANTS
  BookMatchesLedger
  LossesAlwaysCount
  RetriesSucceed
PROPERTIES
  OnlyTheExchangeRelieves
CHECK_DEADLOCK FALSE
