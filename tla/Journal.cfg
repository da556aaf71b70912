SPECIFICATION FairSpec
CONSTANTS
  MaxNow = 3
  MaxTrades = 3
  MaxSessions = 2
  CommitBatch = 2
  MaxSession = 3
  PollLimit = 1
  Retention = 1
INVARIANTS
  ExactPathsAreComplete
PROPERTIES
  PlacesAreKept
  LockIsReleased
