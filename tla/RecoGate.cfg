\* The reviewer as a gate, with two rows of one idea.
SPECIFICATION FairSpec
CONSTANTS
  MaxRows = 2
  Ttl = 2
  PendingTimeout = 1
  LlmEnabled = TRUE
  GateMode = TRUE
INVARIANTS
  LaunchableRowsAreReviewed
PROPERTIES
  BotsStartFromFreshIdeas
  VetoReleasesNothing
  EveryPublicationCloses
