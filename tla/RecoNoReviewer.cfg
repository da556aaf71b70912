\* No reviewer: publication, TTL sweep and operator on three rows of one idea.
SPECIFICATION Spec
CONSTANTS
  MaxRows = 3
  Ttl = 2
  PendingTimeout = 1
  LlmEnabled = FALSE
  GateMode = FALSE
INVARIANTS
  OneRunningBotPerChain
  OneActionableLabelRoot
PROPERTIES
  ClosedRowsStayClosed
