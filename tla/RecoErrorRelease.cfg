\* A model error, with two rows of one idea.
SPECIFICATION Spec
CONSTANTS
  MaxRows = 2
  Ttl = 2
  PendingTimeout = 2
  LlmEnabled = TRUE
  GateMode = TRUE
PROPERTIES
  NoReleaseOnError
