\* Four recommendations on one symbol, two requests, both engines.
CONSTANTS
  a1 = a1
  a2 = a2
  s1 = s1
  b1 = b1
  None = None
  Recs = {a1, a2, s1, b1}
  Reqs = {q1, q2}
  Engines = {"sqlite", "postgresql"}
  Symbol <- MCSymbol
  Contract <- MCContract
  Root <- MCRoot
  LimitChoices <- MCLimits
SYMMETRY RequestsAreAlike
SPECIFICATION Spec
INVARIANTS
  RepliesNameTheRightBot
PROPERTIES
  ImplementsOneDesk
  NoReattachToStoppedBots
