SPECIFICATION FairMarketSpec
CONSTANTS
  MaxNow = 6
  MaxOutages = 1
  MaxRetries = 0
  Holes = {3}
  Fillers = {f1, f2}
  Tail = 1
  Page = 2
  Overlap = 1
  Ratio = 2
  Floor = 1
INVARIANTS
  GapsAreOwned
  DerivedAreWhole
PROPERTIES
  HolesAreFilled
