SPECIFICATION FairSpec
CONSTANTS
  Who = {"w1", "w2"}
  Reach = {"c1"}
  Call = {k1}
  Limit = 2
  Saved <- MCSaved
  MaxEdits = 1
INVARIANTS
  CrmKept
  IdentityStable
PROPERTIES
  ResultsKept
  PendingDrains
