SPECIFICATION StoreFairSpec
CONSTANTS
  Process = {p1, p2}
  Origins = {"fresh", "v1", "v2.0.0", "partial", "v3.0.0"}
  Record = {"r1"}
  LegacyRow = {"old", "orphan"}
  Orphan = {"orphan"}
  NewRow = {"new"}
  Overlap = {TRUE, FALSE}
  MaxCrashes = 2
INVARIANTS
  RecordsKept
  RowHasFile
PROPERTIES
  OpensAgain
  UpgradeIsAtomic
