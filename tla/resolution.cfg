SPECIFICATION Spec
CONSTANTS
  Lead = {1, 2, 3, 4}
  MaxId = 4
  Batch = 3
  p1 = p1
  p2 = p2
  Call = {p1, p2}
  Overlaps = {TRUE, FALSE}
  OverlapIds = 2
INVARIANTS
  LiveReferences
  MembershipAgrees
PROPERTIES
  GrowthKeepsAnId
  IdsNotReused
SYMMETRY CallSymmetry
CHECK_DEADLOCK FALSE
