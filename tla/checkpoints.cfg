SPECIFICATION CheckpointSpec
CONSTANTS
  A = A
  B = B
  Wilaya = {A, B}
  Catalogue <- MCCatalogue
  Rings <- MCRings
  Nowhere = Nowhere
  Unknown = Unknown
  Caller = {c1, c2}
  Id = {1}
  Lon = {1, 3}
  Lat = {1, 9}
INVARIANTS
  PlacedWhereItSays
CHECK_DEADLOCK FALSE
