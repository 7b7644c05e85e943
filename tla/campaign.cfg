SPECIFICATION StreamSpec
CONSTANTS
  Fingerprint = {f1, f2}
  Pump = {ddg, osm}
  Source <- MCSource
  MaxPages = 2
  Endpoints = 2
  Capacity = 1
  Limits = {1, 3}
  OverFetch = 2
  MayHang = {osm}
  Errors = TRUE
  ddg = ddg
  osm = osm
  sxg = sxg
INVARIANTS
  CompletedMeansExhausted
  NoStrayPump
PROPERTIES
  ResultsFlow
  StreamsAreStreams
CHECK_DEADLOCK FALSE
