SPECIFICATION StreamSpec
CONSTANTS
  Fingerprint = {f1, f2}
  Pump = {ddg, sxg}
  Source <- MCSource
  MaxPages = 1
  Endpoints = 1
  Capacity = 1
  Limits = {1}
  OverFetch = 2
  MayHang = {}
  Errors = FALSE
  ddg = ddg
  osm = osm
  sxg = sxg
PROPERTIES
  CampaignSettles
CHECK_DEADLOCK FALSE
