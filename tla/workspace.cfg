SPECIFICATION FairSpec
CONSTANTS
  Session = {s1, s2}
  Panels = {"geo_overview", "attachments"}
  Forms = {"lead", "checkpoint", "upload"}
  MaxWrites = 2
  MaxAdrift = 1
INVARIANTS
  OwnWritesShown
PROPERTIES
  StaleHeals
