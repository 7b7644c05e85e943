SPECIFICATION Spec
CONSTANTS
  Lead = {1, 2, 3}
  Keep = 2
  Calls = 2
  Overlap = TRUE
INVARIANTS
  VetoesHold
  HumanMergesHold
  PinsAreHuman
CHECK_DEADLOCK FALSE
