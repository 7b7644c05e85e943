SPECIFICATION PathSpec
CONSTANTS
  Task = {t1, t2, t3}
  Minimum = 1
  Maximum = 2
  Window = 2
  Proxy = {p1, p2}
  Direct = Direct
  Full = 4
  Gain = 1
  Penalty = 2
  HealthyAt = 3
  DegradedAt = 2
  MinHealth = 1
INVARIANTS
  ActiveCountsHolders
  NoLostWakeup
  LabelTruthful
PROPERTIES
  NeverOverAdmits
  EveryWaiterWoken
