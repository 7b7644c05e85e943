SPECIFICATION Spec
CONSTANTS
  Rows = 2
  Seeds = {1, 2}
  Domain = {"ddg.dz"}
  DomainOf <- MCDomainOf
  Worker = {w1, w2, w3}
  Team = 1
  MaxFailures = 2
  SweepEvery = 2
  SlowFetch = {TRUE, FALSE}
  DbErrors = TRUE
INVARIANTS
  FailureBudget
  ExclusiveClaim

  
SYMMETRY WorkerSymmetry
