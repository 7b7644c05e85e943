SPECIFICATION ResolverSpec
CONSTANTS
  Lead = {1, 2, 3}
  None = None
  Platform = {"facebook", "instagram", "tiktok"}
  Provider = {"mail"}
  LegalForm = {"sarl"}
  TypeWord = {"patisserie"}
  Landline = {"l1"}
  MaxBlock = 2
  here = here
  door = door
  near = near
  far = far
  Metres <- MCMetres
  Stored <- MCStored
  NewSets = {{3}}
  MaxJudged = 1
INVARIANTS
  LocationNeverMerges
  BranchesKeptApart
  VerdictsSymmetric
  SharedIdentifierCompared
  NameIndependentOfOrder
  BreakdownsAddUp
  ReachPays
  AuditsAgree
CHECK_DEADLOCK FALSE
