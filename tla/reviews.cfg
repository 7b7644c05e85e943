SPECIFICATION QueueSpec
CONSTANTS
  Pair = {q1, q2}
  Clustered = {q1}
  Client = {c1, c2}
  MaxItem = 2
INVARIANTS
  OneRowPerStatus
  ClosedAsActed

