\* One request at a time is enough: no race.
SPECIFICATION SoftSpec
CONSTANTS
  Webs = {1}
  MaxId = 2
  Viewers = {v1, v2}
  MaxDraws = 1
  MaxLog = 1
  MaxMerges = 1
  LateRaces = FALSE
  SoftClients = {r1}
  Starter = 1
  Balances = {0}
  Bonus = 3
  Nobody = Nobody
SYMMETRY SoftSymmetry
INVARIANTS MergeOwnCollection
CHECK_DEADLOCK FALSE
