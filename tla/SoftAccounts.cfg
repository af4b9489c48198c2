\* Two viewers, one website account, an id that is handed out again.
SPECIFICATION SoftSpec
CONSTANTS
  Webs = {1}
  MaxId = 2
  Viewers = {v1, v2}
  MaxDraws = 1
  MaxLog = 1
  MaxMerges = 1
  LateRaces = FALSE
  SoftClients = {r1, r2}
  Starter = 1
  Balances = {0}
  Bonus = 3
  Nobody = Nobody
VIEW SoftView
SYMMETRY SoftSymmetry
INVARIANTS
  SoftTypeOK
  BonusOnce
  OneAccountPerViewer
  MergeSound
CHECK_DEADLOCK FALSE
