\* One account in two tabs, two players in the booster team and a third one.
SPECIFICATION Spec
CONSTANTS
  Users = {u1}
  Players = {p1, p2, p3}
  TeamPlayers = {p1, p2}
  CardIds = {c1, c2, c3}
  Clients = {r1, r2}
  RosterLimit = 2
  BoosterCost = 2
  InitTokens = 2
  MaxCredits = 2
  None = None
SYMMETRY Symmetry
INVARIANTS
  TypeOK
  RosterWithinLimit
  OneActivePerPlayer
  TokensNeverNegative
  LedgerBalances
PROPERTY
  NoLostUpdate
