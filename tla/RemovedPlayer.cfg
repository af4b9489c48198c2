\* A player is removed from the pool and one request draws.
SPECIFICATION Spec
CONSTANTS
  Users = {u1}
  Players = {p1, p2, p3}
  TeamPlayers = {p1, p2}
  CardIds = {c1, c2, c3}
  Clients = {r1, r2}
  RosterLimit = 2
  BoosterCost = 2
  InitTokens = 2
  MaxCredits = 1
  None = None
SYMMETRY Symmetry
INVARIANT
  RemovedPlayersOffRoster
