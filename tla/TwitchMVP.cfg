\* Two confirmations at once, an ingest with one refresh.
SPECIFICATION Spec
SYMMETRY Symmetry
CONSTANTS
  Players = {p1, p2}
  Channels = {ch1, ch2}
  Watchers = {v1, v2}
  Clients = {r1, r2}
  DropMax = 1
  MaxPayload = 1
  None = None
INVARIANTS
  TypeOK
  DropPaidOnce
  MVPHasBonus
  LiveRowGone
  CardPointsOfCurrentStats
