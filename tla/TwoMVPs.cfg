\* Expected violation: the flag of an earlier MVP stays.
SPECIFICATION Spec
SYMMETRY Symmetry
CONSTANTS
  Players = {p1, p2}
  Channels = {ch1}
  Watchers = {v1, v2}
  Clients = {r1, r2}
  DropMax = 1
  MaxPayload = 1
  None = None
INVARIANTS
  FlagFollowsMVP
