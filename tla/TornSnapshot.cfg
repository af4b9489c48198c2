\* A roster change between the two card queries of a lock.
SPECIFICATION Spec
CONSTANTS
  Users = {u1}
  Cards = {c1, c2}
  Admins = {a1}
  RosterLimit = 1
  MaxWeeks = 1
  MaxTime = 2
  MaxEdits = 2
  None = None
INVARIANT
  SnapshotConsistent
