\* One admin, two weeks, one account and two cards for a roster of one.
SPECIFICATION Spec
CONSTANTS
  Users = {u1}
  Cards = {c1, c2}
  Admins = {a1}
  RosterLimit = 1
  MaxWeeks = 2
  MaxTime = 2
  MaxEdits = 3
  None = None
INVARIANTS
  TypeOK
  SnapshotLegal
  WeeksDisjoint
PROPERTIES
  SnapshotImmutable
  
  DueWeeksGetLocked
