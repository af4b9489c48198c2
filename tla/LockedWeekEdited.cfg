\* An admin saves a week while the loop locks it.
SPECIFICATION Spec
CONSTANTS
  Users = {u1}
  Cards = {c1, c2}
  Admins = {a1}
  RosterLimit = 1
  MaxWeeks = 2
  MaxTime = 2
  MaxEdits = 3
  None = None
PROPERTY
  LockedWeeksReadOnly
