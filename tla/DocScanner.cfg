SPECIFICATION Spec
CONSTANTS
  c1 = c1
  c2 = c2
  c3 = c3
  Contacts = {c1, c2}
  MinContacts = 2
  DAY = 2
  Thresholds = {1}
  MaxTime = 6
  MaxWorkflows = 1
  MaxGenerations = 1
  MaxSettings = 1
SYMMETRY Symmetry
INVARIANTS OverdueScheduleIsWatched
