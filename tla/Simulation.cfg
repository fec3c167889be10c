SPECIFICATION SimulationSpec
CONSTANTS
  c1 = c1
  c2 = c2
  c3 = c3
  q1 = q1
  q2 = q2
  Contacts = {c1, c2, c3}
  Starts = {0, 100}
  Targets = {"CHECKIN_DUE", "RELEASE_COUNTDOWN", "PUBLICATION"}
  Keys = {"k"}
  Requests = {q1, q2}
  MaxCreations = 2
  MaxRevision = 5
SYMMETRY Symmetry
INVARIANTS ReleaseIsDue
PROPERTIES EveryChangeIsACommand
CHECK_DEADLOCK FALSE
