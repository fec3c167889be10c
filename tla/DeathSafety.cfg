SPECIFICATION Spec
CONSTANTS
  c1 = c1
  c2 = c2
  c3 = c3
  Contacts = {c1, c2}
  MinContacts = 1
  DAY = 2
  Thresholds = {1}
  MaxTime = 6
  MaxWorkflows = 1
  MaxGenerations = 2
  MaxSettings = 2
SYMMETRY Symmetry
INVARIANTS ReleaseNeedsQuorum ReleaseOnlyAfterSilence TriggeredScheduleHasWorkflow ConfirmationsAreBacked SecretsOnlyWhileUsable CountdownIsWatched
PROPERTIES StartOnlyWhenOverdue FollowsReducers
