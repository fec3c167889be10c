SPECIFICATION BackupLiveSpec
CONSTANTS
  p1 = p1
  p2 = p2
  p3 = p3
  r1 = r1
  r2 = r2
  Packages = {p1, p2}
  Requests = {r1, r2}
  MaxGenerations = 2
  MaxFaults = 3
  Disturbers = {}
INVARIANTS ActiveIsStored CompleteBackupRestores
PROPERTIES ImplementsPromise SupersededIsDeleted
CHECK_DEADLOCK FALSE
