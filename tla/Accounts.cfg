SPECIFICATION Spec
CONSTANTS
  owner = owner
  c1 = c1
  q1 = q1
  q2 = q2
  Owner = owner
  Contacts = {c1}
  Requests = {q1, q2}
  PoolSize = 2
  Limit = 1
  Idle = 1
  Absolute = 2
  MaxStarts = 3
  MaxTime = 2
  MaxFaults = 1
SYMMETRY Symmetry
INVARIANTS OldSessionsEnd SessionLimitHolds AuditChainContinues StuckOnlyForSecondConnection
CHECK_DEADLOCK FALSE
