SPECIFICATION Spec
CONSTANTS
  owner = owner
  contact = contact
  d1 = d1
  d2 = d2
  w1 = w1
  w2 = w2
  Recipients = {owner}
  Backed = {owner}
  Dispatchers = {d1}
  Workers = {w1, w2}
  Lease = 1
  RetryDelay = 1
  MaxAttempts = 3
  MaxFaults = 1
INVARIANTS NoMailTaskIsLost
CHECK_DEADLOCK FALSE
