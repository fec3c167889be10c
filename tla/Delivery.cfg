SPECIFICATION LiveSpec
CONSTANTS
  owner = owner
  contact = contact
  d1 = d1
  d2 = d2
  w1 = w1
  w2 = w2
  Recipients = {owner}
  Backed = {owner}
  Dispatchers = {d1}
  Workers = {w1, w2}
  Lease = 1
  RetryDelay = 1
  MaxAttempts = 3
  MaxFaults = 2
INVARIANTS EventBecomesMail RetryIsBooked DuplicatesAreExplained
PROPERTIES ImplementsPromise EveryMailSettles
CHECK_DEADLOCK FALSE
