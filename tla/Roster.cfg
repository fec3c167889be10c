SPECIFICATION Spec
CONSTANTS
  c1 = c1
  c2 = c2
  c3 = c3
  c4 = c4
  t1 = t1
  t2 = t2
  Contacts = {c1, c2, c3, c4}
  Tabs = {t1, t2}
  Dealings = {1, 2}
  MinContacts = 2
  MaxContacts = 3
  MaxGenerations = 2
INVARIANTS CountDecidesRoster OneDealing
PROPERTIES ImplementsPromise
CHECK_DEADLOCK FALSE
