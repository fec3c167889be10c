SPECIFICATION LiveSpec
CONSTANTS
  c1 = c1
  c2 = c2
  c3 = c3
  Contacts = {c1, c2}
  MinContacts = 2
  DAY = 1
  Thresholds = {1}
  MaxTime = 4
  MaxWorkflows = 1
  MaxGenerations = 1
  MaxSettings = 1
PROPERTIES ArmedScheduleFires FragmentsAreProcessed ImplementsPromise
