SPECIFICATION LiveSpec
CONSTANTS
  j1 = j1
  j2 = j2
  j3 = j3
  Jobs = {j1, j2, j3}
  MaxFaults = 3
INVARIANTS ReleasedIsServed NoPlaintextLeft
PROPERTIES ReleasedUnlessStuck
CHECK_DEADLOCK FALSE
