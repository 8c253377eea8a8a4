SPECIFICATION FairSpec
CONSTANTS
  Requests = {r1, r2}
  Jobs = {j1, j2}
  Threshold = 1
  MaxCrashes = 2
CHECK_DEADLOCK FALSE
INVARIANTS RemovedStays SingleInstance AnsweredKept
PROPERTIES EnabledKept NeverStuck
