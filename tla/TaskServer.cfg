SPECIFICATION FairSpec
CONSTANTS
  Requests = {r1, r2}
  Sessions = {s1}
  MaxTasks = 3
  MaxCrashes = 1
INVARIANTS StrayOnlyAfterRestart
PROPERTIES EndedStays RefusedOnlyIfGone Answered
