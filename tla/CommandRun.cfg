SPECIFICATION FairSpec
CONSTANTS
  Procs = {p1, p2}
  Days <- MCDays
INVARIANTS TypeOK OkIsWhole NoneSurvives
PROPERTIES ShiftsChain Ends
