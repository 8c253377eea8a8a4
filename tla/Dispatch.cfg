SPECIFICATION FairSpec
CONSTANTS
  Tasks = {t1, t2}
  Kinds <- MCKinds
  Staff <- MCStaff
  Turn <- MCTurn
  Price <- MCPrice
  CompanyDaily = 160
  EmployeeDaily = 64
  Costs = {0, 64}
  MaxCost = 64
  MaxDay = 1
  MaxUnasked = 64
CHECK_DEADLOCK FALSE
INVARIANTS OvershootBounded ToldOnce FailureKept
PROPERTIES DaysAreKept Answered
