SPECIFICATION Spec
CONSTANTS
  Nodes = {n1}
  TaskIds = {t1, t2}
  Contents = {c1}
  Reports = {"running", "success"}
  StaleAfter = 1
  DegradedAfter = 2
  CountCap = 3
  MaxBatch = 2
  MaxVersion = 5
PROPERTIES
  DeadNodeSwept
