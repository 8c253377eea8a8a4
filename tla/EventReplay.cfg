SPECIFICATION Spec
CONSTANTS
  t1 = t1
  k1 = k1
  Nodes = {n1, n2}
  Tasks = {t1}
  Keys = {k1}
  Histories <- MCHistories
  MaxEvents = 2
  MaxFlight = 2
  MaxRestarts = 1
SYMMETRY NodeSymmetry
INVARIANTS ToolOnce OneOwner
PROPERTIES ResendAgrees
