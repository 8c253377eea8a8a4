SPECIFICATION FairSpec
CONSTANTS
  b1 = b1
  b2 = b2
  b3 = b3
  b4 = b4
  Appliers = {p1, p2}
  Bundles = {b1, b3}
  Time <- MCTime
  Hash <- MCHash
  Source <- MCSource
  Commit <- MCCommit
  NoEmployees = {}
  Uncovered = {b3}
  DimCount = 1
  MaxCommit = 1
  MaxCrashes = 1
INVARIANTS EmployeesReachable
PROPERTIES BundleApplied
