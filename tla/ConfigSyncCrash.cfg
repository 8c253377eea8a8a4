SPECIFICATION Spec
CONSTANTS
  b1 = b1
  b2 = b2
  b3 = b3
  b4 = b4
  Appliers = {p1}
  Bundles = {b1, b2}
  Time <- MCTime
  Hash <- MCHash
  Source <- MCSource
  Commit <- MCCommit
  NoEmployees = {}
  Uncovered = {b3}
  DimCount = 5
  MaxCommit = 2
  MaxCrashes = 1
INVARIANT AppliedIsLanded
