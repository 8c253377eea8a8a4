SPECIFICATION ServedSpec
CONSTANTS
  b1 = b1
  b2 = b2
  b3 = b3
  b4 = b4
  r1 = r1
  r2 = r2
  Appliers = {p1}
  Bundles = {b2, b4}
  Time <- MCTime
  Hash <- MCHash
  Source <- MCSource
  Commit <- MCCommit
  NoEmployees = {b2}
  Uncovered = {b4}
  DimCount = 2
  MaxCommit = 1
  MaxCrashes = 1
  Readers = {r1, r2}
  Cached = 0
  MaxVersions = 2
  MaxUnread = 1
SYMMETRY ReaderSymmetry
INVARIANTS FilesWhole LandedWhole AnswersCurrent
PROPERTIES AppliedMonotone StoreSpec
