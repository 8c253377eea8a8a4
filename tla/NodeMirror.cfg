SPECIFICATION Spec
CONSTANTS
  Nodes = {n1, n2}
  TaskIds = {t1}
  Contents = {c1}
  Reports = {"pending", "success"}
  StaleAfter = 0
  DegradedAfter = 1
  CountCap = 2
  MaxBatch = 2
  MaxVersion = 4
INVARIANTS
  NoOutdatedLiveTask
PROPERTIES
  VersionTracksChange
  TwoBeatsToRecover
  DeadKnownNodeSwept
