SPECIFICATION Spec
CONSTANTS
  Requests = {r1}
  Sessions = {s1}
  MaxTasks = 1
  MaxCrashes = 0
PROPERTY ResultRecorded
