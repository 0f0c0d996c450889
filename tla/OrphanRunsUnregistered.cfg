SPECIFICATION Spec
CONSTANTS
  c1 = c1
  c2 = c2
  Clients = {c1}
  Jobs = {j1}
  Instances = {i1}
  MaxRuns = 1
  MaxFiles = 1
  AutoMax = 1
  MaxFaults = 0
  MaxCrashes = 0

INVARIANTS
  DeletionRegistered
CHECK_DEADLOCK FALSE
