SPECIFICATION Spec
CONSTANTS
  c1 = c1
  c2 = c2
  Clients = {c1}
  Jobs = {j1}
  Instances = {i1}
  MaxRuns = 2
  MaxFiles = 1
  AutoMax = 1
  MaxFaults = 1
  MaxCrashes = 0
INVARIANTS
  TypeOK
  MutexIsDeletion
  OneRunAtATime
  RegisteredIsAlive
CHECK_DEADLOCK FALSE
