SPECIFICATION FairSpec
CONSTANTS
  c1 = c1
  c2 = c2
  Clients = {c1, c2}
  Jobs = {j1}
  Instances = {i1}
  MaxRuns = 1
  MaxFiles = 2
  AutoMax = 1
  MaxFaults = 0
  MaxCrashes = 1
INVARIANTS
  DeletionAuthorized
  NoZombieDeleting
PROPERTIES
  FinishedStable
  ScansEnd
  DeletionsEnd
CHECK_DEADLOCK FALSE
