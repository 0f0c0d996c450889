SPECIFICATION Spec
CONSTANTS
  t1 = t1 t2 = t2 t3 = t3
  all = all some = some
  Torrents = {t1, t2, t3}
  Criteria = {all, some}
  Start <- MCStart
  Match <- MCMatch
  PageSize = 1
  MaxPage = 1
  MaxSwitches = 2
  MaxChanges = 1
  MaxFailures = 0
  MaxOutages = 0
  MaxActions = 0
  MaxEvents = 1
INVARIANT FirstPageFirst
CHECK_DEADLOCK FALSE
