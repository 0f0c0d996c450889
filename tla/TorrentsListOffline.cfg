SPECIFICATION Spec
CONSTANTS
  t1 = t1 t2 = t2 t3 = t3
  all = all some = some
  Torrents = {t1, t2, t3}
  Criteria = {all, some}
  Start <- MCStart
  Match <- MCMatch
  PageSize = 1
  MaxPage = 1
  MaxSwitches = 1
  MaxChanges = 0
  MaxFailures = 0
  MaxOutages = 1
  MaxActions = 0
  MaxEvents = 1
INVARIANT RowsMatch
CHECK_DEADLOCK FALSE
