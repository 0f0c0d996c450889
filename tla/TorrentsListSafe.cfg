SPECIFICATION Spec
CONSTANTS
  t1 = t1 t2 = t2 t3 = t3
  all = all some = some
  Torrents = {t1, t2, t3}
  Criteria = {all, some}
  Start <- MCStart
  Match <- MCMatch
  PageSize = 1
  MaxPage = 2
  MaxSwitches = 2
  MaxChanges = 1
  MaxFailures = 1
  MaxOutages = 1
  MaxActions = 1
  MaxEvents = 1
INVARIANTS RowsMatchCriteria ListIsPrefix
CHECK_DEADLOCK FALSE
