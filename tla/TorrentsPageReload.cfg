SPECIFICATION PageSpec
CONSTANTS
  t1 = t1 t2 = t2 t3 = t3
  all = all some = some
  Torrents = {t1, t2, t3}
  Criteria = {all, some}
  Start <- MCStart
  Match <- MCMatch
  PageSize = 1
  MaxPage = 1
  MaxSwitches = 1
  MaxChanges = 1
  MaxFailures = 1
  MaxOutages = 1
  MaxActions = 1
  MaxEvents = 1
  Insts = {1, 2}
  Statuses = {"seeding"}
  Categories = {"tv", "tv/hd"}
  Trackers = {"t1", "t2"}
  Boxes <- MCBoxes
  Below <- MCBelow
  Sorted <- MCSorted
  Subs = {1}
  MaxFilterEvents = 3
INVARIANTS FiltersNeverMix
CHECK_DEADLOCK FALSE
