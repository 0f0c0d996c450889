SPECIFICATION Spec
CONSTANTS
  Indexers = {i1, i2}
  MaxJobs = 2
  Priorities = {"interactive", "rss"}
  RSS = "rss"
  Rank <- MCRank
  Interval <- MCInterval
  MaxWait <- MCMaxWait
  Escalation <- MCShortCooldown
  Restored = {0}
  MaxRetry = 1
  MaxWorkers = 2
  ChanCap = 1
  MaxEvents = 0
  Downloads = FALSE
  ClockInDispatch = TRUE
INVARIANTS TypeOK InFlightExact JobDoneOnce NoLostWakeup
SYMMETRY MCSymmetry
