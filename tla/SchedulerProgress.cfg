SPECIFICATION FairSpec
CONSTANTS
  Indexers = {i1}
  MaxJobs = 2
  Priorities = {"interactive", "rss"}
  RSS = "rss"
  Rank <- MCRank
  Interval <- MCInterval
  MaxWait <- MCMaxWait
  Escalation <- MCOneLevel
  Restored = {0}
  MaxRetry = 2
  MaxWorkers = 1
  ChanCap = 1
  MaxEvents = 1
  Downloads = TRUE
  ClockInDispatch = FALSE
INVARIANTS RssPendingExact
PROPERTIES RequestAllowed TasksFinish WholeJobsDelivered
