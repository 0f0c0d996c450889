SPECIFICATION MCSpec
CONSTANTS
  Rows <- MCRows
  Unified = TRUE
  Orders <- MCOrders
  ColMatch <- MCColMatch
  ExprMatch <- MCExprMatch
  SameFiles <- MCSameFiles
  PageSize = 2
  MaxEvents = 1
  MaxClicks = 2
  MaxRequests = 2
  MaxSteps = 4
INVARIANTS TypeOK SelectionOnScreen RequestReachesSelection DialogKeepsTorrents
CHECK_DEADLOCK FALSE
