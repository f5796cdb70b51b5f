\* One order, of amount zero or two, two trades that may overfill it, one restart.
CONSTANTS
  o1 = o1
  t1 = t1
  t2 = t2
  Orders = {o1}
  Trades = {t1, t2}
  FillAmount <- UnevenTrades
  Amounts = {0, 2}
  UpdateStates = {"OPEN", "CANCELED", "FILLED"}
  NotSaved = NotSaved
  KeepsDone = FALSE
  NotFoundLimit = 1
  MaxPending = 2
  MaxTerminal = 2
  MaxRestarts = 1
SPECIFICATION FairSpec
INVARIANTS
  ActiveOrdersAreOpen
  ExecutedIsSumOfFills
  FillReportedOnce
  CreatedReportedOnce
  SavedFillsComplete
  CreatedOrderIsSaved
  ActiveOrderUnreported
PROPERTIES
  FilledUpdateClosesOrder
  LeavesActiveReported
  CompletionHasFills
CHECK_DEADLOCK FALSE
