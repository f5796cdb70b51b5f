\* A trade that reaches both the user stream and the poll.
CONSTANTS
  o1 = o1
  t1 = t1
  t2 = t2
  Orders = {o1}
  Trades = {t1}
  FillAmount <- OneLotTrades
  Amounts = {0, 1}
  UpdateStates = {"OPEN", "PARTIALLY_FILLED", "FILLED", "CANCELED", "FAILED"}
  NotSaved = NotSaved
  KeepsDone = FALSE
  NotFoundLimit = 1
  MaxPending = 2
  MaxTerminal = 3
  MaxRestarts = 0
  Failing = {}
  MaxRounds = 1
  MaxFaults = 0
SPECIFICATION ConnectorSpec
INVARIANTS
  FillReportedOnceOverall
CHECK_DEADLOCK FALSE
