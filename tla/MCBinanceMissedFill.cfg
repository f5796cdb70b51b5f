\* The connection of the stream drops once; the poll never fails.
CONSTANTS
  o1 = o1
  t1 = t1
  t2 = t2
  Orders = {o1}
  Trades = {t1}
  FillAmount <- OneLotTrades
  Amounts = {0, 1}
  UpdateStates = {"OPEN", "PARTIALLY_FILLED", "FILLED", "CANCELED", "FAILED"}
  NotSaved = NotSaved
  KeepsDone = FALSE
  NotFoundLimit = 1
  MaxPending = 2
  MaxTerminal = 3
  MaxRestarts = 0
  Failing = {"stream"}
  MaxRounds = 1
  MaxFaults = 1
SPECIFICATION ConnectorSpec
INVARIANTS
  TradeNotMissed
CHECK_DEADLOCK FALSE
