\* One order of one lot; the stream drops or an answer is lost, and a restart.
CONSTANTS
  o1 = o1
  t1 = t1
  t2 = t2
  Orders = {o1}
  Trades = {t1}
  FillAmount <- OneLotTrades
  Amounts = {0, 1}
  UpdateStates = {"OPEN", "PARTIALLY_FILLED", "FILLED", "CANCELED", "FAILED"}
  NotSaved = NotSaved
  KeepsDone = FALSE
  NotFoundLimit = 1
  MaxPending = 2
  MaxTerminal = 3
  MaxRestarts = 1
  Failing = {"stream", "request", "balances"}
  MaxRounds = 2
  MaxFaults = 1
SPECIFICATION FairConnectorSpec
INVARIANTS
  ReportedEndIsReal
  NoSilentOrphan
PROPERTIES
  ClosedOrderIsSettled
CHECK_DEADLOCK FALSE
