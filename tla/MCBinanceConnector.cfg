\* One order filled by two trades and a restart, with a reliable network.
CONSTANTS
  o1 = o1
  t1 = t1
  t2 = t2
  Orders = {o1}
  Trades = {t1, t2}
  FillAmount <- OneLotTrades
  Amounts = {0, 2}
  UpdateStates = {"OPEN", "PARTIALLY_FILLED", "FILLED", "CANCELED", "FAILED"}
  NotSaved = NotSaved
  KeepsDone = FALSE
  NotFoundLimit = 1
  MaxPending = 1
  MaxTerminal = 2
  MaxRestarts = 1
  Failing = {}
  MaxRounds = 1
  MaxFaults = 0
SPECIFICATION ConnectorSpec
INVARIANTS
  ReportedEndIsReal
  ConnectorTypeOK
PROPERTIES
  ImplementsTracker
CHECK_DEADLOCK FALSE
