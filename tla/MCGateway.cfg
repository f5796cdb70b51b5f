\* One order, two cancel transactions, two rounds of polls at once.
CONSTANTS
  o1 = o1
  t1 = t1
  Orders = {o1}
  Trades = {t1}
  FillAmount <- OneLot
  Amounts = {1}
  UpdateStates = {"OPEN", "PENDING_CANCEL", "CANCELED", "FILLED", "FAILED"}
  NotSaved = NotSaved
  KeepsDone = TRUE
  NotFoundLimit = 1
  MaxPending = 3
  MaxTerminal = 3
  MaxRestarts = 1
  MaxCancels = 2
  MaxRounds = 2
  MaxFaults = 1
SPECIFICATION FairGatewaySpec
INVARIANTS
  GatewayTypeOK
  EndIsReal
  FailureIsReal
  ExecutionAccounted
  CompletedOrFailed
PROPERTIES
  ImplementsTracker
  SettledOnceDecided
CHECK_DEADLOCK FALSE
