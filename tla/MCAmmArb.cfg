\* The user may stop the strategy, and the runs and starts are bounded.
SPECIFICATION FairSpec
CONSTANTS
  Gateways = {2}
  TakerType <- ExchangeAndGateway
  MaxRuns = 2
  MaxStarts = 2
INVARIANTS
  FreshArbitrageInSequence
  OneRunOutstanding
PROPERTIES
  LegDroppedOnFailureOnly
  TradesAgain
CHECK_DEADLOCK FALSE
