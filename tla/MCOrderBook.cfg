SPECIFICATION FairSpec
CONSTANTS
  Prices <- TwoPrices
  Listed <- ThreeBooks
  Opening <- Calm
  WindowSize = 2
  SavedSize = 1
  MaxUpdates = 3
  MaxEvents = 1
INVARIANTS
  TypeOK
  QuotedPriceIsBest
  TrackedChangesStay
PROPERTIES
  CopiesTheMarket
  MessagesAreHandled
