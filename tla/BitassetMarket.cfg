SPECIFICATION Spec
CONSTANTS
  alice = alice
  issuer = issuer
  Null = Null
  Accounts = {alice, issuer}
  Issuer = issuer
  Core <- MCCore
  Offers <- MCOffers
  Deltas <- MCDeltas
  Bids <- MCBids
  Prices <- MCPrices
  SwanPrices <- MCSwanPrices
  Producers = {issuer}
  ProducerSets <- MCProducerSets
  SettleAmounts = {1, 2}
  MCR = 150
  MSSR = 120
  FeePercent = 50
  MaxMarketFee = 1
  CreateFee = 1
  CancelFee = 1
  MinimumFeeds = 1
  FeedLifetime = 2
  OrderLifetime = 2
  SettlementDelay = 1
  SettlementOffset = 0
  SettlementMax = 50
  MaintenanceEvery = 2
  MaxOrders = 3
  MaxOps = 6
  MaxBlocks = 2
INVARIANTS
  BooksBalance
  EveryoneCanSettle
  BookUncrossed
PROPERTIES
  
  RevivedIsSound
CHECK_DEADLOCK FALSE
