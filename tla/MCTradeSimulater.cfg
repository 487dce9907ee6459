SPECIFICATION Spec
CONSTANTS
  Ids = {a, b, c}
  NoId = NoId
  Prices <- MCPrices
  Depth = 1
  Quantities = {1, 2, 3}
  MinPrice = 111
  MaxPrice = 113
  Tick = 1
  Inexact <- MCInexact
  Wanted <- MCWanted
  MaxRequests = 5
INVARIANTS
  TypeOK
  NoneLeftToMatch
  MarketIsOrders
  StrategiesSeeMarket
  QuantityKept
  ToldIsTrue
PROPERTIES
  FairTrades
