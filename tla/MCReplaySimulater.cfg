SPECIFICATION FairSpec
CONSTANTS
  Ids = {a, b}
  Contracts = {"c", "d"}
  Prices = {0, 1, 2}
  Sizes = {2, 3}
  Volumes = {0, 1, 2}
  TradeRate = 50
  Stamps <- MCStamps
  PageSize = 2
  LowMark = 1
  Book <- MCBook
  Wanted <- MCWanted
  MaxRequests = 1
  MaxSpurious = 1
INVARIANTS
  TypeOK
  ReplaysInOrder
  EndsComplete
  EveryOrderOnce
  ToldIsTrue
  NoneLeftBehind
PROPERTIES
  AllReplayed
