CONSTANTS
  Orders = {o1, o2}
  None = None
  InitOrders = {o1}
  Leftovers = {2}
  MaxDrops = 1
  MaxTraffic = 4
  MaxRequests = 1
SPECIFICATION Spec
CHECK_DEADLOCK FALSE
INVARIANTS
  TypeOK
  AnswersReach
  NoOrderForgotten
  ToldIsTrue
CONSTRAINT
  Considered
