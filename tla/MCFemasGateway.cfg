SPECIFICATION FemasSpec
CONSTANTS
  Orders = {o1, o2}
  InitOrders <- MCInitOrders
  None = None
  e1 = e1
  e2 = e2
  MaxLosses = 2
  MaxTraffic = 4
  MaxRequests = 2
CHECK_DEADLOCK FALSE
INVARIANTS
  AnswersReach
  StartVerifies

CONSTRAINT
  Considered
