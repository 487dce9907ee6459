SPECIFICATION Spec
CONSTANTS
  Ids = {"a"}
  Quantity = 2
  MaxResend = 2
  MaxSent = 4
  MaxDrops = 1
  MaxBeats = 2
  MaxOther = 1
CHECK_DEADLOCK FALSE
INVARIANTS
  WithinLimit
