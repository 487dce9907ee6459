CONSTANTS
  Packets = 3
  Upto <- MCUpto
  LastPosition = 9
  MaxApart = 4
SPECIFICATION Spec
CHECK_DEADLOCK FALSE
INVARIANTS
  TypeOK
  SetInOrder
  NothingDroppedTooMuch
  WholeLoopCompletes
