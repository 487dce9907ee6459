CONSTANTS
  i1 = i1
  i2 = i2
  Instruments = {i1, i2}
  MaxDepth = 2
  MaxEvents = 3
  MaxRows = 3
SYMMETRY Symmetry
SPECIFICATION Spec
CHECK_DEADLOCK FALSE
INVARIANTS
  TypeOK
  BooksFit
  BooksMatchExchange
  TopToldToStrategies
