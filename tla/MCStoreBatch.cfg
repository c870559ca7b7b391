SPECIFICATION Spec
CONSTANTS
  Ids = {a, b, c}
  Rcpts = {}
  MaxAttempts = 0
  MaxFile = 3
  MaxRecords = 2
  ClockMonotone = TRUE
  CleanRemoval = TRUE
  Counted = {a, b}
  Emergency = {}
  MaxMessages = 1
INVARIANTS SpoolBounded SInv
PROPERTY ImplementsSpool
CHECK_DEADLOCK FALSE
