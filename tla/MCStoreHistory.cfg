SPECIFICATION Spec
CONSTANTS
  Ids = {a}
  Rcpts = {r}
  MaxAttempts = 1
  MaxFile = 4
  MaxRecords = 3
  ClockMonotone = TRUE
  CleanRemoval = TRUE
  Counted = {a}
  Emergency = {}
  MaxMessages = 1
INVARIANTS TypeOK Recoverable FailedInDLQ
CHECK_DEADLOCK FALSE
