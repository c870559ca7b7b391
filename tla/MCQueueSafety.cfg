SPECIFICATION Spec
CONSTANTS
  Msgs = {m1}
  Rcpts = {near, far1}
  Local = {near}
  Suppressed = {near}
  Arrivals = {"pending", "held", "scheduled"}
  Notify = {"SUCCESS", "DELAY"}
  Workers = {w1, w2}
  ChanCap = 1
  MaxAttempts = 2
  MaxFaults = 1
  MaxCrashes = 1
  MaxRevives = 1
  MaxCount = 4
INVARIANTS Accounted SingleOwner CountsBounded DuplicatesExplained NoticeOnce
CHECK_DEADLOCK FALSE
