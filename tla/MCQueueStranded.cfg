SPECIFICATION FairSpec
CONSTANTS
  Msgs = {m1, m2}
  Rcpts = {far1}
  Local = {}
  Suppressed = {}
  Arrivals = {"pending"}
  Notify = {}
  Workers = {w1}
  ChanCap = 1
  MaxAttempts = 1
  MaxFaults = 1
  MaxCrashes = 0
  MaxRevives = 0
  MaxCount = 1
PROPERTY Reprocessed
CHECK_DEADLOCK FALSE
