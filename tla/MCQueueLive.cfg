SPECIFICATION FairSpec
CONSTANTS
  Msgs = {m1, m2}
  Rcpts = {near}
  Local = {near}
  Suppressed = {}
  Arrivals = {"pending"}
  Notify = {}
  Workers = {w1}
  ChanCap = 1
  MaxAttempts = 1
  MaxFaults = 0
  MaxCrashes = 0
  MaxRevives = 0
  MaxCount = 1
PROPERTY Settles
CHECK_DEADLOCK FALSE
