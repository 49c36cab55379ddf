SPECIFICATION FairSpec
CONSTANTS
  Owner = owner
  Stoppers = {stopper}
  Workers = {w1, w2}
  MaxRuns = 2
  MaxEvents = 1
  Orderly = TRUE
INVARIANT DailyFunctionNotLost
PROPERTY NoTaskAfterStop
PROPERTY StopEndsLoop
CHECK_DEADLOCK FALSE
