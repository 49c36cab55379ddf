SPECIFICATION Spec
CONSTANTS
  Owner = owner
  Stoppers = {stopper}
  Workers = {w1, w2}
  MaxRuns = 2
  MaxEvents = 2
  Orderly = TRUE
INVARIANT NextStartNotAborted
CHECK_DEADLOCK FALSE
