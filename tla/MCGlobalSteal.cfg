\* Two threads close the pool while a client and its tasks submit.
SPECIFICATION Spec
CONSTANTS
  WorkerNum = 2
  Clients = {c1}
  Tasks = {t1, t2}
  Null = Null
  Closers = {k1, k2}
  Calls = {"join", "stop"}
  Modes = {TRUE, FALSE}
  ClientsNest = TRUE
INVARIANT NeverTwice
INVARIANT CountExact
INVARIANT ClosedMeansEnded
INVARIANT JoinKeepsPromise
INVARIANT NobodySleepsOn
INVARIANT NoTaskSleeps
SYMMETRY Symmetry
CHECK_DEADLOCK FALSE
