\* One thread stops the pool while a worker's task waits for its child.
SPECIFICATION FairSpec
CONSTANTS
  WorkerNum = 2
  Clients = {c1}
  Tasks = {t1, t2}
  Null = Null
  Closers = {k1}
  Calls = {"stop"}
  Modes = {FALSE}
  ClientsNest = TRUE
PROPERTY CloserReturns
CHECK_DEADLOCK FALSE
