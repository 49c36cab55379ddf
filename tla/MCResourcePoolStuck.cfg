\* getAndWait() on a pool that caches nothing.
SPECIFICATION FairSpec
CONSTANTS
  Clients = {c1, c2}
  Resources = {r1, r2}
  NoRes = NoRes
  PoolSizes = {1}
  IdleSizes = {0}
PROPERTY BlocksOnlyAtLimit
CHECK_DEADLOCK FALSE
