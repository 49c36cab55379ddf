\* Three getters, limits that change, early destruction; no symmetry, since
\* the run has liveness properties.
SPECIFICATION FairSpec
CONSTANTS
  Clients = {c1, c2, c3}
  Resources = {r1, r2, r3}
  NoRes = NoRes
  PoolSizes = {0, 1, 2}
  IdleSizes = {0, 2}
INVARIANT CountExact
INVARIANT NoSleeperMissedWakeup
INVARIANT DestructorWaitsForGetters
PROPERTY ImplementsContract
PROPERTY DestructorTerminates
CHECK_DEADLOCK FALSE
