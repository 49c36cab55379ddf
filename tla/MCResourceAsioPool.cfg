\* Three clients on two resources, the version changed and the pool destroyed at
\* any time.
SPECIFICATION FairSpec
CONSTANTS
  Clients = {c1, c2, c3}
  Resources = {r1, r2}
  NoRes = NoRes
  GaveUp = GaveUp
  MaxCount = 2
  MaxWaiters = 2
INVARIANT CountExact
INVARIANT DestructorIsLast
PROPERTY DestructorReturns
CHECK_DEADLOCK FALSE
