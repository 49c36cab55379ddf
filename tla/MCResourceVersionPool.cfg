\* Getters while the parameters and the limits change.
SPECIFICATION Spec
CONSTANTS
  Clients = {c1, c2, c3}
  Resources = {r1, r2, r3}
  NoRes = NoRes
  Params = {a, b}
  PoolSizes = {0, 1, 2}
  IdleSizes = {0, 2}
  MaxVersion = 1
PROPERTY HandedOutIsCurrent
PROPERTY AndWaitNeverTimesOut
PROPERTY ImplementsContract
CHECK_DEADLOCK FALSE
