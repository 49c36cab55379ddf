\* Four settings.
SPECIFICATION Spec
CONSTANTS
  Params <- AllSettings
  MaxDelayCount = 1
  MinTrade = 2
  MaxTrade = 3
  Prices = {1, 2}
  MaxHold = 4
  MaxRequests = 2
  Bars <- Days
INVARIANT EntriesVoidWhileInvalid
INVARIANT LiquidationPending
PROPERTY TakeProfitRatchet
PROPERTY ImplementsContract
CHECK_DEADLOCK FALSE
