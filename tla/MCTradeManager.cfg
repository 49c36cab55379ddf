SPECIFICATION TMSpec
CONSTANTS
  StockSeq <- MCStockSeq
  Weights <- MCWeights
  Price <- MCPrice
  MaxDay = 4
  InitCash = 6
  Cashes = {4}
  Numbers = {1, 2}
  MaxDouble = MaxDouble
  TradeFee = 1
  LoanFee = 1
  Profiles <- MCProfiles
  Chronological = TRUE
INVARIANT LogMatchesAccount
INVARIANT RebuiltFromLog
INVARIANT BooksBalance
INVARIANT ExRightsExactlyOnce
PROPERTY HistoryIsFinal
PROPERTY CoverLostOnlyByReturn
CHECK_DEADLOCK FALSE
