SPECIFICATION EngineSpec
CONSTANTS
  Prices = {1, 2}
  Qtys = {1, 2}
  ME_MAX_PRICE_LEVELS = 3
  ME_MAX_ORDER_IDS = 5
  MaxRecoveries = 1
  NULL = NULL
  Clip = 1
  ThresholdNum = 7
  ThresholdDen = 10
  MaxOrderSize = 2
  MaxLoss = 0
  MaxPosition = 3
  OtherFeature <- MCOtherFeature
CHECK_DEADLOCK FALSE
INVARIANT BookIsExchange
INVARIANT BBOExactOrUnknown
INVARIANT QuotesAroundMarket
INVARIANT TakesWhatTraded
