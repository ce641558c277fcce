SPECIFICATION EngineSpec
CONSTANTS
  Prices = {1, 2, 3}
  Qtys = {1, 2}
  ME_MAX_PRICE_LEVELS = 4
  ME_MAX_ORDER_IDS = 4
  MaxRecoveries = 1
  NULL = NULL
  Clip = 1
  ThresholdNum = 7
  ThresholdDen = 10
  MaxOrderSize = 2
  MaxLoss = 0
  MaxPosition = 3
  OtherFeature <- MCOtherFeature
CHECK_DEADLOCK FALSE
INVARIANT MovedOrdersAreSent
