SPECIFICATION Spec
CONSTANTS
  Prices = {1, 2, 3}
  Qtys = {1, 2}
  ME_MAX_PRICE_LEVELS = 4
  ME_MAX_ORDER_IDS = 5
  MaxRecoveries = 1
  NULL = NULL
CHECK_DEADLOCK FALSE
INVARIANT LevelsHoldOrders
