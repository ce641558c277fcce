SPECIFICATION Spec
CONSTANTS
  Clients = {"c1"}
  Prices = {1, 2, 3}
  Qtys = {1, 2}
  ME_MAX_PRICE_LEVELS = 4
  ME_MAX_ORDER_IDS = 4
  MaxOrders = 4
  NULL = NULL
INVARIANT TypeOK
INVARIANT FifoInv
INVARIANT NotCrossed
INVARIANT EngineInv
PROPERTY PriceTimePriority
PROPERTY RequestsEnd
