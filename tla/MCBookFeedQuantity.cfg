SPECIFICATION FeedSpec
CONSTANTS
  Clients = {"c1"}
  Prices = {1, 2}
  Qtys = {1, 3}
  ME_MAX_PRICE_LEVELS = 3
  ME_MAX_ORDER_IDS = 3
  MaxOrders = 4
  MaxLag = 2
  OtherOrders = {x1}
  x1 = x1
  NULL = NULL
INVARIANT QuantityIsBook
