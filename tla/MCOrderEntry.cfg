SPECIFICATION Spec
CONSTANTS
  Clients = {"c1", "c2"}
  MAX_PENDING_REQUESTS = 2
  SortThreshold = 16
  RxTimes = {1, 2}
  MaxRequests = 3
  MaxFills = 1
  MaxFaults = 1
  NULL = NULL
INVARIANT ClientOrder
INVARIANT IdsAreFresh
INVARIANT ServerLives
INVARIANT ResponsesInOrder
INVARIANT EntryInv
INVARIANT OrderInv
PROPERTY RequestsArrive
