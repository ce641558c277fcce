SPECIFICATION Spec
CONSTANTS
  Clients = {"c1", "c2"}
  MAX_PENDING_REQUESTS = 3
  SortThreshold = 16
  RxTimes = {1, 2}
  MaxRequests = 3
  MaxFills = 1
  MaxFaults = 0
  NULL = NULL
INVARIANT NoResponseLost
