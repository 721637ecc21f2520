SPECIFICATION Spec
CONSTANTS
  StatusRequests = {clrd}
  OrderRequests = {toTop}
  NoRequest = NoRequest
  MaxPushes = 2
  MaxCodes = 2
CHECK_DEADLOCK FALSE
PROPERTY EveryRequestSent
