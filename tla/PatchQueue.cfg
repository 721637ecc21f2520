SPECIFICATION Spec
CONSTANTS
  StatusRequests = {clrd}
  OrderRequests = {toTop}
  NoRequest = NoRequest
  MaxPushes = 3
  MaxCodes = 2
CHECK_DEADLOCK FALSE
INVARIANTS
  TypeOK
  Conservation
  NoPopOnEmpty
  AtMostOneAfterStop
  NeverOlderCode
PROPERTIES
  ImplementsChannel
  StopLeadsToDestroyed
  NextPushReleases
