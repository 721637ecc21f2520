SPECIFICATION Spec
CONSTANTS
  StatusRequests = {clrd}
  OrderRequests = {toTop}
  NoRequest = NoRequest
  MaxPushes = 1
  MaxCodes = 1
  Airports = {ZBAA}
  MaxCommands = 0
CHECK_DEADLOCK FALSE
INVARIANTS
  TypeOK
  MembersOutliveThreads
  UnloadGoesOn
PROPERTIES
  UnloadsAsPromised
  UnloadShrinks
  OnlyConnectionsHoldUnload
