SPECIFICATION Spec
CONSTANTS
  Airports = {ZBAA, ZSPD}
  Links = {l1, l2}
  NoAirport = NoAirport
  Null = Null
  NoData = NoData
  Malformed = Malformed
  MaxVersion = 2
CHECK_DEADLOCK FALSE
INVARIANTS
  TypeOK
  OwnPastQueue
  DrainedFeedIsCurrent
PROPERTY
  PushesShowUp
