SPECIFICATION Spec
CONSTANTS
  Airports = {ZBAA}
  NoAirport = NoAirport
  Null = Null
  NoData = NoData
  Malformed = Malformed
  MaxVersion = 3
  Links = {l1}
CHECK_DEADLOCK FALSE
INVARIANT SettledIsCurrent
