SPECIFICATION Spec
CONSTANTS
  Airports = {ZBAA, ZSPD}
  MaxCommands = 1
CHECK_DEADLOCK FALSE
INVARIANTS
  TypeOK
  SocketsResolve
  ListedIsNewest
PROPERTIES
  AirportServed
  DroppedTerminates
  QuietShutdownTerminates
  PassConverges
