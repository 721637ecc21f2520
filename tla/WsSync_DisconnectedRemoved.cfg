SPECIFICATION Spec
CONSTANTS
  Airports = {ZBAA}
  MaxCommands = 1
CHECK_DEADLOCK FALSE
PROPERTY DisconnectedRemoved
