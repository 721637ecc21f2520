SPECIFICATION Spec
CONSTANTS
  Aircraft = {ac}
  Screens = {s1}
  StartUp = {"STUP", "ST-UP"}
  NoAircraft = NoAircraft
  NoStatus = NoStatus
PROPERTIES
  TrackedAreUpdated
