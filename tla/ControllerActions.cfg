SPECIFICATION Spec
CONSTANTS
  Aircraft = {ac}
  Screens = {s1, s2, s3}
  StartUp = {"STUP", "ST-UP"}
  NoAircraft = NoAircraft
  NoStatus = NoStatus
INVARIANTS
  TypeOK
  ShownAreKept
  ChoiceIsShown
PROPERTIES
  OnlyTheChoicePatched
  HeardAfterChoice
  InStep
