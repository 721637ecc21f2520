SPECIFICATION Spec
CONSTANTS
  Aircraft = {CCA1, CES2}
  Status = {WFPU, PUSH}
  NullStatus = NullStatus
  NoNode = NoNode
  NoAircraft = {CCA1, CES2}
  Top = Top
  MaxQueue = 3
  Ahead = {0, 97, 998}
INVARIANTS
  TypeOK
  NeverBeforeItself
  TagMatchesHandler
  NumbersFollowQueue
  TagFits
