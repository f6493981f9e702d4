CONSTANTS
  Cuts <- CutBeforeId
  MaxWraps = 1
  MaxTicks = 3
  MaxOther = 1
SPECIFICATION Spec
PROPERTY FoundOnceLogged
CHECK_DEADLOCK FALSE
