CONSTANTS
  Cuts <- CutsOutsideId
  MaxWraps = 1
  MaxTicks = 3
  MaxOther = 2
SPECIFICATION Spec
INVARIANT TypeOK
INVARIANT ExtractedIsSequencerId
PROPERTY FoundOnceLogged
CHECK_DEADLOCK FALSE
