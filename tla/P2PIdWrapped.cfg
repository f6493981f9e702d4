CONSTANTS
  Cuts <- AnyCut
  MaxWraps = 2
  MaxTicks = 3
  MaxOther = 2
SPECIFICATION Spec
INVARIANT ExtractedIsSequencerId
CHECK_DEADLOCK FALSE
