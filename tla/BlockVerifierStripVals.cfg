CONSTANTS
  s = s
  a = a
  p1 = p1
  p2 = p2
  Producers = {s, a}
  Sequencer = s
  Forger = a
  Mode = "single"
  Attacks <- StripVals
  MaxHeight = 3
  MaxInjections = 1
SPECIFICATION Spec
INVARIANT OnlySequencerBlocksAccepted
CHECK_DEADLOCK FALSE
