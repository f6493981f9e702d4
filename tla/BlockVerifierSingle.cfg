CONSTANTS
  s = s
  a = a
  p1 = p1
  p2 = p2
  Producers = {s, a}
  Sequencer = s
  Forger = a
  Mode = "single"
  Attacks <- SingleAttacks
  MaxHeight = 4
  MaxInjections = 2
SPECIFICATION Spec
PROPERTY ImplementsAbstractChain
CHECK_DEADLOCK FALSE
