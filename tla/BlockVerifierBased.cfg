CONSTANTS
  s = s
  a = a
  p1 = p1
  p2 = p2
  Producers = {p1, p2, a}
  Sequencer = p1
  Forger = a
  Mode = "based"
  Attacks <- BasedAttacks
  MaxHeight = 3
  MaxInjections = 1
SPECIFICATION Spec
INVARIANT AcceptedChainLinked
PROPERTY DeferredBlocksNotLost
PROPERTY HeldBlocksReleased
CHECK_DEADLOCK FALSE
