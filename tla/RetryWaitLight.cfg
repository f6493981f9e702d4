CONSTANTS
  w1 = w1
  w2 = w2
  w3 = w3
  Waiters = {w1, w2, w3}
  Waits <- LightNodeWaits
  Role = "light"
  Tries = 3
  MaxHeight = 2
SPECIFICATION Spec
INVARIANT UnsupportedReturnedAtOnce
CHECK_DEADLOCK FALSE
