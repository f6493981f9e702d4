CONSTANTS
  w1 = w1
  w2 = w2
  w3 = w3
  Waiters = {w1, w2, w3}
  Waits <- FullNodeWaits
  Role = "full"
  Tries = 3
  MaxHeight = 2
SPECIFICATION Spec
INVARIANT SuccessIsReal
INVARIANT ExhaustedRetryAccounting
CHECK_DEADLOCK FALSE
