CONSTANTS
  Secret = "valid"
  MaxPolls = 3
SPECIFICATION Spec
INVARIANT NoBodyLeaked
CHECK_DEADLOCK FALSE
