CONSTANTS
  Secret = "valid"
  MaxPolls = 3
SPECIFICATION Spec
INVARIANT TypeOK
INVARIANT ReadyMeansBothUp
PROPERTY WaitTerminates
CHECK_DEADLOCK FALSE
