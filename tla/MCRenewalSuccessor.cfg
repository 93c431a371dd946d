SPECIFICATION Spec
CONSTANTS
  MaxRenewals = 2
  MaxEvents = 3
  Attempts = 3
INVARIANT SuccessorKept
CHECK_DEADLOCK FALSE
