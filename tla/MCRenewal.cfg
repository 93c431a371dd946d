SPECIFICATION FairSpec
CONSTANTS
  MaxRenewals = 2
  MaxEvents = 6
  Attempts = 3
INVARIANTS TypeOK SummaryNotLost
PROPERTIES OwnerNotWokenEarly OwnerWoken 
CHECK_DEADLOCK FALSE
