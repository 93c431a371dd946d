SPECIFICATION FairSpec
CONSTANTS
  w1 = w1
  w2 = w2
  w3 = w3
  Waiter = {w1, w2, w3}
  Process = {w1, w2, w3}
  pidOf <- MCOwnProcess
  RetryMax = 2
  MaxSerial = 1
  NoFile = NoFile
  NoToken = NoToken
INVARIANTS TypeOK MutualExclusion SectionHoldsRecord
PROPERTIES LiveOwnerKeepsLock ImplementsMutex AcquireSettles
CHECK_DEADLOCK FALSE
