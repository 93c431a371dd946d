SPECIFICATION Spec
CONSTANTS
  boss = boss
  lead = lead
  worker = worker
  Session = {boss, lead}
  NoSession = NoSession
  Owner <- MCOwner
  Claude = {boss}
  Mortal = {boss, lead}
  Temp = {}
  Relaunchable = {}
  FailOpenAfter = 1
  MaxUpsets = 1
INVARIANTS TypeOK QueueHasFlush PolicyIsLive 
PROPERTY ResumeOnlyMarked
CHECK_DEADLOCK FALSE
