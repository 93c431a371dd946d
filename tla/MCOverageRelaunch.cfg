SPECIFICATION Spec
CONSTANTS
  boss = boss
  lead = lead
  worker = worker
  Session = {boss, lead}
  NoSession = NoSession
  Owner <- MCOwner
  Claude = {boss}
  Mortal = {}
  Temp = {}
  Relaunchable = {lead}
  FailOpenAfter = 1
  MaxUpsets = 2
INVARIANT EveryQueueFlushed
CHECK_DEADLOCK FALSE
