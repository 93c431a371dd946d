SPECIFICATION FairSpec
CONSTANTS
  boss = boss
  lead = lead
  worker = worker
  Session = {boss}
  NoSession = NoSession
  Owner <- MCOwner
  Claude = {boss}
  Mortal = {boss}
  Temp = {boss}
  Relaunchable = {boss}
  FailOpenAfter = 2
  MaxUpsets = 2
PROPERTY Unparked
CHECK_DEADLOCK FALSE
