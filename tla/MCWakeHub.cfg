SPECIFICATION Spec
CONSTANTS
  root = root
  lead = lead
  worker = worker
  Session = {root, lead, worker}
  NoSession = NoSession
  Spawner <- MCSpawner
  Conductor = {root, lead}
  Tasker = {worker}
  Unsteerable = {root}
  Prunable = {lead, worker}
  Stoppable = {lead}
  Mortal = {lead}
  Asker = {lead}
  MaxStarts = 4
  MaxWakes = 2
INVARIANTS TypeOK WakeNotLost HoldHasCause
 
CHECK_DEADLOCK FALSE
