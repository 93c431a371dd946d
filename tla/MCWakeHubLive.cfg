SPECIFICATION FairSpec
CONSTANTS
  root = root
  lead = lead
  worker = worker
  Session = {root, lead, worker}
  NoSession = NoSession
  Spawner <- MCSpawner
  Conductor = {root, lead}
  Tasker = {worker}
  Unsteerable = {root}
  Prunable = {worker}
  Stoppable = {lead}
  Mortal = {worker}
  Asker = {lead}
  MaxStarts = 3
  MaxWakes = 2
PROPERTIES  WakesSettle
CHECK_DEADLOCK FALSE
