SPECIFICATION FairSpec
CONSTANTS
  root = root
  worker = worker
  solo = solo
  Session = {root, worker, solo}
  NoSession = NoSession
  Spawner <- MCSpawner
  Parked = {solo}
  Mortal = {worker, solo}
  Relaunchable = {root}
  MaxEvents = 3
  MaxRestarts = 2
  MaxCrashes = 1
INVARIANTS TypeOK OneCli   NoticeOnce
PROPERTIES  DrainEnds RestoreEnds
CHECK_DEADLOCK FALSE
