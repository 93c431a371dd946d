SPECIFICATION Spec
CONSTANTS
  w1 = w1
  w2 = w2
  loose = loose
  c1 = c1
  c2 = c2
  plan = plan
  work = work
  review = review
  Session = {w1, w2, loose}
  NoSession = NoSession
  Loose = {loose}
  Call = {c1, c2}
  NoCall = NoCall
  Stage = {plan, work, review}
  NoStage = NoStage
  Edges <- MCEdges
  Spawnable = {plan, review}
  Many = {}
  Denied <- MCDenied
  Needs <- MCNeeds
  MaxCalls = 3
  MaxEvents = 1
  MaxFaults = 1
INVARIANTS TypeOK OneWorkerPerStage LivesAlternate
PROPERTY HistoryKept
SYMMETRY MCSymmetry
CHECK_DEADLOCK FALSE
