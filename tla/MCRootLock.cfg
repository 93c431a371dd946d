SPECIFICATION Spec
CONSTANTS
  s1 = s1
  s2 = s2
  s3 = s3
  s4 = s4
  Server = {s1, s2, s3, s4}
  MaxBoots = 1
  MaxGen = 3
  MaxAttempts = 2
  NoRecord = NoRecord
  NoToken = NoToken
INVARIANTS TypeOK OneServerUnlessRaced HolderIsTop
SYMMETRY MCSymmetry
PROPERTIES SupersededByChildOnly LiveRecordKept
CHECK_DEADLOCK FALSE
CONSTRAINT RaceEndsRun
