SPECIFICATION FairSpec
CHECK_DEADLOCK FALSE
CONSTANTS
  w1 = w1
  w2 = w2
  v1 = v1
  v2 = v2
  NoOne = NoOne
  Writers = {w1, w2}
  Verifiers = {v1, v2}
  MaxEmits = 2
  MaxRuns = 1
  MaxMishaps = 1
INVARIANTS
    ChainSound
    NoFalseAlarm
PROPERTIES
    AuditMoves
