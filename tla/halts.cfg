SPECIFICATION FairSpec
CONSTANTS
  c1 = c1
  c2 = c2
  w1 = w1
  b1 = b1
  b2 = b2
  Callers = {c1}
  Workers = {w1}
  Watchers = {b1, b2}
  CallerLevels = {"L0", "L1", "L3"}
  Overruns = FALSE
  MaxHalts = 1
  MaxDay = 2
  MaxMishaps = 1
INVARIANTS
    HaltsHold
    FlatStaysFlat
PROPERTIES
    TripNeedsTwoPolls
    BreakerReacts
