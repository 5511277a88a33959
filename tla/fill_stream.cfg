SPECIFICATION FairSpec
CONSTANTS
  u1 = u1
  u2 = u2
  m1 = m1
  m2 = m2
  p1 = p1
  Users = {u1}
  Msgs = {m1, p1}
  Poison = {p1}
  UserOf <- MCUserOf
  Sweepers = {s1, s2}
  MaxDeliveries = 2
  BatchSize = 1
  MaxDepth = 1
  MaxLen = 4
  MaxFailures = 2
  MaxFaults = 1
INVARIANTS
    FillsConsistent
    NothingLost
PROPERTIES
    FillsGetSettled
