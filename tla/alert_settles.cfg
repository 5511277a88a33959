SPECIFICATION FairSpec
CONSTANTS
  r1 = r1
  r2 = r2
  k1 = k1
  NoKey = NoKey
  None = None
  Requests = {r1, r2}
  Keys = {k1}
  Workers = {w1}
  KeyOf <- MCKeyOfApart
  Truncated <- MCTruncated
  Stripped <- MCStripped
  Faults <- StatusFaults
  MaxQueued = 1
  MaxViewCrashes = 1
  MaxWorkerCrashes = 0
INVARIANTS
    OrdersAnswered
    LeakBound
PROPERTIES
    AlertsSettle
