SPECIFICATION Spec
CONSTANTS
  r1 = r1
  r2 = r2
  k1 = k1
  NoKey = NoKey
  None = None
  Requests = {r1, r2}
  Keys = {k1}
  Workers = {w1}
  KeyOf <- MCKeyOf
  Truncated <- MCTruncated
  Stripped <- MCStripped
  Faults <- ProbeFaults
  MaxQueued = 1
  MaxViewCrashes = 1
  MaxWorkerCrashes = 0
INVARIANT NoOrphanOrder
