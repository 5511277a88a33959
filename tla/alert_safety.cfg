SPECIFICATION Spec
CONSTANTS
  r1 = r1
  r2 = r2
  k1 = k1
  NoKey = NoKey
  None = None
  Requests = {r1, r2}
  Keys = {k1}
  Workers = {w1, w2}
  KeyOf <- MCKeyOf
  Truncated <- MCTruncated
  Stripped <- MCStripped
  Faults <- AllFaults
  MaxQueued = 1
  MaxViewCrashes = 1
  MaxWorkerCrashes = 1
INVARIANTS
    SubmitsOnce
    AnswersHold
PROPERTIES
    ImplementsIntake
