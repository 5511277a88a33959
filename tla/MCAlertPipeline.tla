-------------------------- MODULE MCAlertPipeline --------------------------
(* Instances of AlertPipeline: r1 and r2 post the same key, or r1 posts a   *)
(* key and r2 none; the key is short and has no blanks around it.           *)
EXTENDS AlertPipeline

CONSTANTS r1, r2, k1

MCKeyOf == [r \in Requests |-> IF r \in {r1, r2} THEN k1 ELSE NoKey]
MCKeyOfApart == [r \in Requests |-> IF r = r1 THEN k1 ELSE NoKey]
MCTruncated == [k \in Keys |-> k]
MCStripped == [k \in Keys |-> k]
AllFaults == FaultKinds
StatusFaults == {"server_error", "unexpected"}
ProbeFaults == {"server_error", "timeout", "probe_error"}

=============================================================================
