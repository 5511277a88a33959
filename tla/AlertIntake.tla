---------------------------- MODULE AlertIntake ----------------------------
(***************************************************************************)
(* What the webhook pipeline promises a strategy: an intent (one client    *)
(* order id) is claimed by at most one alert, and ends up sent to the      *)
(* broker once or dropped before it was sent; it is never sent twice and   *)
(* never sent after it was dropped.  AlertPipeline implements this.        *)
(***************************************************************************)
CONSTANTS Intents, Owners, Nobody

VARIABLES
  claim,  \* [Intents -> Owners \cup {Nobody}]
  fate    \* [Intents -> {"open", "sent", "dropped"}]

Init ==
  /\ claim = [i \in Intents |-> Nobody]
  /\ fate = [i \in Intents |-> "open"]

Claim(i, o) ==
  /\ claim[i] = Nobody
  /\ claim' = [claim EXCEPT ![i] = o]
  /\ UNCHANGED fate

Settle(i, outcome) ==
  /\ claim[i] # Nobody
  /\ fate[i] = "open"
  /\ fate' = [fate EXCEPT ![i] = outcome]
  /\ UNCHANGED claim

Next ==
  \E i \in Intents :
    \/ \E o \in Owners : Claim(i, o)
    \/ \E outcome \in {"sent", "dropped"} : Settle(i, outcome)

Spec == Init /\ [][Next]_<<claim, fate>>

=============================================================================
