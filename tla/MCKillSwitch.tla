--------------------------- MODULE MCKillSwitch ---------------------------
(* Instances of KillSwitch. *)
EXTENDS KillSwitch

CONSTANTS c1, c2, w1, b1, b2

=============================================================================
