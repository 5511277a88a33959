--------------------------- MODULE MCFillStream ---------------------------
(* Instances of FillStream: p1 does not parse; m2 is for the second user.  *)
EXTENDS FillStream

CONSTANTS u1, u2, m1, m2, p1

MCUserOf == [m \in Msgs |-> IF m = m2 THEN u2 ELSE u1]

=============================================================================
