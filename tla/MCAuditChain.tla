--------------------------- MODULE MCAuditChain ---------------------------
(* Instances of AuditChain. *)
EXTENDS AuditChain

CONSTANTS w1, w2, v1, v2

=============================================================================
