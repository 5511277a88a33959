-------------------------- MODULE MCOrderLedger --------------------------
(* Instances of OrderLedger: an order of two lots, one of a single lot.    *)
EXTENDS OrderLedger

CONSTANTS o1, o2

MCLots == [o \in Orders |-> IF o = o1 THEN 2 ELSE 1]
MCForeignLots == {-1}

=============================================================================
