------------------------- MODULE MCHostObservation -------------------------
(* An obligation on two slots and one on the second of them. *)
EXTENDS HostObservation

MCTargets == [o \in {"load", "serve"} |-> IF o = "load" THEN {"s0", "s1"} ELSE {"s1"}]
MCRequired == [s \in {"s0", "s1"} |-> 1]
=============================================================================
