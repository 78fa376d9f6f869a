------------------------- MODULE MCGatedActivation --------------------------
(* Small instances of the coordinator with the reference exposure gate. *)
EXTENDS GatedActivation

MCPredGeneration == [p \in Plans |-> 0]
MCFallbackProven == [p \in Plans |-> FALSE]
=============================================================================
