--------------------------- MODULE MCCoordinator ----------------------------
(* Small instances of the coordinator with a plain traffic gate. *)
EXTENDS Coordinator

CONSTANTS first, rival

\* first and rival are planned on the same predecessor.
MCPredGeneration == [p \in Plans |-> 0]
MCPredPlan == [p \in Plans |-> Base]
MCFallbackProven == [p \in Plans |-> p = first]
=============================================================================
