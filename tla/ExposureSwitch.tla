--------------------------- MODULE ExposureSwitch ---------------------------
(***************************************************************************)
(* What an exposure gate promises to the requests it admits: a one-way     *)
(* switch.  Requests are served by the predecessor until the switch, by    *)
(* the candidate after it, and by nobody once the gate is shut.  A request *)
(* is served by one generation only, and the switch never goes back.       *)
(***************************************************************************)
CONSTANT Requests

VARIABLES
    phase,    \* who serves a new request: "pred", "cand", or nobody ("shut")
    served    \* the generation that serves each request, "none" before

Init ==
    /\ phase = "pred"
    /\ served = [r \in Requests |-> "none"]

Serve(r) ==
    /\ phase # "shut" /\ served[r] = "none"
    /\ served' = [served EXCEPT ![r] = phase]
    /\ UNCHANGED phase

Flip ==
    /\ phase = "pred" /\ phase' = "cand"
    /\ UNCHANGED served

Shut ==
    /\ phase # "shut" /\ phase' = "shut"
    /\ UNCHANGED served

Next == Flip \/ Shut \/ \E r \in Requests : Serve(r)

Spec == Init /\ [][Next]_<<phase, served>>
=============================================================================
