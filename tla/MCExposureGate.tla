--------------------------- MODULE MCExposureGate ---------------------------
(* Small instances of the exposure gate. *)
EXTENDS TraceOracle, TLC

\* Requests and leases are only compared for equality.
Symmetry == Permutations(Requests) \cup Permutations(Leases)

\* No action reads ret, and no property that a run checks with this view does.
View == <<row, log, admissions, route, grant, expired, at, arg, crashes>>
=============================================================================
