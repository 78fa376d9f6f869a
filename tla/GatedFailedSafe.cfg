SPECIFICATION GatedSpec
CONSTANTS
    p1 = p1
    w1 = w1
    n1 = n1
    r1 = r1
    l1 = l1
    Plans = {p1}
    PredGeneration <- MCPredGeneration
    FallbackProven <- MCFallbackProven
    Procs = {w1}
    Nonces = {n1}
    MaxIncarnation = 1
    MaxEpoch = 2
    Requests = {r1}
    Leases = {l1}
    MaxLog = 6
    MaxCrashes = 0
    MayDrift = FALSE
    BehavioralRestore = FALSE
PROPERTY
    FailedSafeIsClosed
CHECK_DEADLOCK FALSE
