SPECIFICATION Spec
CONSTANTS
    first = first
    rival = rival
    Base = Base
    w1 = w1
    n1 = n1
    n2 = n2
    Plans = {first}
    PredGeneration <- MCPredGeneration
    PredPlan <- MCPredPlan
    FallbackProven <- MCFallbackProven
    Procs = {w1}
    Nonces = {n1, n2}
    MaxIncarnation = 1
    MaxEpoch = 2
INVARIANT
    RetryFindsGeneration
CHECK_DEADLOCK FALSE
