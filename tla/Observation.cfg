SPECIFICATION Spec
CONSTANTS
    Pids = {1, 2}
    Slots = {"s0", "s1"}
    Obligations = {"load", "serve"}
    Targets <- MCTargets
    Epochs = {1, 2}
    Required <- MCRequired
    MaxTicks = 3
    MaxEvents = 3
INVARIANTS
    CoverageIsWitnessed
    ArgvIsItsOwn
CHECK_DEADLOCK FALSE
