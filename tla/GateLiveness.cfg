SPECIFICATION FairSpec
CONSTANTS
    r1 = r1
    l1 = l1
    Requests = {r1}
    Leases = {l1}
    MaxLog = 7
    MaxCrashes = 1
    MayDrift = FALSE
    BehavioralRestore = FALSE
INVARIANTS
    DrainedForever
PROPERTIES
    VerdictsAreMeasured
    OpeningIsResolved
    ImplementsSwitch
