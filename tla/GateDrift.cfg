SPECIFICATION Spec
CONSTANTS
    r1 = r1
    l1 = l1
    l2 = l2
    Requests = {r1}
    Leases = {l1, l2}
    MaxLog = 6
    MaxCrashes = 1
    MayDrift = TRUE
    BehavioralRestore = TRUE
SYMMETRY Symmetry
VIEW View
INVARIANTS
    ReplayMatchesDurable
    
PROPERTIES
    AdmitsOnlyIntactRoutes
    EffectsAreJournaled
