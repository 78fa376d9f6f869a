SPECIFICATION FairSpec
CONSTANTS
    Tx = {1, 2}
    MaxRecords = 2
    MaxKills = 1
    MaxFaults = 1
    MaxForeign = 1
INVARIANTS
    
    OneJournal
    AcceptedStays
    RestoredIsClean
PROPERTIES
    NothingLost
    RemnantIsResolved
