SPECIFICATION SupervisionFairSpec
CONSTANTS
    Workers = {w1, w2}
    MaxSignals = 3
INVARIANTS
    TreeIsEnded
PROPERTIES
    SignalledTreeEnds
CHECK_DEADLOCK FALSE
