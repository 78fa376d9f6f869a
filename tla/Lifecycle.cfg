SPECIFICATION FairSpec
CONSTANTS
    MaxNoise = 1
    MaxStray = 1
INVARIANTS
    AcksAreAnswers
    CompleteIsWitnessed
    FactIsSingle

    
CHECK_DEADLOCK FALSE
