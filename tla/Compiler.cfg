SPECIFICATION Spec
CONSTANT
    Inputs <- MCInputs
INVARIANTS
    CycleIsReal
    OrderIsLeast
    DecisionFollowsPrecedence
    ObligationsAreBacked
CHECK_DEADLOCK FALSE
