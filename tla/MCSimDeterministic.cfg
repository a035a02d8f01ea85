CONSTANT
    Scenarios = {"engine"}
    Idle = TRUE
SPECIFICATION Spec
INVARIANT Deterministic
CHECK_DEADLOCK FALSE
