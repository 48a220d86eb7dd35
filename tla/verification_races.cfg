SPECIFICATION Spec
CONSTANTS
    s1 = s1
    s2 = s2
    address = address
    bureau = bureau
    Sessions <- TwoSessions
    SubSteps <- TwoSubSteps
    MaxRuns = 2
SYMMETRY Alike
INVARIANTS TypeOK OverrideHasNoRejection BlockedAwaitsSomebody
CHECK_DEADLOCK FALSE
