SPECIFICATION Spec
CONSTANTS
    N = 6
    K = 1
    PreOtN = 1
    Check = 1
    Malicious = FALSE
    Lockstep = FALSE
    Lengths = {1, 2, 5, 10}
    Needs = {}
    MaxCalls = 3
PROPERTY StreamSpec
CHECK_DEADLOCK FALSE
