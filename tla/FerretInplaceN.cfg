SPECIFICATION Spec
CONSTANTS
    N = 7
    K = 1
    PreOtN = 1
    Check = 1
    Malicious = FALSE
    Lockstep = TRUE
    Lengths = {}
    Needs = {1, 5}
    MaxCalls = 2
INVARIANT InplaceYieldsN
CHECK_DEADLOCK FALSE
