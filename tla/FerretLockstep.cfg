SPECIFICATION FairSpec
CONSTANTS
    N = 7
    K = 1
    PreOtN = 1
    Check = 1
    Malicious = TRUE
    Lockstep = TRUE
    Lengths = {1, 3, 6, 11}
    Needs = {1, 5}
    MaxCalls = 3
INVARIANTS TypeOK WritesInBounds NoSeedDelivered NeverServedTwice OutputsAgree NoFalseAlarm
PROPERTY CallsReturn
CHECK_DEADLOCK FALSE
