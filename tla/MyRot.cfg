SPECIFICATION Spec
CONSTANTS
    Apis = {"rot", "ot", "not"}
    Order = 11
    Lanes = 2
    BlockSize = 4
    Width = 2
    Cols = {0, 1}
    ScalarsA = {2}
    ScalarsB = {3}
    Plans <- MCPlans
    MaxRounds = 1
INVARIANT RotAgrees
CHECK_DEADLOCK FALSE
