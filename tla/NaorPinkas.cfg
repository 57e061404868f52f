SPECIFICATION FairSpec
CONSTANTS
    Order = 11
    Scalars = {2, 3}
    Lengths = {1, 2}
    MaxCalls = 2
INVARIANT TypeOK
PROPERTY IdealSpec
CHECK_DEADLOCK FALSE
