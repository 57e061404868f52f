SPECIFICATION FairSpec
CONSTANTS
    Malicious = TRUE
    Params = {10, 11}
    Ends = {"assemble", "destroy", "reload"}
    MaxSessions = 3
    MaxExt = 1
    MaxCrashes = 1
INVARIANTS TypeOK CorrelatedUntilCrash  NoReplay EndsMatch
PROPERTY RunsEnd
CHECK_DEADLOCK FALSE
