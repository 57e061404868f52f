SPECIFICATION FairSpec
CONSTANTS
    BlockSize = 6
    Width = 2
    CheckRows = 4
    BaseN = 2
    Batch = 4
    Providers = {"iknp", "base", "ferret"}
    Secrets <- MCSecrets
    Calls <- MCCalls
    Drawn = {{0, 3}, {1, 2}}
    MaxCalls = 3
INVARIANTS TypeOK OutputsMatch InStep NoFalseAlarm
PROPERTY CallsReturn
CHECK_DEADLOCK FALSE
