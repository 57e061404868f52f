SPECIFICATION FairSpec
CONSTANTS
    Shapes <- MCShapes
    FlipSets = {{0, 3}, {1, 2, 5}}
    MaxRuns = 2
INVARIANTS TypeOK NoSharedChannel TreesGood NoFalseAlarm SameMatrix
PROPERTY Finishes
CHECK_DEADLOCK FALSE
