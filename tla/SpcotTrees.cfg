SPECIFICATION FairSpec
CONSTANT Depths = {3, 4, 5}
INVARIANTS LayerInOrder OneNodeUnknown SinglePoint
PROPERTY ChecksMatch
CHECK_DEADLOCK FALSE
