SPECIFICATION Spec
CONSTANTS
    Sizes = {0, 2, 5, 9, 19, 26}
    Counts = {1, 2, 3, 4}
    Lengths = {1, 2, 3, 5, 8}
    Words = 64
INVARIANTS TypeOK NoSharedRow AllRowsOnce SameCode IndicesExact
CHECK_DEADLOCK FALSE
