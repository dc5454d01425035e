SPECIFICATION FairSpec
CONSTANTS
    Lengths = {0, 1, 2, 3, 4, 5, 6, 7, 8, 9}
    Limits = {1, 2, 3, 4, 10}
INVARIANTS Reassembles WellFramed SplitInv
PROPERTY BuildEnds
CHECK_DEADLOCK FALSE
