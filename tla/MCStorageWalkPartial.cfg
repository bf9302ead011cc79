SPECIFICATION Spec
CONSTANTS
    KeyMax = 15  Tries <- MCTries  Sizes = {1, 2}
    SplitAfter = 1  SplitWays = 3  MaxStop = 1
INVARIANT StorageWhole
CHECK_DEADLOCK FALSE
