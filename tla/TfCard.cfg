SPECIFICATION FairSpec
CONSTANTS
    ErrLimit = 2
    Sizes = {"one", "several"}
    MaxSwaps = 3
    MaxLate = 1
INVARIANTS StatusInStep
PROPERTIES DropJustified CardMounted RemovalNoticed
CHECK_DEADLOCK FALSE
