SPECIFICATION FairSpec
CONSTANTS
    MaxCmds = 2
    Polls = 1
    Kinds = {"stop","plain","busy","read","reads","write","writes"}
    Words = 1
    FifoCap = 1
    Clocks = {0, 1, 2}
    Reachable = {1}
    Widths = {1, 4}
INVARIANTS OwnAnswer OwnWords ConfigInStep
PROPERTIES Returns
CHECK_DEADLOCK FALSE
