SPECIFICATION Spec
CONSTANTS
    Names = {"p", "a"}
    Parameters = {"p"}
    MaxStatements = 4
    MaxDepth = 2
INVARIANTS
    GraphsAreSound
    NothingLiveIsKilled
    NothingDeadIsKept
CHECK_DEADLOCK FALSE
