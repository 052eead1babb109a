SPECIFICATION Spec
CONSTANTS
    MaxMoveWindow = 6
    MaxCopyDepth = 3
    ScopeSize = 7
    MaxArgs = 3
INVARIANTS
    PlansAreBest
    EmittedMovesAreExact
CHECK_DEADLOCK FALSE
