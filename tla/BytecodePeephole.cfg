CONSTANTS
    Programs    <- MCPrograms
    EntryStacks <- MCEntryStacks
    MaxRounds    = 16
    LineLength   = 3
    CoreLength   = 4
    BranchLength = 2
SPECIFICATION Spec
INVARIANTS
    OptimizedAsWritten
    OriginsAreTrue
    NothingIsLeft
CHECK_DEADLOCK FALSE
