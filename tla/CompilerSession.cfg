SPECIFICATION Spec
CONSTANTS
    Variables = {x, y}
    Values = {0, 1, 17}
    Nothing = Nothing
    Deleted = Deleted
    Placeholder = Placeholder
    Cells <- MCCells
    Operators = {"=="}
    Written = {0, 17}
    Excluded = {"alias", "rebound", "folded"}
    MaxRounds = 16
    MaxStatements = 3
    MaxCells = 4
SYMMETRY Symmetry
INVARIANTS
    SessionIsItsScript
    DebugRepeatsTheCell
CHECK_DEADLOCK FALSE
