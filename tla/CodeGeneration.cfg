SPECIFICATION Spec
CONSTANTS
    Variables = {p, q, a}
    Parameters = {p, q}
    Values = {0, 1}
    Nothing = Nothing
    Deleted = Deleted
    Placeholder = Placeholder
    Operators = {"==", "<"}
    SignBit = 8
    Excluded = {"alias", "lostCondition", "altLocal", "localCopy", "rebound"}
    MaxStatements = 4
    MaxDepth = 2
INVARIANTS
    MirrorIsExact
    CompiledAsInterpreted
    FactsAreTrue
CHECK_DEADLOCK FALSE
