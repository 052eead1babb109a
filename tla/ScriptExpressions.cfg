SPECIFICATION Spec
CONSTANTS
    SignBit = 8
    ByteBase = 4
    WordBytes = 2
    NoNumber = NoNumber
    Arguments <- MCArguments
    Operators = {"+", "-", "*", "/", "==", "!=", "<", ">=" }
    FunctionNames = {"Inc", "Dec", "Neg", "Abs", "Not", "ZeroNotEqual", "Verify",
        "Add", "Sub", "Mul", "Div", "Mod", "Equal", "EqualVerify", "NumEqual",
        "NumEqualVerify", "NumNotEqual", "LessThan", "GreaterThan", "Cat", "Size",
        "NumToBin", "BinToNum", "Slice"}
    Excluded = {"least", "falseBytes", "identity", "byteOrder", "sliceBounds"}
    MaxItems = 3
    MaxSteps = 2
INVARIANTS
    RangesAreExact
    ExpressionsAgree
PROPERTIES
    FoldingIsExact
CHECK_DEADLOCK FALSE
