SPECIFICATION Spec
CONSTANTS
    Names <- MCNames
    Numbers <- MCNumbers
    Hexes <- MCHexes
    Strings <- MCStrings
    Addresses <- MCAddresses
    Targets <- MCTargets
    SizedTypes <- MCSized
    SignBit = 8
    ByteBase = 4
    WordBytes = 2
    NoNumber = NoNumber
    BytesOf <- MCBytesOf
    Sources <- MCSources
    Excluded = {"importComment", "structGap", "anonymousEnd", "noLineEnd"}
INVARIANTS
    ParsedAsWritten
    FoldedAsWritten
CHECK_DEADLOCK FALSE
