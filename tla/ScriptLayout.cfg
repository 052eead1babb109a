CONSTANTS
    SignBit       = 9
    ByteBase      = 18
    WordBytes     = 1
    NoNumber      = NoNumber
    NoSize        = NoSize
    MaxDirect     = 3
    MaxSmall      = 2
    Opcodes       <- MCOpcodes
    Fields        <- MCFields
    FieldLengths  <- MCLengths
    Payloads      <- MCPayloads
    Numbers       <- MCNumbers
    Used          <- MCUsed
    EntryStacks   <- MCEntryStacks
    Alignment     = 5
    MaxCode       = 3
    MaxState      = 2
    Excluded      = {"sharedLabels"}
SPECIFICATION Spec
INVARIANTS
    RepresentationsAgree
    DeployedAsWritten
PROPERTY
    FinalizedOnce
CHECK_DEADLOCK FALSE
