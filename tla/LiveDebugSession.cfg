SPECIFICATION FairSpec
CONSTANTS
    MaxRequests = 3
    EndPC = 2
INVARIANTS
    TypeOK
    TerminatedIsFinal
    PauseStopFollowsItsResponse
    FlagsHaveAnOwner
PROPERTIES
    VMHasOneUser
    ImplementsProtocol
    NobodyWaitsForEver
