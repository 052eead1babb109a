SPECIFICATION FairSpec
CONSTANTS
    Programs <- TrackedPrograms
    MaxBreakpoints <- BreakpointsIn
INVARIANTS FramesMatchSource StepsStopWhereAsked
PROPERTIES NoBreakpointMissed ImplementsScript CommandsReturn
CHECK_DEADLOCK FALSE
