SPECIFICATION FairSpec
CONSTANT MaxRequests = 3
INVARIANTS ClientHearsOnce StatesAgree
PROPERTIES
    EventsFollowResponses
    BothSidesEnd
CHECK_DEADLOCK FALSE
