SPECIFICATION FairSpec
CONSTANTS
    a = a
    b = b
    ping = ping
    put = put
    Node <- MCNode
    Call <- MCCall
    Caller <- MCCaller
    Callee <- MCCallee
    Introduces <- MCIntroduces
    QueueMax = 1
INVARIANTS
    TypeOK
    OtherEndIsContact
    HandlerNeverBlocks
PROPERTIES
    ReplyEndsCall
    ClosedNodeStops
    ImplementsRequestReply
CHECK_DEADLOCK FALSE
