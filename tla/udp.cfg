SPECIFICATION FairSpec
CONSTANTS
    n1 = n1
    n2 = n2
    a = a
    b1 = b1
    b2 = b2
    toB = toB
    toA = toA
    Net <- MCNet
    Addr <- MCAddr
    NetOf <- MCNetOf
    Request <- MCRequest
    Source <- MCSource
    Target <- MCTarget
    Long <- MCLong
    Repeated <- MCRepeated
    Mortal <- MCMortal
    Cuttable <- MCCuttable
    ChanMax = 1
INVARIANTS
    TypeOK
    AnswerGoesBack
    AtMostOneAfterClose
    OnlyCloseOrPartitionStops
PROPERTIES
    ClosedEndsAtNextMessage
CHECK_DEADLOCK FALSE
