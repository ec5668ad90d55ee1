SPECIFICATION FairSpec
CONSTANTS
    Node <- MCNode
    Dist <- MCDist
    K = 2
    Alpha = 2
    ListMax = 2
INVARIANTS
    TypeOK
    KeepsKClosest
    AtMostAlphaQueries
    TimeoutHasResult
    CompleteUnlessAllLost
PROPERTIES
    NeverAskedAgain
    Termination
CHECK_DEADLOCK FALSE
