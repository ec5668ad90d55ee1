SPECIFICATION FairSpec
CONSTANTS
    p1 = p1
    p2 = p2
    p3 = p3
    Key = {k1}
    Call <- MCCall
    Stopper = {d1, d2}
    NoChannel = NoChannel
INVARIANTS
    TypeOK
    ClosedAtMostOnce
    CalmRefresherIsReachable
PROPERTIES
    StoppedRefresherEnds
