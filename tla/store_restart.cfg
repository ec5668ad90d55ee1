SPECIFICATION Spec
CONSTANTS
    s1 = s1
    s2 = s2
    s3 = s3
    Key = {k1, k2}
    Empty = {k2}
    Call <- MCCall
    Reader = {r1}
    NoChannel = NoChannel
    NoKey = NoKey
INVARIANTS
    RestartReachesRepublisher
CHECK_DEADLOCK FALSE
