SPECIFICATION Spec
CONSTANTS
    boot = boot
    p = p
    g = g
    joinP = joinP
    joinG = joinG
    putP = putP
    getG = getG
    Node <- MCNode
    Op <- MCOp
    Kind <- MCKind
    By <- MCBy
    Via <- MCVia
    ByAddress <- MCByAddress
    Follows <- MCFollows
    Mortal <- MCNode
    MaxFaults = 1
    Alpha = 2
INVARIANTS
    TypeOK
    JoinersMeet
    JoinedIsKnown
    FoundIfHeld
