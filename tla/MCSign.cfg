SPECIFICATION FairSpec
CONSTANTS
    c = c
    p1 = p1
    p2 = p2
    Participant = {c, p1, p2}
    Coordinator = c
    MaxNonce = 3
    MaxLost = 3
    Scenarios <- Signings
INVARIANTS TypeOK NonceSignsOnce OnePackage
PROPERTY EventuallySigned
CHECK_DEADLOCK FALSE
