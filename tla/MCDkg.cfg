SPECIFICATION FairSpec
CONSTANTS
    p1 = p1
    p2 = p2
    p3 = p3
    Participant = {p1, p2, p3}
    Scenarios <- CalmOrFlaky
    MaxMade <- TwoTries
    MaxAccount = 2
INVARIANTS TypeOK SameViews Agreement KeyHasOwners KeyNotLost
PROPERTY EventuallyShared
CHECK_DEADLOCK FALSE
