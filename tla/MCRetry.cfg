SPECIFICATION FairSpec
CONSTANTS
    a1 = a1
    a2 = a2
    u1 = u1
    Account = {a1, a2}
    User = {u1}
    MaxTip = 2
    Scenarios <- Retries
PROPERTY AutoSyncs
CHECK_DEADLOCK FALSE
