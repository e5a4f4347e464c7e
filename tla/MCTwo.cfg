SPECIFICATION Spec
CONSTANTS
    a1 = a1
    a2 = a2
    n1 = n1
    n2 = n2
    d1 = d1
    Account <- Two
    Note <- TwoNotes
    Owner <- OwnedByOne
    Birth <- BornAtInit
    PoolsOf <- FirstMixedPoolsOf
    PoolOf <- MixedPoolOf
    AddrsOf <- FirstMixedAddrsOf
    AddrOf <- MixedAddrOf
    Outs <- JoinedOuts
    BirthCached <- Two
    Faults <- TwoFaults
    InitHeight = 1
    MaxHeight = 4
    MinFork = 1
    PerBlock = 2
    CheckpointAge = 1
    ChanCap = 2
PROPERTIES ImplementsPromise OthersUntouched
