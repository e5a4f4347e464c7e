SPECIFICATION FairSpec
CONSTANTS
    a1 = a1
    a2 = a2
    n1 = n1
    n2 = n2
    d1 = d1
    Account <- One
    Note <- TwoNotes
    Owner <- OwnedByOne
    Birth <- BornAtInit
    PoolsOf <- MixedPoolsOf
    PoolOf <- MixedPoolOf
    AddrsOf <- MixedAddrsOf
    AddrOf <- MixedAddrOf
    Outs <- NoOuts
    BirthCached <- One
    Faults <- StopFaults
    InitHeight = 1
    MaxHeight = 4
    MinFork = 1
    PerBlock = 1
    CheckpointAge = 1
    ChanCap = 2
INVARIANT HeightHasHeader
PROPERTIES ImplementsPromise CatchesUp
