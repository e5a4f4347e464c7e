SPECIFICATION Spec
CONSTANTS
    a1 = a1
    a2 = a2
    n1 = n1
    n2 = n2
    d1 = d1
    Account <- One
    Note <- TwoNotes
    Owner <- OwnedByOne
    Birth <- BornAtInit
    PoolsOf <- MixedPoolsOf
    PoolOf <- MixedPoolOf
    AddrsOf <- MixedAddrsOf
    AddrOf <- MixedAddrOf
    Outs <- NoOuts
    BirthCached <- One
    Faults <- HostileFaults
    InitHeight = 1
    MaxHeight = 3
    MinFork = 1
    PerBlock = 1
    CheckpointAge = 1
    ChanCap = 2
INVARIANTS SpendsHaveNotes WitnessesHaveNotes
