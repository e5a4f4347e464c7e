SPECIFICATION Spec
CONSTANTS
    a1 = a1
    a2 = a2
    n1 = n1
    n2 = n2
    d1 = d1
    Account <- Two
    Note <- TwoNotes
    Owner <- OwnedByEach
    Birth <- BornAtInit
    PoolsOf <- ShieldedPoolsOf
    PoolOf <- ShieldedPoolOf
    AddrsOf <- ShieldedAddrsOf
    AddrOf <- ShieldedAddrOf
    Outs <- NoOuts
    BirthCached <- Two
    Faults <- StopOnce
    InitHeight = 1
    MaxHeight = 4
    MinFork = 1
    PerBlock = 1
    CheckpointAge = 1
    ChanCap = 2
INVARIANT NotesHaveWitness
