SPECIFICATION Spec
CONSTANTS
    a1 = a1
    a2 = a2
    n1 = n1
    n2 = n2
    d1 = d1
    Account <- One
    Note <- TwoNotes
    Owner <- OwnedByOne
    Birth <- BornAtInit
    PoolsOf <- ShieldedPoolsOf
    PoolOf <- ShieldedPoolOf
    AddrsOf <- ShieldedAddrsOf
    AddrOf <- ShieldedAddrOf
    Outs <- NoOuts
    BirthCached <- One
    Faults <- ReorgFaults
    InitHeight = 1
    MaxHeight = 4
    MinFork = 1
    PerBlock = 1
    CheckpointAge = 1
    ChanCap = 2
SYMMETRY NoteSymmetry
INVARIANTS TypeOK ChunksFit WitnessesUsable
PROPERTY ImplementsPromise
