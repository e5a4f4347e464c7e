SPECIFICATION Spec
CONSTANTS
    Keys <- MCKeys
    ValidIndex <- MCValidIndex
    FolderNames = {"home"}
    Top = 2
    Involved <- MCInvolved
    PurgeAge = 0
    Categories = {0, 1}
    Budgets <- MCBudgets
INVARIANTS
    TypeOK
    PositionsDistinct
    FolderExists
    CurrentAddressKnown
    RowsOfOwnKey
    DetailsComplete
    NotesKeepWitness
    RoundTrip
PROPERTIES
    OrderKept
    PurgedAfterMerge
CHECK_DEADLOCK FALSE
