SPECIFICATION Spec
CONSTANTS
    Depth = 5
    MaxOutputs = 5
    MaxTracked = 2
INVARIANT PathsLeadToRoot
CHECK_DEADLOCK FALSE
