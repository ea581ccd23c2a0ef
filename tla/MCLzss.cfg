SPECIFICATION Spec
CONSTANTS
    WindowSizes = {8, 32}
    Inputs <- MCInputs
    Bases = {3}
CHECK_DEADLOCK FALSE
INVARIANTS
    TypeOK
    HashLists
    LongestMatch
    OutputFits
    RoundTrip
PROPERTY
    CallEnds
