SPECIFICATION FairSpec
CONSTANTS
    DevCounts <- MCDevCounts
    DevInputs <- MCDevInputs
    PortInputs <- MCPortInputs
    StackPorts <- MCStackPorts
    Moves = TRUE
    MaxFile = 28
INVARIANTS
    TypeOK
    StoredIsUsed
    FileKeepsItsSize
    KnownFailures
PROPERTY
    DialogueEnds
