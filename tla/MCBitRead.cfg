SPECIFICATION Spec
CONSTANTS
    Sizes <- MCSizes
    Widths <- MCWidths
    Positions <- MCPositions
    Offsets <- MCOffsets
    MaxRun = 3
INVARIANTS
    TypeOK
    InStep
    Aligned
    LoadsInBounds
PROPERTY
    ImplementsStream
