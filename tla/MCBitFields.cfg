SPECIFICATION FieldSpec
CONSTANTS
    Sizes <- MCSizes
    Widths <- MCWidths
    Positions <- MCPositions
    Offsets <- MCOffsets
    MaxRun = 8
    Buffers <- MCBuffers
    MaxReads = 20
INVARIANTS
    SentIsRead
    FlagIsExact
    ReadsInPlace
PROPERTY
    CallReturns
