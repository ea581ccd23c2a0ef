SPECIFICATION Spec
CONSTANTS
    Sizes <- MCDWord
    Widths <- MCWidths
    Positions <- MCPositions
    Offsets <- MCOffsets
    MaxRun = 3
PROPERTY
    EagerLoadsInBounds
