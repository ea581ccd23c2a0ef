SPECIFICATION FairSpec
CONSTANTS
    Packets <- MCPackets
    MaxPayload = 48
    IntMod = 2048
    Values <- MCValues
    KnownCmds <- MCKnownCmds
    MaxShown = 1
INVARIANTS
    TypeOK
    CursorOnByte
    NoReadAfterOverflow
    PrintsTheMessages
PROPERTY
    LaidOutWalkEnds
    EndsOrGoesBack
