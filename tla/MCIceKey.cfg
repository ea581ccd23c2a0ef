SPECIFICATION Spec
CONSTANTS
    Levels <- MCLevels
    Keys <- MCKeys
    Blocks <- MCBlocks
INVARIANTS
    TypeOK
    ScheduleComplete
    DecryptInverts
    SBoxesPermute
