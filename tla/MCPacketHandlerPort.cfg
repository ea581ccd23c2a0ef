SPECIFICATION Spec
CONSTANTS
    Datagrams <- MCDatagrams
    CfgPort = 27016
    MaxBlocks = 3
    MaxPayload = 48
    IntMod = 2048
    Values <- MCValues
    KnownCmds <- MCKnownCmds
    MaxShown = 2
INVARIANT
    DesiredPortParsed
