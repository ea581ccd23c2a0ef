SPECIFICATION Spec
CONSTANTS
    Datagrams <- MCDatagrams
    CfgPort = 27015
    MaxBlocks = 3
    MaxPayload = 48
    IntMod = 2048
    Values <- MCValues
    KnownCmds <- MCKnownCmds
    MaxShown = 2
INVARIANTS
    TypeOK
    PayloadRecovered
    FramesExact
    OnlyRejectedLeak
    FaultsAccounted
    DesiredPortParsed
PROPERTY
    LaidOutHandled
    ImplementsSniffer
