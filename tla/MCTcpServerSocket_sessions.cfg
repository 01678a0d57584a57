CONSTANTS
    s1 = s1
    s2 = s2
    NoId = NoId
    Ids <- OneSlot
    SendBufferSize = 4
    PacketLengths <- Lengths
    MaxConnections = 2
    MaxPackets = 3
    PartialWrites = TRUE
    LateCompletions = FALSE
    Shutdowns = FALSE
SPECIFICATION FairSpec
CHECK_DEADLOCK FALSE
INVARIANTS TypeOK SendChainIntact NoForeignBytes
PROPERTIES CloseFlushesQueue CloseCompletes
