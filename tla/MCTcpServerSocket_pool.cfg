CONSTANTS
    s1 = s1
    s2 = s2
    NoId = NoId
    Ids <- TwoSlots
    SendBufferSize = 4
    PacketLengths <- Lengths
    MaxConnections = 3
    MaxPackets = 1
    PartialWrites = FALSE
    LateCompletions = TRUE
    Shutdowns = TRUE
SPECIFICATION Spec
SYMMETRY SlotSymmetry
CHECK_DEADLOCK FALSE
INVARIANTS SlotPartition ConnectedIsActive ShutdownLeavesAtMostOne
