CONSTANTS
    SocketCount = 2
    MaxPackets = 3
SPECIFICATION FairSpec
INVARIANTS TypeOK PacketsAccountedFor SentInOrder
PROPERTY EveryPacketSettles
