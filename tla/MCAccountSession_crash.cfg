CONSTANTS
    s1 = s1
    s2 = s2
    a1 = a1
    a2 = a2
    None = None
    Slots <- MCSlots
    Accounts <- OneAccount
    QueueCap = 2
    MaxEvents = 3
    MaxProgress = 1
SPECIFICATION FairSpec
CHECK_DEADLOCK FALSE
PROPERTY CrashSavesEveryone
