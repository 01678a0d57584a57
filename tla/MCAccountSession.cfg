CONSTANTS
    s1 = s1
    s2 = s2
    a1 = a1
    a2 = a2
    None = None
    Slots <- MCSlots
    Accounts <- MCAccounts
    QueueCap = 2
    MaxEvents = 3
    MaxProgress = 1
SPECIFICATION Spec
CHECK_DEADLOCK FALSE
SYMMETRY Symmetry
INVARIANTS TypeOK OneSessionPerAccount OneSlotPerCharacter SessionPlaysItsCharacter LoginRecordHasOwner
PROPERTIES SavedNeverRegresses ProgressKept
