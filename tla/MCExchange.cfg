CONSTANTS
    u1 = u1
    u2 = u2
    u3 = u3
    i1 = i1
    NoUser = NoUser
    Users <- Trio
    Items <- OneItem
    StartGold <- TrioGold
    StartItems <- TrioItems
    StartLists <- TrioLists
    Capacity = 1
    Amounts <- OneCoin
    Leavers <- Giver
    Purses <- NoCoin
    Bags <- EmptyBag
    MaxBacklog = 1
    MaxRequests = 2
    MaxAdds = 1
SPECIFICATION Spec
CHECK_DEADLOCK FALSE
SYMMETRY Others
INVARIANTS TypeOK MirrorDividesBag
PROPERTIES GoldAccountedFor PartnersMutual
