CONSTANTS
    u1 = u1
    u2 = u2
    u3 = u3
    i1 = i1
    NoUser = NoUser
    Users <- Pair
    Items <- OneItem
    StartGold <- PairGold
    StartItems <- PairItems
    StartLists <- PairLists
    Capacity = 1
    Amounts <- OneCoin
    Leavers <- Nobody
    Purses <- NoCoin
    Bags <- EmptyBag
    MaxBacklog = 2
    MaxRequests = 2
    MaxAdds = 1
SPECIFICATION Spec
CHECK_DEADLOCK FALSE
PROPERTIES BothApproved
