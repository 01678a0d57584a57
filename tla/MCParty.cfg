CONSTANTS
    u1 = u1
    u2 = u2
    u3 = u3
    u4 = u4
    NoUser = NoUser
    Users <- Three
    MaxPartySize = 3
    IndexLimit = 2
    MaxInvitations = 3
    MaxDepartures = 2
SPECIFICATION Spec
CHECK_DEADLOCK FALSE
SYMMETRY UserSymmetry
INVARIANTS TypeOK MembersAgree InvitationsCanBeAnswered AiServerAgrees
