SPECIFICATION FairLoop
CONSTANTS
    o1 = o1
    o2 = o2
    u1 = u1
    u2 = u2
    g = g
    s = s
    z = z
    Nothing = Nothing
    Event = {o1, o2, g, s, z}
    KindOf <- Kinds
    ChatOf <- Chats
    TextOf <- Texts
INVARIANTS
    OneTurnAtATime
    NoMessageLost
    StopIsClean
PROPERTIES
    ServedInOrder
    OwnerIsAnswered
    StopEnds
