SPECIFICATION FairSpec
CONSTANTS
    o = o
    u = u
    t = t
    Nothing = Nothing
    Event = {o, u, t}
    Item = {"reminder"}
    KindOf <- Kinds
    ChatOf <- Chats
    TextOf <- Texts
INVARIANTS
    UrgencyHasATick
PROPERTIES
    SilentInConversation
    UrgencyIsSeen
    UserIsAnswered
