SPECIFICATION LoopSpec
CONSTANTS
    o1 = o1
    o2 = o2
    u1 = u1
    u2 = u2
    g = g
    s = s
    z = z
    Nothing = Nothing
    Event = {o1, o2, u1}
    KindOf <- Kinds
    ChatOf <- Chats
    TextOf <- Texts
INVARIANTS
    CurrentTaskIsTheTurn
