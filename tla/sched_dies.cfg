SPECIFICATION Spec
CONSTANTS
    o = o
    a = a
    r1 = r1
    r2 = r2
    r3 = r3
    Nothing = Nothing
    Event = {o, a}
    KindOf <- Kinds
    ChatOf <- Chats
    TextOf <- Texts
    Reminder = {r1, r2, r3}
    DueOf <- Due
    NextOf <- Nexts
    AskOf <- Asks
    MaxNow = 2
    MaxCrashes = 0
INVARIANTS
    SchedulerLives
