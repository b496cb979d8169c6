SPECIFICATION LiveSpec
CONSTANTS
    s1 = s1
    s2 = s2
    Signature = {s1, s2}
    Delegate = {s2}
    Cooldowns <- Waits
    Surface = {"chat", "tick"}
    Rounds <- RoundsOf
    Budget <- BudgetOf
    Burst <- BurstOf
    MaxCalls = 2
    Blocking = TRUE
    HistorySize = 4
    Threshold = 3
    MaxCompacts = 1
    MaxEmpties = 1
    MaxOutages = 1
    KeepRecent = 1
INVARIANTS
    RequestShape
    EveryResultIsTold
    BurstIsTold
    NoEndlessRepeat
    IdleAnswersBounded
PROPERTIES
    CoolingEnds
