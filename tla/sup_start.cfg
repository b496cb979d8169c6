SPECIFICATION Spec
CONSTANTS
    t1 = t1
    t2 = t2
    t3 = t3
    t4 = t4
    k1 = k1
    k2 = k2
    k3 = k3
    weather = weather
    NoTask = NoTask
    NoTopic = NoTopic
    Nobody = Nobody
    Task = {t1, t2, t3, t4}
    Key = {k1, k2, k3}
    Topic = {weather}
    KeyOf <- SharedKey
    TopicOf <- OneTopic
    GivenOf <- T2Gives
    ReplacesOf <- T4Replaces
    Canceller = {}
    Responder = {}
    Stopper = {s1}
    Policy <- Roomy
    PreemptibleCallers = TRUE
    MaxCrashes = 1
    RuntimeEnabled = FALSE
    ChatOf <- SameValue
    OwnerOf <- SameValue
    SpecOf <- SameValue
    Client <- MCClient
INVARIANTS
    StopSparesLaterStarts
PROPERTIES
    RefinesIdempotentStart
