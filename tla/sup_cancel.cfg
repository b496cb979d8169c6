SPECIFICATION Spec
CONSTANTS
    t1 = t1
    t2 = t2
    t3 = t3
    t4 = t4
    k1 = k1
    k2 = k2
    k3 = k3
    weather = weather
    NoTask = NoTask
    NoTopic = NoTopic
    Nobody = Nobody
    Task = {t1}
    Key = {k1, k2, k3}
    Topic = {weather}
    KeyOf <- OwnKey
    TopicOf <- NoTopics
    GivenOf <- NoneGiven
    ReplacesOf <- NoReplaced
    Canceller = {c1, c2}
    Responder = {p1, p2}
    Stopper = {}
    Policy <- Roomy
    PreemptibleCallers = TRUE
    MaxCrashes = 0
    RuntimeEnabled = TRUE
    ChatOf <- SameValue
    OwnerOf <- SameValue
    SpecOf <- SameValue
    Client <- MCClient
INVARIANTS
    ConfirmedCancelSticks
    ActiveRowHasRun
    WaitingHasCheckpoint
    OneAnswerAccepted
PROPERTIES
    EndedStaysEnded
