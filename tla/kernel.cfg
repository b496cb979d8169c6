SPECIFICATION Spec
CONSTANTS
    w1 = w1
    w2 = w2
    Worker = {w1, w2}
    MaxInterrupts = 3
    MaxFailures = 2
    MaxCrashes = 1
INVARIANTS
    ActiveFutureIsAwaited
    AuditTrail
PROPERTIES
    ConsentKept
    ResolvedOnlyIfAwaited
    DecisionEndsWait
CHECK_DEADLOCK FALSE
