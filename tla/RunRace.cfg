\* Two runs wait for the same event and dial on its timeout; everything races.
SPECIFICATION Spec
CONSTANTS
    w2 = w2
    w1 = w1
    r2 = r2
    r1 = r1
    e2 = e2
    e1 = e1
    Definition <- RaceFlow
    InitialStep = "event"
    NoStep = "none"
    Topics = {"payment"}
    Runs = {r1, r2}
    Workers = {w1, w2}
    Events = {e1, e2}
    NoEvent = "none"
    TopicOf <- PaymentEvents
    Reports = {"completed", "no-answer", "callback"}
    MaxCalls = 2
    MaxAttemptRows = 2
    BatchLimit = 1
SYMMETRY Interchangeable
INVARIANTS
    TypeOK
    DialledStepHasAttempt
    ScheduledAttemptIsLast
    EventXorTimeout
    EventMatchesOneWait
    CancelledRunIsSilent
PROPERTIES
    RunIsAWalk
    PauseBlocksTimersAndEvents
CHECK_DEADLOCK FALSE
