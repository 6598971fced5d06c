\* A wait step entered a second time.
SPECIFICATION DriverSpec
CONSTANTS
    Definition <- LoopFlow
    InitialStep = "call"
    NoStep = "none"
    Topics = {"payment"}
    Runs = {"r1"}
    Workers = {"w1"}
    Events = {"e1"}
    NoEvent = "none"
    TopicOf <- PaymentEvents
    Reports = {"completed", "busy"}
    MaxCalls = 3
    MaxAttemptRows = 3
    BatchLimit = 2
    MaxCrashes = 0
INVARIANTS
    WaitStepWakesRun
CHECK_DEADLOCK FALSE
