\* A careful application drives two runs through every kind of step, with a crash.
SPECIFICATION DriverSpec
CONSTANTS
    Definition <- ChainFlow
    InitialStep = "call"
    NoStep = "none"
    Topics = {"payment"}
    Runs = {"r1", "r2"}
    Workers = {"w1", "w2"}
    Events = {"e1"}
    NoEvent = "none"
    TopicOf <- PaymentEvents
    Reports = {"completed", "busy", "no-answer"}
    MaxCalls = 6
    MaxAttemptRows = 6
    BatchLimit = 2
    MaxCrashes = 1
INVARIANTS
    WaitingRunHasWaker
    RetryPolicyBoundsCalls
    LostCallsAreAccountedFor
PROPERTIES
    StartedRunSettles
CHECK_DEADLOCK FALSE
