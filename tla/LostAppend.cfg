\* Two events of the conversation are appended at the same time.
SPECIFICATION Spec
CONSTANTS
    c1 = c1
    k1 = k1
    k2 = k2
    NoKey = NoKey
    NoStatus = NoStatus
    NoTx = NoTx
    Idle = Idle
    NoSid = NoSid
    Calls = {c1}
    ForeignSids = {}
    Sinks = {k1, k2}
    Reports = {"ringing", "completed"}
    MaxConversation = 2
    MaxCrashes = 0
PROPERTIES
    AppendAppends
CHECK_DEADLOCK FALSE
