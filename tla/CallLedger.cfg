\* One call: its initiation, its callbacks and those of a foreign call, two
\* conversation appends and a restart.
SPECIFICATION Spec
CONSTANTS
    c1 = c1
    k1 = k1
    k2 = k2
    NoKey = NoKey
    NoStatus = NoStatus
    NoTx = NoTx
    Idle = Idle
    NoSid = NoSid
    x1 = x1
    Calls = {c1}
    ForeignSids = {x1}
    Sinks = {k1, k2}
    Reports = {"initiated", "answered", "in-progress", "completed", "canceled"}
    MaxConversation = 2
    MaxCrashes = 1
SYMMETRY SinksInterchangeable
INVARIANTS
    TypeOK
    LedgerTracksStatus
    InitiatedCallIsRecorded
PROPERTIES
    CallKeepsRecord
CHECK_DEADLOCK FALSE
