\* One call, two streams that may start for it, two requests served at once.
SPECIFICATION Spec
CONSTANTS
    c1 = c1
    a1 = a1
    a2 = a2
    s1 = s1
    s2 = s2
    h1 = h1
    h2 = h2
    k1 = k1
    k2 = k2
    NoAgent = NoAgent
    NoSocket = NoSocket
    NoTarget = NoTarget
    Free = Free
    Calls = {c1}
    Sockets = {s1, s2}
    Agents = {a1, a2}
    Handlers = {h1, h2}
    Keys = {k1, k2}
    MaxRestarts = 1
SYMMETRY Interchangeable
INVARIANTS
    TypeOK
    OneSessionPerCall
    TranscriberIsOwned
    NoAgentSpeaksTwice
    TransferIsMadeOnce
    AgentTransferIsToldTruly
    MediaClosesOnAcceptance
    TransferLockIsServed
CHECK_DEADLOCK FALSE
