\* One human transfer whose acceptance and final status are recorded together.
SPECIFICATION Spec
CONSTANTS
    c1 = c1
    a1 = a1
    s1 = s1
    h1 = h1
    h2 = h2
    k1 = k1
    NoAgent = NoAgent
    NoSocket = NoSocket
    NoTarget = NoTarget
    Free = Free
    Calls = {c1}
    Sockets = {s1}
    Agents = {a1}
    Handlers = {h1, h2}
    Keys = {k1}
    MaxRestarts = 0
PROPERTIES
    SettledTransferIsFinal
CHECK_DEADLOCK FALSE
