\* Two clients change and attach to two cases, through three versions.
SPECIFICATION Spec
CONSTANTS
    a1 = a1
    a2 = a2
    c1 = c1
    u1 = u1
    u2 = u2
    t1 = t1
    t2 = t2
    None = None
    Absent = Absent
    Free = Free
    Cases = {a1, a2}
    Calls = {c1}
    Clients = {u1, u2}
    Times = {t1, t2}
    Statuses = {"completed"}
    Kinds = {"callback_requested", "not_interested"}
    MaxVersion = 3
SYMMETRY Interchangeable
INVARIANTS
    TypeOK
    RequestedCallbackIsKept
PROPERTIES
    UpdateBuildsOnWhatItRead
CHECK_DEADLOCK FALSE
