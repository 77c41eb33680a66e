SPECIFICATION Spec
CONSTANTS
    Conns = {w1, w2, w3}
    Clients = {a, b}
    None = None
    w1 = w1
    w2 = w2
    a = a
    b = b
    GracePeriod = 1
    Sid <- ReloadSid
    Overlap = {a}
    Faults = TRUE
    LossyCancel = TRUE
INVARIANTS
    TurnsAreKept
PROPERTIES
    PortIsALine
