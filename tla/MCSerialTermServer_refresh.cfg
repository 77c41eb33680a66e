SPECIFICATION Spec
CONSTANTS
    Conns = {w1, w2}
    Clients = {a}
    None = None
    w1 = w1
    w2 = w2
    a = a
    b = b
    GracePeriod = 1
    Sid <- ReloadSid
    Overlap = {a}
    Faults = FALSE
    LossyCancel = FALSE
INVARIANTS
    RefreshKeepsTurn
