SPECIFICATION DaemonSpec
CONSTANTS
    Conns = {w1, w2}
    Clients = {w1, w2}
    None = None
    GracePeriod = 0
    Sid <- OwnSid
    Overlap = {}
    Faults = TRUE
    LossyCancel = TRUE
    MaxRestarts = 1
CHECK_DEADLOCK FALSE
INVARIANTS
    EveryPageIsClosed
PROPERTIES
    ShutdownEnds
    SessionsEndOrAreLeftBehind
