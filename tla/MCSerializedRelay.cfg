SPECIFICATION Spec
CONSTANTS
    Conns = {w1, w2}
    Clients = {c1}
    None = None
    Faults = TRUE
    LossyCancel = TRUE
INVARIANTS
    TypeOK
    OneReader
    ReaderIsTask
    KickAlone
    PortHeldOnce
PROPERTIES
    CallsReturn
