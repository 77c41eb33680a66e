SPECIFICATION EndToEndSpec
CONSTANTS
    Conns = {w1, w2, w3}
    Clients = {w1, w2, w3}
    None = None
    w1 = w1
    w2 = w2
    a = a
    b = b
    GracePeriod = 0
    Sid <- OwnSid
    Overlap = {}
    Faults = FALSE
    PrintedPlaces = {1}
    MaxDown = 1
    LossyCancel = FALSE
SYMMETRY ConnSymmetry
CONSTRAINT SomebodyStays
INVARIANTS
    PlaceNeverFlatters
