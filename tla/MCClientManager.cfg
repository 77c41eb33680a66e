SPECIFICATION CMSpec
CONSTANTS
    Clients = {c1, c2, c3, c4}
    None = None
    GracePeriod = 2
INVARIANTS
    CMTypeOK
    OnePlaceEach
    NeverIdleWhileWaiting
    HolderHasNoGraceEntry
PROPERTIES
    NoOvertaking
    ImplementsLine
    NoStarvation
