SPECIFICATION Spec
CONSTANTS
    Conns = {w1, w2, w3}
    Clients = {a, b}
    None = None
    w1 = w1
    w2 = w2
    a = a
    b = b
    GracePeriod = 0
    Sid <- ReloadSid
    Overlap = {}
    Faults = FALSE
    LossyCancel = TRUE
INVARIANTS
    TurnsAreKept
    LiveRelaysSurvive
PROPERTIES
    ShellsEndWithTurns
    TypingFailsOnlyInKick
    LiveSessionsSurvive
    HandlersEnd
    KickBringsPrompt
    PortIsFreedUnlessCrash
