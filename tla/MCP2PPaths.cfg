SPECIFICATION Spec
CONSTANTS
    Paths = {lan, wan}
    NoPath = NoPath
    Commands = {"ready", "unready", "start", "cancel", "leave"}
    MaxInFlight = 2
    Patient = TRUE
    Lossy = FALSE
    Pings = {"prompt", "late"}
SYMMETRY MCSymmetry
INVARIANTS
    TypeOK
    ListenersListed
    CommittedIsReady
    AgreeOnPrimary
    SamePath
    ReadyKnown
CHECK_DEADLOCK FALSE
