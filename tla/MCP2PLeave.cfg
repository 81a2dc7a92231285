SPECIFICATION FairSpec
CONSTANTS
    Paths = {lan, wan}
    NoPath = NoPath
    Commands = {"ready", "start", "leave"}
    MaxInFlight = 2
    Patient = FALSE
    Lossy = FALSE
    Pings = {}
INVARIANTS
    NeverMixed
PROPERTIES
    BothEnd
CHECK_DEADLOCK FALSE
