SPECIFICATION FairSpec
CONSTANTS
    Paths = {lan}
    NoPath = NoPath
    Commands = {"ready", "start", "cancel", "leave"}
    MaxInFlight = 2
    Patient = FALSE
    Lossy = FALSE
    Pings = {}
INVARIANTS
    AgreeOnPrimary
    NeverContrary
    OneStartsWithTwo
PROPERTIES
    BothEnd
    StartEnds
    CancelEnds
CHECK_DEADLOCK FALSE
