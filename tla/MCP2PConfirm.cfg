SPECIFICATION FairSpec
CONSTANTS
    Paths = {lan}
    NoPath = NoPath
    Commands = {"ready", "unready", "start"}
    MaxInFlight = 2
    Patient = TRUE
    Lossy = FALSE
    Pings = {}
PROPERTIES
    StartEnds
CHECK_DEADLOCK FALSE
