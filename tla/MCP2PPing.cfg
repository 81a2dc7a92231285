SPECIFICATION FairSpec
CONSTANTS
    Paths = {lan}
    NoPath = NoPath
    Commands = {"ready", "unready", "start"}
    MaxInFlight = 2
    Patient = TRUE
    Lossy = FALSE
    Pings = {"prompt"}
PROPERTIES
    PingsGoOn
CHECK_DEADLOCK FALSE
