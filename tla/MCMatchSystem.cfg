SPECIFICATION SystemSpec
CONSTANTS
    host = host
    guest = guest
    third = third
    hostName = hostName
    guestName = guestName
    thirdName = thirdName
    Clients = {host, guest}
    Peers = {s1, s2}
    Names = {hostName, guestName}
    NoName = NoName
    NoSlot = NoSlot
    Limits <- MCLimits
    LoginAs <- SharedLogin
    Asks <- SharedAsks
    Flaky = {guest}
    MaxQueued = 1
VIEW MCView
INVARIANTS
    SystemTypeOK
    NeverBogus
PROPERTIES
    LoginAnswered
    ApprovalStarts
    StartArrives
    GhostsGo
    KickedOwnersGameCloses
