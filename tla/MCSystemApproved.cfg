SPECIFICATION SystemSpec
CONSTANTS
    host = host
    guest = guest
    third = third
    hostName = hostName
    guestName = guestName
    thirdName = thirdName
    Clients = {host, guest, third}
    Peers = {s1, s2, s3}
    Names = {hostName, guestName, thirdName}
    NoName = NoName
    NoSlot = NoSlot
    Limits <- MCLimits
    LoginAs <- OwnLogin
    Asks <- OwnAsks
    Flaky = {}
    MaxQueued = 2
VIEW MCView
INVARIANTS
    ApprovedIsStarted
