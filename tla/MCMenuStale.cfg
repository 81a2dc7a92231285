SPECIFICATION MenuSpec
CONSTANTS
    n1 = n1
    n2 = n2
    Peers = {p1, p2}
    Names = {n1, n2}
    NoName = NoName
    Unclean = Unclean
    Limits <- MCLimits
    Process <- OldProcesses
VIEW MCView
INVARIANTS
    AskedIsHosting
