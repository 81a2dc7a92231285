SPECIFICATION MenuSpec
CONSTANTS
    n1 = n1
    n2 = n2
    Peers = {p1, p2, p3}
    Names = {n1, n2, n3}
    NoName = NoName
    Unclean = Unclean
    Limits <- MCLimits
    Process <- NewProcesses
VIEW MCView
CONSTRAINT OneUnclean
SYMMETRY MCSymmetry
INVARIANTS
    ViewTypeOK
    ListsCurrent
    RoomCurrent
    MenuFits
    CommandsLand
