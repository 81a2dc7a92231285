SPECIFICATION Spec
CONSTANTS
    Peers = {p1, p2, p3, p4}
    Names = {n1, n2, n3, n4}
    NoName = NoName
    Nobody = Nobody
    Limits <- MCLimits
VIEW MCView
SYMMETRY MCSymmetry
INVARIANTS
    TypeOK
    NoDanglingUser
    OneRole
    RoleMatchesState
    NamesUnique
PROPERTIES
    StartIsMutual
    ImplementsLobby
