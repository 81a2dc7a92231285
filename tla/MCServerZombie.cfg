SPECIFICATION Spec
CONSTANTS
    Peers = {p1, p2, p3}
    Names = {n1, n2, n3}
    NoName = NoName
    Nobody = Nobody
    Limits <- MCLimits
VIEW MCView
PROPERTIES
    ZombieIsInert
