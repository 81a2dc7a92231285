SPECIFICATION Spec
CONSTANTS
    TypedNames <- MCTypedNames
    UserData <- MCUserData
    LocalIPs <- MCLocalIPs
    PublicIPs <- MCPublicIPs
    Nul = "NUL"
    MaxUsers = 2
INVARIANTS
    RosterArrives
    RoomsArrive
    AddressesArrive
CHECK_DEADLOCK FALSE
