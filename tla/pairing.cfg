SPECIFICATION FairSpec
CONSTANTS
    Nodes <- OneNode
    Coord = "coord"
    Role <- RoleMC
    ListSize = 3
    MaxAddress = 4
    Generated <- GeneratedMC
    UniqueId <- UniqueIdMC
    PanId = 20
    MaxProcedures <- TwiceEach
    Setups <- All
CHECK_DEADLOCK FALSE
INVARIANTS
    TypeOK
    DistinctAddresses
    SameCode
    AckNoticed
PROPERTIES
    CoordinatorSuccess
    NodeSuccess
    PairingEnds
