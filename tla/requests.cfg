SPECIFICATION Spec
CONSTANTS
    Setups <- AllDevices
    NumNodes = 3
    QueueSize = 3
    RequestSize = 2
    Ratios = {50, 100}
INVARIANTS TypeOK OneOwner PoolRestored ConfigsInStep LastRatioWins
PROPERTIES EndsOnlyWhenAsked DisconnectEnds
