SPECIFICATION Spec
CONSTANTS
    Setups <- FastSyncNodes
    NumNodes = 2
    QueueSize = 2
    RequestSize = 2
    Ratios = {50, 100}
INVARIANT ConnectResets
