SPECIFICATION Spec
CONSTANTS
    Setups <- AllPipelines
    MaxPackets = 6
    MaxStarts = 2
    MaxTicks = 1
CHECK_DEADLOCK FALSE
INVARIANTS TypeOK NodesConserved ProduceAlwaysSucceeds NodeForEveryPacket DropFindsPacket 
PROPERTY StreamSpec
