SPECIFICATION Spec
CONSTANTS
    NumMsgs = 4
    MaxFragments = 3
    TxQueueSize = 3
    MAX_TRANSACTION_ID = 32
    Setups <- LinkSetups
CHECK_DEADLOCK FALSE
ACTION_CONSTRAINTS
    InBounds
INVARIANTS
    TypeOK
    Intact
    
    Resynchronises
    NodesConserved
