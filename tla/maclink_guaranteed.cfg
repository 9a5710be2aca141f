SPECIFICATION Spec
CONSTANTS
    NumMsgs = 3
    TxQueueSize = 2
    RxQueueSize = 2
    SenderIsNode = TRUE
    AutoSync = FALSE
    TxSyncOnSyncing = TRUE
    TtlTicks = FALSE
    TtlRetries = 0
    UseTxFlush = FALSE
    SharedRxPool = TRUE
    MaxRestarts = 1
    CreditFlow = FALSE
    SkipWrap = 6
    ConnectCount = 1
    DisconnectDuration = 2
    DurationWrap = 16
INVARIANTS
    TypeOK
    NoSilentLoss
PROPERTIES
    StoredInOrder
    ReliableDelivery
