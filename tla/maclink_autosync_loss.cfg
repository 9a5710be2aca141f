SPECIFICATION Spec
CONSTANTS
    NumMsgs = 3
    TxQueueSize = 2
    RxQueueSize = 2
    SenderIsNode = FALSE
    AutoSync = TRUE
    TxSyncOnSyncing = TRUE
    TtlTicks = FALSE
    TtlRetries = 0
    UseTxFlush = FALSE
    SharedRxPool = FALSE
    MaxRestarts = 0
    CreditFlow = FALSE
    SkipWrap = 6
    ConnectCount = 1
    DisconnectDuration = 2
    DurationWrap = 16
INVARIANTS
    NoSilentLoss
