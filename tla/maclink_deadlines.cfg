SPECIFICATION LossySpec
CONSTANTS
    NumMsgs = 3
    TxQueueSize = 2
    RxQueueSize = 2
    SenderIsNode = TRUE
    AutoSync = FALSE
    TxSyncOnSyncing = TRUE
    TtlTicks = TRUE
    TtlRetries = 1
    UseTxFlush = TRUE
    SharedRxPool = FALSE
    MaxRestarts = 0
    CreditFlow = FALSE
    SkipWrap = 6
    ConnectCount = 1
    DisconnectDuration = 2
    DurationWrap = 16
INVARIANTS
    LossOnlyAfterDrop
    OnlyFirstRepeated
PROPERTIES
    EventuallySettled
