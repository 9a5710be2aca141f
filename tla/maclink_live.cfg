SPECIFICATION FairSpec
CONSTANTS
    NumMsgs = 2
    TxQueueSize = 2
    RxQueueSize = 2
    SenderIsNode = FALSE
    AutoSync = FALSE
    TxSyncOnSyncing = TRUE
    TtlTicks = FALSE
    TtlRetries = 0
    UseTxFlush = FALSE
    SharedRxPool = FALSE
    MaxRestarts = 0
    CreditFlow = TRUE
    SkipWrap = 5
    ConnectCount = 1
    DisconnectDuration = 1
    DurationWrap = 16
PROPERTIES
    EventuallySettled
