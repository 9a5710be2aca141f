SPECIFICATION Spec
CONSTANTS
    NumMsgs = 3
    TxQueueSize = 2
    RxQueueSize = 2
    SenderIsNode = FALSE
    AutoSync = FALSE
    TxSyncOnSyncing = TRUE
    TtlTicks = FALSE
    TtlRetries = 0
    UseTxFlush = FALSE
    SharedRxPool = FALSE
    MaxRestarts = 0
    CreditFlow = TRUE
    SkipWrap = 6
    ConnectCount = 1
    DisconnectDuration = 2
    DurationWrap = 16
INVARIANTS
    NoOverrunWhileUp
    ExactlyOnceWhileUp
