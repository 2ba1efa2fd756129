SPECIFICATION FairSpec
CONSTANTS
    SeqHalf = 4
    WindowSize = 3
    MaxTx = 1
    MaxFragNum = 4
    s1 = s1
    s2 = s2
    s3 = s3
    s4 = s4
    NoSdu = NoSdu
    Sdus <- MCSdus
    FrameCnt <- MCFrameCnt
    RxSeqs <- MCRxSeqs
    Environments <- Both
INVARIANTS
    BusyIsOwedUpdate
    AcceptedIsSentOrKept
    NoUseAfterFree
    SemOutlivesUse
    NoLeak
PROPERTIES
    ImplementsTxWindow
    WriteReturns
CHECK_DEADLOCK FALSE
