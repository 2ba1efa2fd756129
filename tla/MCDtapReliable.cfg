SPECIFICATION Spec
CONSTANTS
    SeqHalf = 3
    WindowSize = 2
    RxWindowSize = 2
    MaxTx = 1
    MaxNack = 1
    MaxFragNum = 4
    a = a
    b = b
    s1 = s1
    s2 = s2
    s3 = s3
    s4 = s4
    NoSdu = NoSdu
    Peers <- MCPeers
    Sdus <- MCSdus
    FrameCnt <- MCFrameCnt
    Environments <- Safe
INVARIANTS
    RxListInWindow
    TimerGuardsGap
    AckedWasReceived
    InOrder
CHECK_DEADLOCK FALSE
