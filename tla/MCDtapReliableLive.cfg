SPECIFICATION FairSpec
CONSTANTS
    SeqHalf = 4
    WindowSize = 3
    RxWindowSize = 3
    MaxTx = 1
    MaxNack = 1
    MaxFragNum = 4
    a = a
    b = b
    s1 = s1
    s2 = s2
    s3 = s3
    s4 = s4
    NoSdu = NoSdu
    Peers <- MCPeers
    Sdus <- MCSdus
    FrameCnt <- MCFrameCnt
    Environments <- Kept
PROPERTIES
    ImplementsChannel
    BusyEnds
    SendersImplementTxWindow
CHECK_DEADLOCK FALSE
