SPECIFICATION Spec
CONSTANTS
    SeqHalf = 4
    WindowSize = 3
    MaxTx = 1
    MaxFragNum = 4
    short = short
    long = long
    NoSdu = NoSdu
    Sdus <- MCSdus
    FrameCnt <- MCFrameCnt
    RxSeqs <- MCRxSeqs
INVARIANTS
    TypeOK
    WindowIsConsecutive
    TimerGuardsUnacked
    BusyIsOwedCallback
    CacheFreeWhenNotBusy
