SPECIFICATION Spec
CONSTANTS
    k = k
    m = m
    Links <- MCLinks
    Channels <- MCChannels
    PriorityOf <- MCPriorityOf
    NumPriorities = 3
    FragmentTcid = 0
    BufferNums = {1, 3}
    QueueMax = 2
    ToSend <- Mixed
    MaxFails = 1
CONSTRAINT OneBeside
INVARIANTS
    CreditsMatch
    QuotasShareBuffers
    CountsMatch
    PacketsArriveWhole
    NothingStranded
PROPERTIES
    ChannelFifo
CHECK_DEADLOCK FALSE
