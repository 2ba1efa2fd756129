SPECIFICATION Spec
CONSTANTS
    SeqHalf = 8
    CacheMax = 2
    JoinAt = 13
    MaxSent = 20
    MaxClock = 3
    NetCap = 2
    MaxFaults = 2
    MaxDel = 1
INVARIANTS
    InOrderOnce
    GapIsTimed
CHECK_DEADLOCK FALSE
