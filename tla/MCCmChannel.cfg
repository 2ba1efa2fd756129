SPECIFICATION LiveSpec
CONSTANTS
  Ends <- TwoEnds
  Tcids <- FewTcids
  IdModulus = 3
  Environments <- Sound
INVARIANTS
  TcidsMatch
  NoHalfOpen
  WaitIsTimed
PROPERTIES
  EveryRequestEnds
CHECK_DEADLOCK FALSE
