SPECIFICATION Spec
CONSTANTS
  Ends <- TwoEnds
  Tcids <- FewTcids
  IdModulus = 3
  Environments <- Faulty
INVARIANT FailedSendForgotten
CHECK_DEADLOCK FALSE
