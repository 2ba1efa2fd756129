SPECIFICATION LiveSpec
CONSTANTS
  Read = Read
  Connect = Connect
  ToSend <- Paired
  Complete <- CompleteOps
  Mapped <- MappedOps
  MaxCnt = 1
  Environments <- Controllers
INVARIANTS
  CreditConserved
  EndsOnce
  CallbackIsThere
PROPERTIES
  EveryCommandEnds
CHECK_DEADLOCK FALSE
