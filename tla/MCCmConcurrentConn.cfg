SPECIFICATION Spec
CONSTANTS
  a = a
  b = b
  adpt = adpt
  ssap = ssap
  Addrs <- MCAddrs
  Modules <- MCModules
  Environments <- MCEnvironments
INVARIANTS
  RequestsAreSought
  ConnectedNotPending
  NobodyForgotten
  LinksAgree
PROPERTIES
  BgRequestEnds
CHECK_DEADLOCK FALSE
