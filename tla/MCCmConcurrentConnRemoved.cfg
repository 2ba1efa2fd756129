SPECIFICATION Spec
CONSTANTS
  a = a
  b = b
  adpt = adpt
  ssap = ssap
  Addrs <- MCAddrs
  Modules <- MCModules
  Environments <- Removal
INVARIANTS
  RemovedEndsDown
CHECK_DEADLOCK FALSE
