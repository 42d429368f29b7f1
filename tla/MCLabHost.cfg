SPECIFICATION Spec
CONSTANTS
  a = a
  b = b
  Vms <- MCVms
  Netems <- MCNetems
  MaxCid = 6
  CidRetries = 1
  MaxEvents = 3
SYMMETRY Symmetric
CHECK_DEADLOCK FALSE
INVARIANTS
  CutsAreExact
  
  LaunchIsOwned
  
