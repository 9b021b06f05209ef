CONSTANTS
  Instances = {i1}
  NoInstance = NoInstance
SPECIFICATION Spec
INVARIANTS HostGoneWhenDestroyReturns
CHECK_DEADLOCK FALSE
