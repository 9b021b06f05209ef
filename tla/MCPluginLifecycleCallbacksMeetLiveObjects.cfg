CONSTANTS
  Instances = {i1}
  NoInstance = NoInstance
SPECIFICATION Spec
INVARIANTS CallbacksMeetLiveObjects
CHECK_DEADLOCK FALSE
