CONSTANTS
  Instances = {i1, i2}
  NoInstance = NoInstance
SPECIFICATION FairSpec
INVARIANTS NoFrameCallbackAfterUnload NothingLeftOnClosedHost
PROPERTIES FramesKeepComing ClosedHostsAreFreed
CHECK_DEADLOCK FALSE
