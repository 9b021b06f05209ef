SPECIFICATION Spec
CONSTANTS
  Async = {a1}
  Sync = {s1}
  Log = {}
  NoCall = NoCall
  MayShutDown = TRUE
CHECK_DEADLOCK FALSE
INVARIANTS
  FalseMeansNotScheduled
