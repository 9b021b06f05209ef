SPECIFICATION FairSpec
CONSTANTS
  Async = {a1}
  Sync = {s1}
  Log = {l1}
  NoCall = NoCall
  MayShutDown = TRUE
CHECK_DEADLOCK FALSE
INVARIANTS
  DataDeletedOnce
  ReturnedMeansRan
  IInv
PROPERTIES
  RunsOnceOrNever
  ScheduledRuns
  NoLeak
  SyncWaitEnds
