CONSTANTS
  Streams = {s1, s2}
  Length = 1
SPECIFICATION FairSpec
INVARIANTS BrowserHoldsLiveStream SuccessIsWhole FinishedStreamsAreFreed
PROPERTIES HandlerSeesLife TakenRequestsAreAnswered
CHECK_DEADLOCK FALSE
