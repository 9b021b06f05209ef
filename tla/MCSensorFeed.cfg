CONSTANTS
  Listeners = {p1, p2}
  Streams = {depth}
  ReopenWait = 1
  MaxFrames = 1
SPECIFICATION FairSpec
INVARIANTS StatusKnown MapsNotOlderThanEvent
PROPERTIES OpenPagesStay AttemptsAreSpaced DeviceIsReopened FreedListenersAreErased
