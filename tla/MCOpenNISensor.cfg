CONSTANTS
  Users = {u1, u2}
  Hands = {h1}
  MaxUsers = 1
  Timeout = 1
SPECIFICATION FairSpec
INVARIANTS OneContextAtATime ReleasedTwiceOnlyAfterHands NobodyForgotten
PROPERTIES GivenUpOnlyWhenSilent EventShowsScene SilentSensorIsLost
CHECK_DEADLOCK FALSE
