CONSTANTS
  Apis = {a1, a2}
  Scripts = {window}
  Window = window
  Handles = {h0, h1}
  Html = h0
  Workers = {w1}
  Main = main
  MaxObjects = 2
  MaxScript = 1
  MaxGiven = 2
SPECIFICATION FairSpec
INVARIANTS CountsAgree LostOnlyAtTheEnd GivenIsAlive
PROPERTIES ClosingReleases ClosedPageFreesObjects
CHECK_DEADLOCK FALSE
