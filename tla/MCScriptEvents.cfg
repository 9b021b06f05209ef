SPECIFICATION FairSpec
CONSTANTS
  api = api
  p1 = p1
  q1 = q1
  q2 = q2
  f1 = f1
  f2 = f2
  Apis = {api}
  Proxies = {p1}
  Pages = {q1, q2}
  Handlers = {f1, f2}
  Methods = {f2}
  PageOf <- MCPageOf
  Shown <- MCShown
  Main = main
  Threads = {main, io}
  None = none
  MaxEvents = 2
  MaxChanges = 3
INVARIANTS HeardWasAttached ProxiesFollow AttachedHear
PROPERTIES HeardInOrder EventsEnd
CHECK_DEADLOCK FALSE
