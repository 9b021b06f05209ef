CONSTANTS
  Plugins = {1, 2}
  Tokens = {t1, t2}
  Limit = 2
  Period = 1
  MaxDelay = 1
  MaxAttempts = 2
SYMMETRY Symmetry
SPECIFICATION Spec
INVARIANTS WorksOnlyWhenSeen WorksWhileInView
