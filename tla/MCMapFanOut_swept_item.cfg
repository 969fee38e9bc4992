SPECIFICATION Spec
CONSTANTS
  x = x
  y = y
  t1 = t1
  t2 = t2
  t3 = t3
  None = None
  Map = Map
  Items = {x, y}
  Lists <- EmptyOrAll
  Threads = {t1, t2, t3}
  MaxAttempts <- Attempts1
  MaxQueued = 2
  Budgets <- OneCrash
INVARIANT NoStrandedRun
CHECK_DEADLOCK FALSE
