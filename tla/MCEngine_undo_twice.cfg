SPECIFICATION Spec
CONSTANTS
  a = a
  b = b
  c = c
  d = d
  t1 = t1
  t2 = t2
  t3 = t3
  None = None
  Steps = {a, b, c, d}
  Deps <- Diamond
  AnyJoin = {}
  Threads = {t1, t2}
  Sweepers = {}
  Outcomes <- OkOrLastFails
  MaxAttempts <- Attempts1
  Waits = {}
  TimeoutPolicy <- NoTimeout
  Compensable = {a, b, c}
  AtomicDispatch = TRUE
  OnStuckRetry = TRUE
  MaxQueued = 2
  Budgets <- TwoFail
INVARIANTS CompensatedOnce
CHECK_DEADLOCK FALSE
