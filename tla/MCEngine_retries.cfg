SPECIFICATION Spec
CONSTANTS
  a = a
  b = b
  c = c
  d = d
  t1 = t1
  t2 = t2
  t3 = t3
  None = None
  Steps = {a, b, c}
  Deps <- Chain
  AnyJoin = {}
  Threads = {t1, t2}
  Sweepers = {t1}
  Outcomes <- OkFatal
  MaxAttempts <- Attempts1
  Waits = {}
  TimeoutPolicy <- NoTimeout
  Compensable = {}
  AtomicDispatch = FALSE
  OnStuckRetry = TRUE
  MaxQueued = 2
  Budgets <- RetryBudgets
INVARIANTS RunRowMatchesSteps
PROPERTIES NothingRevives
CHECK_DEADLOCK FALSE
