SPECIFICATION FairSpec
CONSTANTS
  a = a
  b = b
  c = c
  d = d
  t1 = t1
  t2 = t2
  t3 = t3
  None = None
  Steps = {a, b, c}
  Deps <- Join
  AnyJoin = {}
  Threads = {t1, t2}
  Sweepers = {t1}
  Outcomes <- OkTransient
  MaxAttempts <- Attempts2
  Waits = {}
  TimeoutPolicy <- NoTimeout
  Compensable = {a, b}
  AtomicDispatch = TRUE
  OnStuckRetry = TRUE
  MaxQueued = 2
  Budgets <- RecoveryBudgets
INVARIANTS RunRowMatchesSteps EndsClean
PROPERTIES ImplementsLiveDagRun
CHECK_DEADLOCK FALSE
