SPECIFICATION FairSpec
CONSTANTS
  a = a
  b = b
  c = c
  d = d
  t1 = t1
  t2 = t2
  t3 = t3
  None = None
  Steps = {a, b, c}
  Deps <- Flat
  AnyJoin = {}
  Threads = {t1, t2}
  Sweepers = {t1}
  Outcomes <- OkTransient
  MaxAttempts <- Attempts2
  Waits = {}
  TimeoutPolicy <- NoTimeout
  Compensable = {}
  AtomicDispatch = TRUE
  OnStuckRetry = TRUE
  MaxQueued = 2
  Budgets <- FaultBudgets
PROPERTIES FinishesSettled
CHECK_DEADLOCK FALSE
