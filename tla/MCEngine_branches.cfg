SPECIFICATION FairSpec
CONSTANTS
  a = a
  b = b
  c = c
  d = d
  t1 = t1
  t2 = t2
  t3 = t3
  None = None
  Steps = {a, b, c, d}
  Deps <- Diamond
  AnyJoin = {d}
  Threads = {t1, t2}
  Sweepers = {t1}
  Outcomes <- GuardedArm
  MaxAttempts <- Attempts1
  Waits = {}
  TimeoutPolicy <- NoTimeout
  Compensable = {}
  AtomicDispatch = FALSE
  OnStuckRetry = FALSE
  MaxQueued = 2
  Budgets <- BranchBudgets
INVARIANTS CountsMatchRows
PROPERTIES ImplementsLiveDagRun
CHECK_DEADLOCK FALSE
