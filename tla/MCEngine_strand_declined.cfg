SPECIFICATION Spec
CONSTANTS
  a = a
  b = b
  c = c
  d = d
  t1 = t1
  t2 = t2
  t3 = t3
  None = None
  Steps = {a, b, c, d}
  Deps <- Diamond
  AnyJoin = {d}
  Threads = {t1, t2}
  Sweepers = {t1}
  Outcomes <- GuardedArm
  MaxAttempts <- Attempts1
  Waits = {}
  TimeoutPolicy <- NoTimeout
  Compensable = {}
  AtomicDispatch = TRUE
  OnStuckRetry = TRUE
  MaxQueued = 2
  Budgets <- OneDecline
INVARIANTS NoStrandedRun
CHECK_DEADLOCK FALSE
