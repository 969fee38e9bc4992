------------------------------- MODULE Quota -------------------------------
(***************************************************************************)
(* The AI quota: onBeforeStart checks the three windows of a partition,    *)
(* one read after the other, before startWorkflow creates the run; a run   *)
(* that completes leaves the count of the running and enters the daily     *)
(* rollup when its hook has run.  A run that failed may be retried, and    *)
(* then runs again without being checked.                                  *)
(***************************************************************************)
EXTENDS Naturals, FiniteSets

CONSTANTS
  Starters,    \* calls of startWorkflow in progress at once
  Concurrent,  \* maxConcurrentWorkflows
  PerDay, PerMonth,
  MaxStarts,   \* bound: runs that are started
  MaxEvents    \* bound: hooks called twice, hooks lost, days gone by, runs retried

VARIABLES
  pc,       \* what each starter does
  seen,     \* seen[s]: the running runs it counted
  running,
  failed,   \* runs that failed, and may be retried
  again,    \* of the running, those that a retry reopened
  hooks,    \* onWorkflowCompleted calls under way
  today, month,  \* workflowCount of the rollup
  starts, events

vars == <<pc, seen, running, failed, again, hooks, today, month, starts, events>>

Goto(s, p) == pc' = [pc EXCEPT ![s] = p]

Init ==
  /\ pc = [s \in Starters |-> "idle"]
  /\ seen = [s \in Starters |-> 0]
  /\ running = 0 /\ failed = 0 /\ again = 0 /\ hooks = 0 /\ today = 0 /\ month = 0
  /\ starts = 0 /\ events = 0

CountAnyway(s) ==
  /\ pc[s] \in {"idle", "refused"}
  /\ seen' = [seen EXCEPT ![s] = running]
  /\ Goto(s, "day")
  /\ UNCHANGED <<running, failed, again, hooks, today, month, starts, events>>

\* checkQuota: the concurrent window first, on a fresh count.
CountRunning(s) ==
  /\ pc[s] \in {"idle", "refused"}
  /\ seen' = [seen EXCEPT ![s] = running]
  /\ Goto(s, IF running >= Concurrent THEN "refused" ELSE "day")
  /\ UNCHANGED <<running, failed, again, hooks, today, month, starts, events>>

\* The day, then the month: the rollup, and what was running.
CountDay(s) ==
  /\ pc[s] = "day"
  /\ Goto(s, IF today + seen[s] >= PerDay THEN "refused" ELSE "month")
  /\ UNCHANGED <<seen, running, failed, again, hooks, today, month, starts, events>>

CountMonth(s) ==
  /\ pc[s] = "month"
  /\ Goto(s, IF month + seen[s] >= PerMonth THEN "refused" ELSE "create")
  /\ UNCHANGED <<seen, running, failed, again, hooks, today, month, starts, events>>

\* createWorkflow, some time after the check.
Create(s) ==
  /\ pc[s] = "create" /\ starts < MaxStarts
  /\ running' = running + 1 /\ starts' = starts + 1
  /\ Goto(s, "idle")
  /\ UNCHANGED <<seen, failed, again, hooks, today, month, events>>

\* One run fewer: one that was never retried, or one that was.
OneFewer ==
  /\ running > 0
  /\ running' = running - 1
  /\ \/ again < running /\ again' = again
     \/ again > 0 /\ again' = again - 1

\* A run completes: its hook is called and not awaited; two settles that both
\* complete it call it twice.
Complete ==
  /\ OneFewer
  /\ \/ hooks' = hooks + 1 /\ UNCHANGED events
     \/ hooks' = hooks + 2 /\ events < MaxEvents /\ events' = events + 1
  /\ UNCHANGED <<pc, seen, failed, today, month, starts>>

\* A run fails, or is cancelled: it is not rolled up.  What failed may be retried.
Fail ==
  /\ OneFewer
  /\ failed' = failed + 1
  /\ UNCHANGED <<pc, seen, hooks, today, month, starts, events>>

Cancel ==
  /\ OneFewer
  /\ UNCHANGED <<pc, seen, failed, hooks, today, month, starts, events>>

\* retryWorkflow reopens a failed run, and asks no quota.
Retry ==
  /\ failed > 0 /\ events < MaxEvents
  /\ failed' = failed - 1 /\ events' = events + 1
  /\ running' = running + 1 /\ again' = again + 1
  /\ UNCHANGED <<pc, seen, hooks, today, month, starts>>

\* recordWorkflowDaily adds one; an error of the hook is logged.
RollUp ==
  /\ hooks > 0
  /\ hooks' = hooks - 1
  /\ \/ today' = today + 1 /\ month' = month + 1 /\ UNCHANGED events
     \/ events < MaxEvents /\ events' = events + 1 /\ UNCHANGED <<today, month>>
  /\ UNCHANGED <<pc, seen, running, failed, again, starts>>

NewDay ==
  /\ events < MaxEvents /\ events' = events + 1
  /\ today' = 0
  /\ month' \in {month, 0}
  /\ UNCHANGED <<pc, seen, running, failed, again, hooks, starts>>

Next ==
  \/ \E s \in Starters : CountRunning(s) \/ CountDay(s) \/ CountMonth(s) \/ Create(s)
  \/ Complete \/ Fail \/ Cancel \/ Retry \/ RollUp \/ NewDay

Spec == Init /\ [][Next]_vars

-----------------------------------------------------------------------------
Admitted == {s \in Starters : pc[s] \in {"day", "month", "create"}}

\* The check is not the creation, so starts that race can pass it together, and a
\* retry is not checked at all.  The overrun is bounded all the same: by the starts
\* in progress, and by the runs that run now because they were retried.
OverrunBounded ==
  running + Cardinality(Admitted) < Concurrent + Cardinality(Starters) + again

=============================================================================
