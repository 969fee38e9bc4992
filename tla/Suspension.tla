----------------------------- MODULE Suspension -----------------------------
(***************************************************************************)
(* A step that waits, in a run of its own: for an event (waitForEvent), or *)
(* for the child run it started (a sub-workflow).  It may have a deadline, *)
(* kept as jobs with a delay in the queue; the run may expire, and a run   *)
(* that failed be retried, which suspends the step again.  The queue may   *)
(* refuse a timer, and the call that suspends the step may die halfway.    *)
(* Reads and writes of one call are steps of their own.  Time passes in    *)
(* ticks.                                                                  *)
(***************************************************************************)
EXTENDS Naturals, FiniteSets

CONSTANTS
  Threads,      \* calls of the engine in progress at once
  MaxChildren,  \* bound: child runs
  Budget,       \* timeoutMs of the step, in ticks
  MaxTimers,    \* bound: timer jobs due at the same time
  None,         \* a model value
  Cases         \* what the step waits for, its deadline, and how often each event may occur

Events == {"resume", "refuse", "twice", "expire", "cancel", "retry", "redeliver", "unsent", "crash"}

Children == 1..MaxChildren
Live == {"pending", "running"}

VARIABLES
  kind,      \* "event" or "child"
  deadline,  \* what a deadline does: "none", "fail" or "output"
  run,       \* the status of the run
  step,      \* the status of the step
  age,       \* ticks since its suspension (started_at), up to Budget
  timers,    \* timers[d]: timer jobs that become due in d ticks
  lost,      \* what the present suspension will never get: its "timer", its "child"
  jobs,      \* jobs of the step that are queued
  child,     \* the status of each child run, "none" before its start
  th,        \* what each thread does: [pc, child or verdict]
  budget

vars == <<kind, deadline, run, step, age, timers, lost, jobs, child, th, budget>>

Idle == [pc |-> "idle", with |-> None]
At(t, p) == th[t].pc = p
Goto(t, p, x) == th' = [th EXCEPT ![t] = [pc |-> p, with |-> x]]
Rest(t) == Goto(t, "idle", None)
Spend(e) == budget[e] > 0 /\ budget' = [budget EXCEPT ![e] = @ - 1]

Over(s) == s \in {"completed", "failed", "skipped"}

(***************************************************************************)
(* scheduleWaitTimeout: a job with a delay, next to those that are queued. *)
(* A refusal of the queue is only logged, and then nothing may be left     *)
(* that could end the wait.                                                *)
(***************************************************************************)
NoTimerIn(queued) == \A d \in 0..Budget : queued[d] = 0

Arm(d, queued) ==
  \/ /\ timers' = [queued EXCEPT ![d] = IF @ < MaxTimers THEN @ + 1 ELSE @]
     /\ UNCHANGED <<lost, budget>>
  \/ /\ Spend("unsent")
     /\ timers' = queued
     /\ lost' = IF NoTimerIn(queued) THEN lost \cup {"timer"} ELSE lost

Init ==
  /\ \E k \in Cases : kind = k.kind /\ deadline = k.deadline /\ budget = k.budget
  /\ run = "running" /\ age = 0
  /\ timers = [d \in 0..Budget |-> 0] /\ lost = {}
  /\ step = "pending"
  /\ jobs = 0
  /\ child = [c \in Children |-> "none"]
  /\ th = [t \in Threads |-> IF t = CHOOSE x \in Threads : TRUE
                               THEN [pc |-> "dispatch", with |-> None] ELSE Idle]

-----------------------------------------------------------------------------
(***************************************************************************)
(* The step becomes ready: a wait is suspended at once, and its timer sent *)
(* after the row is written; a sub-workflow step is run by a worker first. *)
(***************************************************************************)
Dispatch(t) ==
  /\ At(t, "dispatch")
  /\ IF kind = "event" THEN Goto(t, "suspend", None) /\ UNCHANGED jobs
                       ELSE jobs' = jobs + 1 /\ Rest(t)
  /\ UNCHANGED <<kind, deadline, run, step, age, timers, lost, child, budget>>

Claim(t) ==
  /\ At(t, "idle") /\ jobs > 0
  /\ jobs' = jobs - 1
  /\ IF run \in Live /\ step = "pending"
       THEN step' = "running" /\ Goto(t, "suspend", None)
       ELSE UNCHANGED <<step, th>>
  /\ UNCHANGED <<kind, deadline, run, age, timers, lost, child, budget>>

Unborn == {c \in Children : child[c] = "none"}

ChildFirst(t) ==
  /\ At(t, "suspend") /\ kind = "child"
  /\ child' = [child EXCEPT ![CHOOSE c \in Unborn : \A d \in Unborn : c <= d] = "running"]
  /\ Goto(t, "suspended", None)
  /\ UNCHANGED <<kind, deadline, run, step, age, timers, lost, jobs, budget>>

SuspendAfterChild(t) ==
  \/ ChildFirst(t)
  \/ /\ At(t, "suspended")
     /\ step' = "waiting" /\ age' = 0 /\ lost' = {}
     /\ Rest(t)
     /\ UNCHANGED <<kind, deadline, run, timers, jobs, child, budget>>

Suspend(t) ==
  /\ At(t, "suspend")
  /\ step' = "waiting" /\ age' = 0 /\ lost' = {}
  /\ Goto(t, "arm", None)
  /\ UNCHANGED <<kind, deadline, run, timers, jobs, child, budget>>

ArmTimer(t) ==
  /\ At(t, "arm")
  /\ IF deadline = "none" THEN UNCHANGED <<timers, lost, budget>> ELSE Arm(Budget, timers)
  /\ IF kind = "child" THEN Goto(t, "startChild", None) ELSE Rest(t)
  /\ UNCHANGED <<kind, deadline, run, step, age, jobs, child>>

\* startSubWorkflow: the child starts only now that its parent waits for it, or
\* is refused, which fails the step.
StartChild(t) ==
  /\ At(t, "startChild")
  /\ \/ /\ Unborn # {}
        /\ child' = [child EXCEPT ![CHOOSE c \in Unborn : \A d \in Unborn : c <= d] = "running"]
        /\ Rest(t)
        /\ UNCHANGED budget
     \/ Spend("refuse") /\ Goto(t, "answer", "failed") /\ UNCHANGED child
  /\ UNCHANGED <<kind, deadline, run, step, age, timers, lost, jobs>>

\* The call dies after it has marked the step, and before it has sent the timer or
\* started the child (where the mark is not part of a transaction).  Its job is
\* delivered again, and finds the step waiting.
Crash(t) ==
  /\ th[t].pc \in {"arm", "startChild"} /\ Spend("crash")
  /\ lost' = lost \cup {"child"} \cup (IF NoTimerIn(timers) THEN {"timer"} ELSE {})
  /\ jobs' = IF kind = "child" THEN jobs + 1 ELSE jobs
  /\ Rest(t)
  /\ UNCHANGED <<kind, deadline, run, step, age, timers, child>>

(***************************************************************************)
(* A child run ends, and whoever ended it bridges it to its parent step.   *)
(* Two settles may both end it.                                            *)
(***************************************************************************)
EndChild(t, c, verdict) ==
  /\ At(t, "idle") /\ child[c] = "running"
  /\ child' = [child EXCEPT ![c] = verdict]
  /\ \/ Goto(t, "bridge", c) /\ UNCHANGED budget
     \/ \E u \in Threads \ {t} :
          /\ At(u, "idle") /\ Spend("twice")
          /\ th' = [x \in Threads |-> IF x \in {t, u} THEN [pc |-> "bridge", with |-> c] ELSE th[x]]
  /\ UNCHANGED <<kind, deadline, run, step, age, timers, lost, jobs>>

Bridge(t) ==
  /\ At(t, "bridge")
  /\ IF step = "waiting"
       THEN Goto(t, "answer", IF child[th[t].with] = "completed" THEN "completed" ELSE "failed")
       ELSE Rest(t)
  /\ UNCHANGED <<kind, deadline, run, step, age, timers, lost, jobs, child, budget>>

\* resumeStep: an event for the step.
Resume(t) ==
  /\ kind = "event" /\ At(t, "idle") /\ Spend("resume")
  /\ IF run \in Live /\ step = "waiting" THEN Goto(t, "answer", "completed") ELSE UNCHANGED th
  /\ UNCHANGED <<kind, deadline, run, step, age, timers, lost, jobs, child>>

(***************************************************************************)
(* timeoutStep: a timer job is delivered.  A suspension younger than the   *)
(* job gets a new timer for what is left of its budget.                    *)
(***************************************************************************)
Answers == IF deadline = "fail" THEN "failed" ELSE "completed"

TimerAtOnce(t) ==
  /\ At(t, "idle") /\ timers[0] > 0
  /\ timers' = [timers EXCEPT ![0] = @ - 1]
  /\ IF run \in Live /\ step = "waiting" THEN Goto(t, "late", Answers) ELSE UNCHANGED th
  /\ UNCHANGED <<kind, deadline, run, step, age, lost, jobs, child, budget>>

Timer(t) ==
  /\ At(t, "idle") /\ timers[0] > 0
  /\ LET used == [timers EXCEPT ![0] = @ - 1]
         left == Budget - age IN
     IF run \in Live /\ step = "waiting" /\ left > 0
       THEN Arm(left, used) /\ UNCHANGED th
       ELSE /\ timers' = used
            /\ IF run \in Live /\ step = "waiting" THEN Goto(t, "late", Answers)
               ELSE UNCHANGED th
            /\ UNCHANGED <<lost, budget>>
  /\ UNCHANGED <<kind, deadline, run, step, age, jobs, child>>

\* The queue delivers a timer once more.
Redeliver ==
  /\ timers[0] \in 1..(MaxTimers - 1) /\ Spend("redeliver")
  /\ timers' = [timers EXCEPT ![0] = @ + 1]
  /\ UNCHANGED <<kind, deadline, run, step, age, lost, jobs, child, th>>

\* The write of an answer, whatever the row is by now; then the run is settled.
Write(t) ==
  /\ th[t].pc \in {"answer", "late"}
  /\ step' = th[t].with
  /\ Goto(t, "settle", None)
  /\ UNCHANGED <<kind, deadline, run, age, timers, lost, jobs, child, budget>>

Settle(t) ==
  /\ At(t, "settle")
  /\ IF run \in Live /\ Over(step)
       THEN Goto(t, "finish", IF step = "failed" THEN "failed" ELSE "completed")
       ELSE Rest(t)
  /\ UNCHANGED <<kind, deadline, run, step, age, timers, lost, jobs, child, budget>>

Finish(t) ==
  /\ At(t, "finish")
  /\ run' = th[t].with
  /\ Rest(t)
  /\ UNCHANGED <<kind, deadline, step, age, timers, lost, jobs, child, budget>>

-----------------------------------------------------------------------------
\* expireIfPastDeadline and cancelWorkflow: what waits is skipped, the run closed.
Close(t) ==
  /\ At(t, "idle") /\ run \in Live
  /\ \/ Spend("expire") /\ Goto(t, "finish", "failed")
     \/ Spend("cancel") /\ Goto(t, "finish", "cancelled")
  /\ step' = IF step \in {"pending", "waiting"} THEN "skipped" ELSE step
  /\ UNCHANGED <<kind, deadline, run, age, timers, lost, jobs, child>>

\* retryWorkflow, once the calls of the failed run are over: the step is reset,
\* the run reopened and the step dispatched again.
Retry(t) ==
  /\ \A u \in Threads : At(u, "idle")
  /\ run = "failed" /\ step \in {"failed", "skipped"} /\ Spend("retry")
  /\ step' = "pending"
  /\ Goto(t, "reopen", None)
  /\ UNCHANGED <<kind, deadline, run, age, timers, lost, jobs, child>>

Reopen(t) ==
  /\ At(t, "reopen")
  /\ run' = "running"
  /\ Goto(t, "dispatch", None)
  /\ UNCHANGED <<kind, deadline, step, age, timers, lost, jobs, child, budget>>

Tick ==
  /\ \/ step = "waiting" /\ age < Budget
     \/ \E d \in 1..Budget : timers[d] > 0
  /\ age' = IF step = "waiting" /\ age < Budget THEN age + 1 ELSE age
  /\ timers' = [d \in 0..Budget |->
                  LET due == (IF d < Budget THEN timers[d + 1] ELSE 0)
                             + (IF d = 0 THEN timers[0] ELSE 0) IN
                  IF due < MaxTimers THEN due ELSE MaxTimers]
  /\ UNCHANGED <<kind, deadline, run, step, lost, jobs, child, th, budget>>

Proceed(t) ==
  \/ Dispatch(t) \/ Suspend(t) \/ ArmTimer(t) \/ StartChild(t) \/ Bridge(t) \/ Write(t)
  \/ Settle(t) \/ Finish(t) \/ Reopen(t)

Ends(c) == \E t \in Threads, v \in {"completed", "failed", "cancelled"} : EndChild(t, c, v)

Next ==
  \/ \E t \in Threads : Proceed(t) \/ Claim(t) \/ Resume(t) \/ Timer(t) \/ Close(t) \/ Retry(t)
                       \/ Crash(t)
  \/ \E c \in Children : Ends(c)
  \/ Redeliver \/ Tick

\* Calls go on, jobs are delivered when due, child runs end, time passes: whatever
\* can, something does.  No event need come.
Progress ==
  \/ \E t \in Threads : Proceed(t) \/ Claim(t) \/ Timer(t)
  \/ \E c \in Children : Ends(c)
  \/ Tick

Fairness == WF_vars(Progress)

Spec == Init /\ [][Next]_vars /\ Fairness

-----------------------------------------------------------------------------
\* A deadline ends a suspension only when that suspension has lasted its budget:
\* a timer left over from an earlier one is re-armed (timeoutStep), not obeyed.
NeverEarly ==
  [][\A t \in Threads : At(t, "late") /\ step = "waiting" /\ Write(t) => age = Budget]_vars

\* What waits does not wait for ever: a step with a deadline, or with a child run
\* that ends, settles, and its run is over; unless the queue refused every timer of
\* this suspension, or the call that suspended the step died before it went on.
CanBeAnswered ==
  (kind = "child" /\ "child" \notin lost) \/ (deadline # "none" /\ "timer" \notin lost)
EveryWaitEnds == step = "waiting" /\ CanBeAnswered ~> run # "running" \/ ~CanBeAnswered

\* The same without the exception, as deadlines.md has it: false here, for nothing
\* sends a lost timer again.
NoWaitIsForEver == step = "waiting" /\ deadline # "none" ~> run # "running"

\* A sub-workflow step is answered by the child of its present suspension.
Started == {c \in Children : child[c] # "none"}
OwnAnswer == \A t \in Threads : At(t, "bridge") /\ step = "waiting"
                                  => \A c \in Started : c <= th[t].with

=============================================================================
