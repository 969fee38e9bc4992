------------------------------- MODULE Engine -------------------------------
(***************************************************************************)
(* One run of the workflow engine (src/core/engine.ts) over a shared store *)
(* and an at-least-once job queue.  The state is what the database holds:  *)
(* the workflow row, the step rows and the queued jobs, plus one           *)
(* activation record per engine call in progress.  An engine call is a     *)
(* sequence of store calls with awaits between them, so one action is one  *)
(* store call, and everything an activation read earlier it keeps in its   *)
(* record, where it may go stale.                                          *)
(***************************************************************************)
EXTENDS Readiness, Naturals, FiniteSets

CONSTANTS
  Threads,         \* engine calls that may be in progress at once
  Sweepers,        \* those of them that may run recoverStuckWorkflows
  None,            \* a model value: no thread, no job, no step, no snapshot
  Outcomes,        \* Outcomes[s]: what the guard and handler of s may answer
  MaxAttempts,     \* MaxAttempts[s]: retry.maxAttempts of the type of s
  Waits,           \* steps of a waitForEvent type
  TimeoutPolicy,   \* TimeoutPolicy[s]: onTimeout of a wait, "none" without timeoutMs
  Compensable,     \* steps whose type has a compensate handler
  AtomicDispatch,  \* store and dispatcher share transactions
  OnStuckRetry,    \* config.onStuckStep is 'retry'
  MaxQueued,       \* bound: copies of one job the queue counts
  Budgets          \* bounds: how often each event may occur, one way for each

Outcome == {"ok", "transient", "fatal", "declined"}
Events  == {"transient", "fatal", "declined", "crash", "callercrash", "redeliver",
            "deadletter", "sendfail", "throw", "deadline", "resume", "cancel", "sweep",
            "retry"}
Job     == {"execute", "timeout"} \X Steps

ASSUME EngineAssumption ==
  /\ IsFiniteSet(Steps)
  /\ Sweepers \subseteq Threads
  /\ None \notin Threads \cup Steps \cup Job /\ Steps \cap Job = {}
  /\ Outcomes \in [Steps -> SUBSET Outcome] /\ \A s \in Steps : "ok" \in Outcomes[s]
  /\ MaxAttempts \in [Steps -> Nat \ {0}]
  /\ Waits \subseteq Steps /\ Compensable \subseteq Steps
  /\ TimeoutPolicy \in [Steps -> {"none", "fail", "output"}]
  /\ {AtomicDispatch, OnStuckRetry} \subseteq BOOLEAN
  /\ MaxQueued \in Nat \ {0}
  /\ Budgets \subseteq [Events -> Nat]

VARIABLES
  wf,        \* the status column of the workflow row
  status,    \* the status column of the step rows
  attempts,  \* their attempts column
  counts,    \* the workflow row's completed_steps and failed_steps
  lock,      \* the thread whose completion transaction is open, or None
  queue,     \* queue[j]: copies of job j waiting to be delivered
  dead,      \* steps with a job on the dead-letter queue
  late,      \* deadlineAt has passed
  th,        \* th[i]: the activation of thread i
  budget,    \* what is left of the budget chosen at the start
  undone     \* history: how often compensate ran for each step

vars  == <<wf, status, attempts, counts, lock, queue, dead, late, th, budget,
           undone>>
run   == <<wf, counts>>
rows  == <<status, attempts>>
world == <<dead, late, budget>>

(***************************************************************************)
(* Next to some definitions stands a variant with a seeded fault, named    *)
(* after the slip it makes: Next never reaches one, but put in place of    *)
(* the definition after it, it must break the properties said to watch it. *)
(***************************************************************************)

(***************************************************************************)
(* An activation: where it is, the job that started it, the step it is     *)
(* about, the attempt it believes it runs, the snapshot it read, the rows  *)
(* it has still to write or dispatch and the rows it has skipped (or, in a *)
(* sweep, has to fail).                                                    *)
(***************************************************************************)
Idle == [pc |-> "idle", job |-> None, cur |-> None, tries |-> 0,
         snap |-> None, todo |-> {}, marks |-> {}]

Pcs == {"idle", "begin", "timer", "claim", "inputs", "handler", "decline",
        "suspend", "requeue", "resend", "fail", "complete", "commit",
        "frontier", "advance", "send", "list", "cascade", "reread", "unblock",
        "terminate", "finish", "compensate", "undo", "undoing", "expire",
        "expired", "cancel", "cancelled", "sweep", "sweepSend", "reset",
        "recount", "reopen"}

At(i, p) == th[i].pc = p
Become(i, t) == th' = [th EXCEPT ![i] = t]
Goto(i, p) == th' = [th EXCEPT ![i].pc = p]
Rest(i) == Become(i, Idle)
Spend(e) == budget[e] > 0 /\ budget' = [budget EXCEPT ![e] = @ - 1]

(***************************************************************************)
(* A type with a `when` guard; a wait without one suspends at readiness.   *)
(***************************************************************************)
Guarded(s)  == "declined" \in Outcomes[s]
Suspends(s) == s \in Waits /\ ~Guarded(s)

(***************************************************************************)
(* Row locks, under READ COMMITTED.  An open completion transaction has    *)
(* updated its step row and the workflow's counters: another writer of one *)
(* of these rows waits, readers see the old versions.                      *)
(***************************************************************************)
RunFree == lock = None
RowFree(s) == lock # None => th[lock].cur # s

SetStatus(s, x) == RowFree(s) /\ status' = [status EXCEPT ![s] = x]

(***************************************************************************)
(* The queue.  A copy beyond MaxQueued is not counted.                     *)
(***************************************************************************)
Put(q, js) == [j \in Job |-> IF j \in js /\ q[j] < MaxQueued THEN q[j] + 1 ELSE q[j]]

Timers(D) == {<<"timeout", s>> : s \in {d \in D : TimeoutPolicy[d] # "none"}}

(***************************************************************************)
(* dispatchReadyStep for the steps of D: a wait is suspended and its       *)
(* deadline scheduled, any other step gets a job.                          *)
(***************************************************************************)
Suspended(st, D) == [s \in Steps |-> IF s \in D /\ Suspends(s) THEN "waiting" ELSE st[s]]

DispatchedWithoutTimers(q, D) == Put(q, {<<"execute", s>> : s \in {d \in D : ~Suspends(d)}})

Dispatched(q, D) ==
  Put(q, {<<"execute", s>> : s \in {d \in D : ~Suspends(d)}}
           \cup Timers({d \in D : Suspends(d)}))

(***************************************************************************)
(* settle and terminateIfSettled up to their next store call: what the     *)
(* activation t becomes after reading the rows st, having skipped the rows *)
(* sk.                                                                     *)
(***************************************************************************)
ToTerminateOnFailure(t, st) ==
  IF AllTerminal(st) \/ \E s \in Steps : st[s] = "failed"
    THEN [t EXCEPT !.pc = "terminate", !.snap = st, !.todo = {}, !.marks = {}]
    ELSE Idle

ToTerminateWithoutRows(t, st) ==
  IF AllTerminal(st) THEN [Idle EXCEPT !.pc = "terminate"] ELSE Idle

ToTerminate(t, st) ==
  IF AllTerminal(st)
    THEN [t EXCEPT !.pc = "terminate", !.snap = st, !.todo = {}, !.marks = {}]
    ELSE Idle

ToSettleOnePass(t, st, sk) ==
  LET plan == {s \in Pending(st) : Blocked(st, {}, s)} IN
    IF plan # {} /\ sk = {}
      THEN [t EXCEPT !.pc = "cascade", !.snap = None, !.todo = plan, !.marks = plan]
    ELSE ToTerminate(t, st)

ToSettleStrictJoins(t, st, sk) ==
  LET plan == {s \in Pending(st) : \E d \in Deps[s] : st[d] \in {"failed", "skipped"}} IN
    IF plan # {}
      THEN [t EXCEPT !.pc = "cascade", !.snap = None, !.todo = plan, !.marks = sk \cup plan]
    ELSE ToTerminate(t, st)

ToSettle(t, st, sk) ==
  LET plan == SkipPlan(st) IN
    IF plan # {}
      THEN [t EXCEPT !.pc = "cascade", !.snap = None, !.todo = plan, !.marks = sk \cup plan]
    ELSE IF sk # {}
      THEN [t EXCEPT !.pc = "reread", !.snap = None, !.todo = {}, !.marks = sk]
    ELSE ToTerminate(t, st)

-----------------------------------------------------------------------------
(***************************************************************************)
(* startWorkflow has committed: the rows exist, the roots are dispatched.  *)
(***************************************************************************)
Roots == {s \in Steps : Deps[s] = {}}

Init ==
  /\ wf = "running"
  /\ status = Suspended([s \in Steps |-> "pending"], Roots)
  /\ attempts = [s \in Steps |-> 0]
  /\ counts = [completed |-> 0, failed |-> 0]
  /\ lock = None
  /\ queue = Dispatched([j \in Job |-> 0], Roots)
  /\ dead = {}
  /\ late = FALSE
  /\ th = [i \in Threads |-> Idle]
  /\ budget \in Budgets
  /\ undone = [s \in Steps |-> 0]

-----------------------------------------------------------------------------
(***************************************************************************)
(* executeStep: take a job, claim the step, run its handler.               *)
(***************************************************************************)
Deliver(i, j) ==
  /\ At(i, "idle")
  /\ queue[j] > 0
  /\ queue' = [queue EXCEPT ![j] = @ - 1]
  /\ Become(i, [Idle EXCEPT !.pc = IF j[1] = "execute" THEN "begin" ELSE "timer",
                            !.job = j, !.cur = j[2]])
  /\ UNCHANGED <<run, rows, lock, world, undone>>

(***************************************************************************)
(* A job for a completed step of a live run drives the advance again.      *)
(***************************************************************************)
Redrive(s) == status[s] = "completed" /\ wf = "running"

(***************************************************************************)
(* getWorkflow, the deadline check and getStep.  The two reads are one     *)
(* action: of the step row only the attempts are used later, the claim     *)
(* tests the status again.                                                 *)
(***************************************************************************)
Begin(i) ==
  LET s == th[i].cur IN
  /\ At(i, "begin")
  /\ \/ /\ wf \in {"cancelled", "failed"}
        /\ Rest(i)
     \/ /\ wf = "running" /\ late
        /\ Goto(i, "expire")
     \/ /\ wf = "completed" \/ (wf = "running" /\ ~late)
        /\ \/ /\ status[s] = "pending"
              /\ th' = [th EXCEPT ![i].pc = "claim", ![i].tries = attempts[s] + 1]
           \/ Redrive(s) /\ Goto(i, "frontier")
           \/ status[s] # "pending" /\ ~Redrive(s) /\ Rest(i)
  /\ UNCHANGED <<run, rows, lock, queue, world, undone>>

ClaimBlindly(i) ==
  LET s == th[i].cur IN
  /\ At(i, "claim")
  /\ SetStatus(s, "running")
  /\ attempts' = [attempts EXCEPT ![s] = @ + 1]
  /\ Goto(i, "inputs")
  /\ UNCHANGED <<run, lock, queue, world, undone>>

Claim(i) ==
  LET s == th[i].cur IN
  /\ At(i, "claim")
  /\ RowFree(s)
  /\ \/ /\ status[s] = "pending"
        /\ status' = [status EXCEPT ![s] = "running"]
        /\ attempts' = [attempts EXCEPT ![s] = @ + 1]
        /\ Goto(i, "inputs")
     \/ /\ status[s] # "pending"
        /\ Rest(i)
        /\ UNCHANGED rows
  /\ UNCHANGED <<run, lock, queue, world, undone>>

(***************************************************************************)
(* The outputs of the dependencies; without them the call returns an error *)
(* and the row stays `running`.                                            *)
(***************************************************************************)
Usable(s) ==
  \A d \in Deps[s] : status[d] = "completed" \/ (s \in AnyJoin /\ status[d] = "skipped")

Inputs(i) ==
  /\ At(i, "inputs")
  /\ IF Usable(th[i].cur) THEN Goto(i, "handler") ELSE Rest(i)
  /\ UNCHANGED <<run, rows, lock, queue, world, undone>>

(***************************************************************************)
(* The guard and the handler answer.                                       *)
(***************************************************************************)
Handle(i) ==
  LET s == th[i].cur IN
  /\ At(i, "handler")
  /\ \E o \in Outcomes[s] :
       /\ IF o = "ok" THEN UNCHANGED budget ELSE Spend(o)
       /\ Goto(i, CASE o = "declined"  -> "decline"
                    [] o = "ok"        -> IF s \in Waits THEN "suspend" ELSE "complete"
                    [] o = "transient" -> IF th[i].tries < MaxAttempts[s]
                                            THEN "requeue" ELSE "fail"
                    [] o = "fatal"     -> "fail")
  /\ UNCHANGED <<run, rows, lock, queue, dead, late, undone>>

Decline(i) ==
  /\ At(i, "decline")
  /\ SetStatus(th[i].cur, "skipped")
  /\ th' = [th EXCEPT ![i].pc = "list", ![i].marks = {th[i].cur}]
  /\ UNCHANGED <<run, attempts, lock, queue, world, undone>>

Suspend(i) ==
  /\ At(i, "suspend")
  /\ SetStatus(th[i].cur, "waiting")
  /\ queue' = Put(queue, Timers({th[i].cur}))
  /\ Rest(i)
  /\ UNCHANGED <<run, attempts, lock, world, undone>>

(***************************************************************************)
(* A transient failure within the budget: back to `pending`, then a job.   *)
(***************************************************************************)
Requeue(i) ==
  /\ At(i, "requeue")
  /\ SetStatus(th[i].cur, "pending")
  /\ Goto(i, "resend")
  /\ UNCHANGED <<run, attempts, lock, queue, world, undone>>

ResendOrForget(i) ==
  /\ At(i, "resend")
  /\ \/ queue' = Put(queue, {<<"execute", th[i].cur>>}) /\ UNCHANGED budget
     \/ Spend("sendfail") /\ UNCHANGED queue
  /\ Rest(i)
  /\ UNCHANGED <<run, rows, lock, dead, late, undone>>

Resend(i) ==
  /\ At(i, "resend")
  /\ \/ /\ queue' = Put(queue, {<<"execute", th[i].cur>>})
        /\ Rest(i)
        /\ UNCHANGED budget
     \/ /\ Spend("sendfail")
        /\ Goto(i, "fail")
        /\ UNCHANGED queue
  /\ UNCHANGED <<run, rows, lock, dead, late, undone>>

(***************************************************************************)
(* markStepFailed, the first half of failStepTerminal and of               *)
(* handleStepExhausted.                                                    *)
(***************************************************************************)
Fail(i) ==
  /\ At(i, "fail")
  /\ RunFree
  /\ SetStatus(th[i].cur, "failed")
  /\ counts' = [counts EXCEPT !.failed = @ + 1]
  /\ th' = [th EXCEPT ![i].pc = "list", ![i].marks = {}]
  /\ UNCHANGED <<wf, attempts, lock, queue, world, undone>>

-----------------------------------------------------------------------------
(***************************************************************************)
(* onStepCompleted.  In one transaction: complete the row, read the rows,  *)
(* dispatch what became ready, commit.  Taking the locks and reading are   *)
(* one action: whoever changes these rows in between would have to hold    *)
(* the workflow row's lock, or is seen by the read.                        *)
(***************************************************************************)
Complete(i) ==
  LET st == [status EXCEPT ![th[i].cur] = "completed"] IN
  /\ At(i, "complete")
  /\ RunFree
  /\ IF AtomicDispatch
       THEN /\ lock' = i
            /\ th' = [th EXCEPT ![i].pc = "commit", ![i].snap = st,
                                ![i].todo = ReadyPlan(st)]
            /\ UNCHANGED <<status, counts>>
       ELSE /\ status' = st
            /\ counts' = [counts EXCEPT !.completed = @ + 1]
            /\ Goto(i, "frontier")
            /\ UNCHANGED lock
  /\ UNCHANGED <<wf, attempts, queue, world, undone>>

Commit(i) ==
  LET t == th[i] IN
  /\ At(i, "commit")
  /\ status' = Suspended([status EXCEPT ![t.cur] = "completed"], t.todo)
  /\ queue' = Dispatched(queue, t.todo)
  /\ counts' = [counts EXCEPT !.completed = @ + 1]
  /\ lock' = None
  /\ Become(i, ToSettle(t, t.snap, {}))
  /\ UNCHANGED <<wf, attempts, world, undone>>

(***************************************************************************)
(* dispatchNewlyReady without a completion in front of it, or without a    *)
(* transaction around it.  Only a re-driving worker runs it in a           *)
(* transaction of its own, where the dispatches appear together, at the    *)
(* commit; it locks nothing before it writes.                              *)
(***************************************************************************)
Frontier(i) ==
  /\ At(i, "frontier")
  /\ th' = [th EXCEPT ![i].pc = IF AtomicDispatch /\ th[i].job # None
                                  THEN "advance" ELSE "send",
                      ![i].snap = status, ![i].todo = ReadyPlan(status)]
  /\ UNCHANGED <<run, rows, lock, queue, world, undone>>

Advance(i) ==
  LET t == th[i] IN
  /\ At(i, "advance")
  /\ \A s \in t.todo : Suspends(s) => RowFree(s)
  /\ status' = Suspended(status, t.todo)
  /\ queue' = Dispatched(queue, t.todo)
  /\ Become(i, ToSettle(t, t.snap, {}))
  /\ UNCHANGED <<run, attempts, lock, world, undone>>

(***************************************************************************)
(* One dispatchReadyStep outside a transaction; a failed enqueue is only   *)
(* logged.                                                                 *)
(***************************************************************************)
DispatchOne(i, s) ==
  /\ Suspends(s) => RowFree(s)
  /\ status' = Suspended(status, {s})
  /\ \/ queue' = Dispatched(queue, {s}) /\ UNCHANGED budget
     \/ ~Suspends(s) /\ Spend("sendfail") /\ UNCHANGED queue

Send(i) ==
  LET t == th[i] IN
  /\ At(i, "send")
  /\ \/ \E s \in t.todo : /\ DispatchOne(i, s)
                          /\ th' = [th EXCEPT ![i].todo = @ \ {s}]
     \/ /\ t.todo = {}
        /\ Become(i, ToSettle(t, t.snap, {}))
        /\ UNCHANGED <<status, queue, budget>>
  /\ UNCHANGED <<run, attempts, lock, dead, late, undone>>

-----------------------------------------------------------------------------
(***************************************************************************)
(* settle: prune, re-read, dispatch what a skip unblocked, terminate.      *)
(***************************************************************************)
List(i) ==
  /\ At(i, "list")
  /\ Become(i, ToSettle(th[i], status, th[i].marks))
  /\ UNCHANGED <<run, rows, lock, queue, world, undone>>

Cascade(i) ==
  LET t == th[i] IN
  /\ At(i, "cascade")
  /\ \E s \in t.todo :
       /\ SetStatus(s, "skipped")
       /\ th' = [th EXCEPT ![i].todo = @ \ {s},
                           ![i].pc = IF t.todo = {s} THEN "reread" ELSE @]
  /\ UNCHANGED <<run, attempts, lock, queue, world, undone>>

RereadWithoutUnblock(i) ==
  /\ At(i, "reread")
  /\ Become(i, ToTerminate(th[i], status))
  /\ UNCHANGED <<run, rows, lock, queue, world, undone>>

Reread(i) ==
  LET t == th[i]
      unblocked == {s \in ReadyPlan(status) : Deps[s] \cap t.marks # {}}
  IN
  /\ At(i, "reread")
  /\ IF unblocked = {}
       THEN Become(i, ToTerminate(t, status))
       ELSE th' = [th EXCEPT ![i].pc = "unblock", ![i].snap = status, ![i].todo = unblocked]
  /\ UNCHANGED <<run, rows, lock, queue, world, undone>>

Unblock(i) ==
  LET t == th[i] IN
  /\ At(i, "unblock")
  /\ \E s \in t.todo :
       /\ DispatchOne(i, s)
       /\ Become(i, IF t.todo = {s} THEN ToTerminate(t, t.snap)
                                    ELSE [t EXCEPT !.todo = @ \ {s}])
  /\ UNCHANGED <<run, attempts, lock, dead, late, undone>>

Terminate(i) ==
  /\ At(i, "terminate")
  /\ IF wf = "running" THEN Goto(i, "finish") ELSE Rest(i)
  /\ UNCHANGED <<run, rows, lock, queue, world, undone>>

(***************************************************************************)
(* finishWorkflow, unconditionally, with the verdict of the snapshot.      *)
(***************************************************************************)
Finish(i) ==
  /\ At(i, "finish")
  /\ RunFree
  /\ IF \E s \in Steps : th[i].snap[s] = "failed"
       THEN /\ wf' = "failed"
            /\ th' = [th EXCEPT ![i].pc = "compensate", ![i].snap = None]
       ELSE /\ wf' = "completed"
            /\ Rest(i)
  /\ UNCHANGED <<counts, rows, lock, queue, world, undone>>

(***************************************************************************)
(* compensateWorkflow: the completed steps with a handler, one at a time,  *)
(* a step before its dependencies.                                         *)
(***************************************************************************)
ToUndoOnlyFirst(t, D) ==
  IF D = {} \/ t.pc = "undoing" THEN Idle ELSE [t EXCEPT !.pc = "undo", !.todo = D]

ToUndo(t, D) ==
  IF D = {} THEN Idle ELSE [t EXCEPT !.pc = "undo", !.todo = D]

Compensate(i) ==
  /\ At(i, "compensate")
  /\ Become(i, ToUndo(th[i], {s \in Compensable : status[s] = "completed"}))
  /\ UNCHANGED <<run, rows, lock, queue, world, undone>>

UndoInAnyOrder(i) ==
  /\ At(i, "undo")
  /\ \E s \in th[i].todo :
       /\ SetStatus(s, "compensating")
       /\ th' = [th EXCEPT ![i].pc = "undoing", ![i].cur = s, ![i].todo = @ \ {s}]
  /\ UNCHANGED <<run, attempts, lock, queue, world, undone>>

Undo(i) ==
  /\ At(i, "undo")
  /\ \E s \in th[i].todo :
       /\ \A t \in th[i].todo : s \notin Deps[t]
       /\ SetStatus(s, "compensating")
       /\ th' = [th EXCEPT ![i].pc = "undoing", ![i].cur = s, ![i].todo = @ \ {s}]
  /\ UNCHANGED <<run, attempts, lock, queue, world, undone>>

Undoing(i) ==
  /\ At(i, "undoing")
  /\ SetStatus(th[i].cur, "compensated")
  /\ undone' = [undone EXCEPT ![th[i].cur] = @ + 1]
  /\ Become(i, ToUndo(th[i], th[i].todo))
  /\ UNCHANGED <<run, attempts, lock, queue, world>>

-----------------------------------------------------------------------------
(***************************************************************************)
(* resumeStep and timeoutStep: the reads that find the step `waiting`; the *)
(* write comes later, in Complete or Fail.  A timeout job is delivered no  *)
(* earlier than its deadline.                                              *)
(***************************************************************************)
Resume(i, s) ==
  /\ At(i, "idle")
  /\ wf = "running" /\ status[s] = "waiting"
  /\ Spend("resume")
  /\ Become(i, [Idle EXCEPT !.pc = "complete", !.cur = s])
  /\ UNCHANGED <<run, rows, lock, queue, dead, late, undone>>

Timeout(i) ==
  LET s == th[i].cur IN
  /\ At(i, "timer")
  /\ IF wf = "running" /\ status[s] = "waiting"
       THEN Goto(i, IF TimeoutPolicy[s] = "output" THEN "complete" ELSE "fail")
       ELSE Rest(i)
  /\ UNCHANGED <<run, rows, lock, queue, world, undone>>

(***************************************************************************)
(* cancelWorkflow and expireIfPastDeadline: skip what has not started,     *)
(* then finish the run.                                                    *)
(***************************************************************************)
Cancel(i) ==
  /\ At(i, "idle")
  /\ wf = "running"
  /\ Spend("cancel")
  /\ Become(i, [Idle EXCEPT !.pc = "cancel"])
  /\ UNCHANGED <<run, rows, lock, queue, dead, late, undone>>

SkipNothing(i) ==
  /\ th[i].pc \in {"cancel", "expire"}
  /\ Goto(i, IF At(i, "cancel") THEN "cancelled" ELSE "expired")
  /\ UNCHANGED <<run, rows, lock, queue, world, undone>>

SkipPendingSteps(i) ==
  /\ th[i].pc \in {"cancel", "expire"}
  /\ lock # None => status[th[lock].cur] \notin {"pending", "waiting"}
  /\ status' = [s \in Steps |-> IF status[s] \in {"pending", "waiting"}
                                  THEN "skipped" ELSE status[s]]
  /\ Goto(i, IF At(i, "cancel") THEN "cancelled" ELSE "expired")
  /\ UNCHANGED <<run, attempts, lock, queue, world, undone>>

CloseRun(i) ==
  /\ RunFree
  /\ \/ At(i, "cancelled") /\ wf' = "cancelled" /\ Rest(i)
     \/ At(i, "expired") /\ wf' = "failed" /\ Goto(i, "compensate")
  /\ UNCHANGED <<counts, rows, lock, queue, world, undone>>

-----------------------------------------------------------------------------
(***************************************************************************)
(* recoverStuckWorkflows.  A step is stuck when it has been `running` for  *)
(* longer than the threshold, which is set above the queue's job expiry:   *)
(* no call that claimed it is then still alive.                            *)
(***************************************************************************)
Owning == {"inputs", "handler", "decline", "suspend", "requeue", "fail",
           "complete", "commit"}

Owns(i, s) == th[i].cur = s /\ th[i].pc \in Owning

StuckInAnyStatus == {s \in Steps : attempts[s] > 0 /\ ~\E i \in Threads : Owns(i, s)}

Stuck == {s \in Steps : /\ status[s] = "running"
                        /\ ~\E i \in Threads : Owns(i, s)}

Sweep(i) ==
  LET again == {s \in Stuck : OnStuckRetry /\ attempts[s] < MaxAttempts[s]} IN
  /\ i \in Sweepers
  /\ At(i, "idle")
  /\ wf = "running"
  /\ Spend("sweep")
  /\ \/ late /\ Become(i, [Idle EXCEPT !.pc = "expire"])
     \/ /\ ~late /\ Stuck # {}
        /\ Become(i, [Idle EXCEPT !.pc = "sweep", !.todo = again, !.marks = Stuck \ again])
  /\ UNCHANGED <<run, rows, lock, queue, dead, late, undone>>

(***************************************************************************)
(* A sweep puts the steps of todo back, fails those of marks, and settles  *)
(* the run if it failed any (tries).                                       *)
(***************************************************************************)
NextSuspect(t) ==
  IF t.todo \cup t.marks # {} THEN [t EXCEPT !.pc = "sweep", !.cur = None]
  ELSE IF t.tries = 1 THEN [Idle EXCEPT !.pc = "list"]
  ELSE Idle

SweepRetry(i) ==
  /\ At(i, "sweep")
  /\ \E s \in th[i].todo :
       /\ SetStatus(s, "pending")
       /\ th' = [th EXCEPT ![i].pc = "sweepSend", ![i].cur = s, ![i].todo = @ \ {s}]
  /\ UNCHANGED <<run, attempts, lock, queue, world, undone>>

SweepSendNothing(i) ==
  /\ At(i, "sweepSend")
  /\ Become(i, NextSuspect(th[i]))
  /\ UNCHANGED <<run, rows, lock, queue, world, undone>>

SweepSend(i) ==
  /\ At(i, "sweepSend")
  /\ \/ /\ queue' = Put(queue, {<<"execute", th[i].cur>>})
        /\ Become(i, NextSuspect(th[i]))
        /\ UNCHANGED budget
     \/ /\ Spend("sendfail")
        /\ Become(i, NextSuspect([th[i] EXCEPT !.marks = @ \cup {th[i].cur}]))
        /\ UNCHANGED queue
  /\ UNCHANGED <<run, rows, lock, dead, late, undone>>

SweepFail(i) ==
  /\ At(i, "sweep")
  /\ RunFree
  /\ \E s \in th[i].marks :
       /\ SetStatus(s, "failed")
       /\ Become(i, NextSuspect([th[i] EXCEPT !.marks = @ \ {s}, !.tries = 1]))
  /\ counts' = [counts EXCEPT !.failed = @ + 1]
  /\ UNCHANGED <<wf, attempts, lock, queue, world, undone>>

(***************************************************************************)
(* handleStepExhausted, for a job on the dead-letter queue.                *)
(***************************************************************************)
ExhaustBlindly(i, s) ==
  /\ At(i, "idle")
  /\ s \in dead
  /\ dead' = dead \ {s}
  /\ Become(i, [Idle EXCEPT !.pc = "fail", !.cur = s, !.job = s])
  /\ UNCHANGED <<run, rows, lock, queue, late, budget, undone>>

Exhaust(i, s) ==
  /\ At(i, "idle")
  /\ s \in dead
  /\ dead' = dead \ {s}
  /\ Become(i, IF status[s] \in {"completed", "failed", "skipped"} THEN Idle
               ELSE [Idle EXCEPT !.pc = "fail", !.cur = s, !.job = s])
  /\ UNCHANGED <<run, rows, lock, queue, late, budget, undone>>

(***************************************************************************)
(* retryWorkflow.                                                          *)
(***************************************************************************)
RetryWhileRunning(i) ==
  LET reset == {s \in Steps : status[s] \in {"failed", "skipped", "compensated"}} IN
  /\ At(i, "idle")
  /\ reset # {}
  /\ Spend("retry")
  /\ Become(i, [Idle EXCEPT !.pc = "reset", !.todo = reset])
  /\ UNCHANGED <<run, rows, lock, queue, dead, late, undone>>

Retry(i) ==
  LET reset == {s \in Steps : status[s] \in {"failed", "skipped", "compensated"}} IN
  /\ At(i, "idle")
  /\ wf = "failed" /\ reset # {}
  /\ Spend("retry")
  /\ Become(i, [Idle EXCEPT !.pc = "reset", !.todo = reset])
  /\ UNCHANGED <<run, rows, lock, queue, dead, late, undone>>

Reset(i) ==
  LET t == th[i] IN
  /\ At(i, "reset")
  /\ \E s \in t.todo :
       /\ SetStatus(s, "pending")
       /\ attempts' = [attempts EXCEPT ![s] = 0]
       /\ th' = [th EXCEPT ![i].todo = @ \ {s},
                           ![i].pc = IF t.todo = {s} THEN "recount" ELSE @]
  /\ UNCHANGED <<run, lock, queue, world, undone>>

Recount(i) ==
  /\ At(i, "recount")
  /\ th' = [th EXCEPT ![i].pc = "reopen", ![i].snap = status]
  /\ UNCHANGED <<run, rows, lock, queue, world, undone>>

ReopenFromZero(i) ==
  /\ At(i, "reopen")
  /\ RunFree
  /\ wf' = "running"
  /\ counts' = [completed |-> 0, failed |-> 0]
  /\ th' = [th EXCEPT ![i].pc = "frontier", ![i].snap = None]
  /\ UNCHANGED <<rows, lock, queue, world, undone>>

Reopen(i) ==
  /\ At(i, "reopen")
  /\ RunFree
  /\ wf' = "running"
  /\ counts' = [completed |-> Cardinality({s \in Steps : th[i].snap[s] = "completed"}),
                failed |-> 0]
  /\ th' = [th EXCEPT ![i].pc = "frontier", ![i].snap = None]
  /\ UNCHANGED <<rows, lock, queue, world, undone>>

-----------------------------------------------------------------------------
(***************************************************************************)
(* The environment.  A call that dies leaves the store as it is, rolls its *)
(* transaction back, and its job is delivered again or, its deliveries     *)
(* being exhausted, dead-lettered; a dead letter is delivered again too.   *)
(* A job that outlives its expiry is delivered again while the first call  *)
(* still runs.                                                             *)
(***************************************************************************)
Crash(i) ==
  LET j == th[i].job IN
  /\ ~At(i, "idle")
  /\ \/ /\ Spend(IF j = None THEN "callercrash" ELSE "crash")
        /\ queue' = Put(queue, {j} \cap Job)
        /\ dead' = dead \cup ({j} \cap Steps)
     \/ /\ j \in Job /\ Spend("deadletter")
        /\ dead' = dead \cup {j[2]}
        /\ UNCHANGED queue
  /\ lock' = IF lock = i THEN None ELSE lock
  /\ Rest(i)
  /\ UNCHANGED <<run, rows, late, undone>>

(***************************************************************************)
(* Something throws inside the try block of executeStep (a store call, or  *)
(* what the settle after the completion runs): the catch clause fails the  *)
(* step of the job, whatever its row says by now.  The copy of the job     *)
(* that the rethrown error causes finds a failed step and is left out.     *)
(***************************************************************************)
Throw(i) ==
  LET j == th[i].job IN
  /\ j \in Job /\ th[i].tries > 0
  /\ th[i].pc \notin {"claim", "inputs"}
  /\ Spend("throw")
  /\ lock' = IF lock = i THEN None ELSE lock
  /\ Become(i, [Idle EXCEPT !.pc = "fail", !.job = j, !.cur = j[2]])
  /\ UNCHANGED <<run, rows, queue, dead, late, undone>>

Redeliver(i) ==
  /\ th[i].job \in Job
  /\ Spend("redeliver")
  /\ queue' = Put(queue, {th[i].job})
  /\ UNCHANGED <<run, rows, lock, dead, late, th, undone>>

PassDeadline ==
  /\ ~late
  /\ Spend("deadline")
  /\ late' = TRUE
  /\ UNCHANGED <<run, rows, lock, queue, dead, th, undone>>

-----------------------------------------------------------------------------
Step(i) ==
  \/ Begin(i) \/ Claim(i) \/ Inputs(i) \/ Handle(i) \/ Decline(i) \/ Suspend(i)
  \/ Requeue(i) \/ Resend(i) \/ Fail(i) \/ Complete(i) \/ Commit(i)
  \/ Frontier(i) \/ Advance(i) \/ Send(i) \/ List(i) \/ Cascade(i) \/ Reread(i) \/ Unblock(i)
  \/ Terminate(i) \/ Finish(i) \/ Compensate(i) \/ Undo(i) \/ Undoing(i)
  \/ Timeout(i) \/ SkipPendingSteps(i) \/ CloseRun(i)
  \/ SweepRetry(i) \/ SweepSend(i) \/ SweepFail(i) \/ Reset(i) \/ Recount(i) \/ Reopen(i)

Start(i) ==
  \/ \E j \in Job : Deliver(i, j)
  \/ \E s \in Steps : Exhaust(i, s)
  \/ Sweep(i)

Operator(i) ==
  \/ \E s \in Steps : Resume(i, s)
  \/ Cancel(i)
  \/ Retry(i)

Next ==
  \/ \E i \in Threads :
       Step(i) \/ Start(i) \/ Operator(i) \/ Crash(i) \/ Throw(i) \/ Redeliver(i)
  \/ PassDeadline

(***************************************************************************)
(* A call in progress goes on, queued jobs are delivered, the sweeper runs *)
(* on its schedule.  Operators and the environment owe nothing.            *)
(***************************************************************************)
Fairness ==
  /\ \A i \in Threads : WF_vars(Step(i))
  /\ WF_vars(\E i \in Threads : Start(i))

Spec == Init /\ [][Next]_vars
FairSpec == Spec /\ Fairness

-----------------------------------------------------------------------------
(***************************************************************************)
(* Types.  An activation about a step names it; one that acts on rows it   *)
(* has read holds them.                                                    *)
(***************************************************************************)
Rows == [Steps -> StepStatus]

AboutStep == {"begin", "timer", "claim", "inputs", "handler", "decline", "suspend",
              "requeue", "resend", "fail", "complete", "commit", "undoing", "sweepSend"}

HoldsRows == {"commit", "advance", "send", "unblock", "terminate", "finish", "reopen"}

Activation == [pc : Pcs, job : Job \cup Steps \cup {None}, cur : Steps \cup {None},
               tries : Nat, snap : Rows \cup {None}, todo : SUBSET Steps,
               marks : SUBSET Steps]

ActivationOK(t) ==
  /\ t.pc \in AboutStep => t.cur \in Steps
  /\ t.pc \in HoldsRows => t.snap \in Rows

(***************************************************************************)
(* Every variable has its type, and the open completion transaction is the *)
(* one of a thread that is about to commit.                                *)
(***************************************************************************)
TypeOK ==
  /\ wf \in {"running", "completed", "failed", "cancelled"}
  /\ status \in Rows
  /\ attempts \in [Steps -> Nat]
  /\ counts \in [completed : Nat, failed : Nat]
  /\ lock \in Threads \cup {None}
  /\ lock # None => th[lock].pc = "commit"
  /\ queue \in [Job -> Nat]
  /\ dead \subseteq Steps
  /\ late \in BOOLEAN
  /\ th \in [Threads -> Activation] /\ \A i \in Threads : ActivationOK(th[i])
  /\ budget \in [Events -> Nat]
  /\ undone \in [Steps -> Nat]

(***************************************************************************)
(* Safety.                                                                 *)
(***************************************************************************)
Quiet ==
  /\ \A i \in Threads : At(i, "idle")
  /\ \A j \in Job : queue[j] = 0
  /\ dead = {}

\* One claim, one handler: however often a job is delivered, two calls never
\* run the handler of one step at the same time (markStepRunning).
HandlerExclusive ==
  \A i, j \in Threads :
    At(i, "handler") /\ At(j, "handler") /\ th[i].cur = th[j].cur => i = j

(***************************************************************************)
(* Why claims are exclusive while no run is retried and there is one       *)
(* sweeper: only the holder of a claim makes its row `pending` again, and  *)
(* lets go of it by doing so, and the steps a sweep is about to put back   *)
(* are held by nobody.  A second sweeper or a retry breaks this.           *)
(***************************************************************************)
Holding  == {"inputs", "handler", "requeue"}
Sweeping == {"sweep", "sweepSend"}

Holds(i, s) == th[i].pc \in Holding /\ th[i].cur = s

ClaimsHeld ==
  \A i \in Threads : th[i].pc \in Holding =>
    /\ status[th[i].cur] # "pending"
    /\ \A j \in Threads : Holds(j, th[i].cur) => i = j

SweptIsFree ==
  \A i \in Threads : th[i].pc \in Sweeping =>
    /\ i \in Sweepers
    /\ \A s \in th[i].todo : status[s] # "pending" /\ \A j \in Threads : ~Holds(j, s)

NoRetry == budget["retry"] = 0 /\ \A i \in Threads : ~At(i, "reset")

ClaimInv == TypeOK /\ ClaimsHeld /\ SweptIsFree /\ NoRetry

\* A handler runs on rows that have not changed under it: its dependencies are
\* still completed (skipped arms aside) for as long as it runs.
RunsOnSettledDependencies ==
  \A i \in Threads : At(i, "handler") => Usable(th[i].cur)

\* A run that is not over is never left with nothing that could move it: there
\* is a call in progress, a job, a dead letter, a row the sweeper looks at or a
\* wait (settle; docs/running/cancellation-and-recovery.md).
NoStrandedRun ==
  wf = "running" /\ Quiet => \E s \in Steps : status[s] \in {"running", "waiting"}

Reopening == \E i \in Threads : th[i].pc \in {"reset", "recount", "reopen"}

\* The verdict is the one the rows justify, whichever of several concurrent
\* settles wrote it (terminateIfSettled).
VerdictMatchesRows ==
  /\ wf = "completed" => \A s \in Steps : status[s] \in {"completed", "skipped"}
  /\ wf = "failed" /\ ~late /\ ~Reopening =>
       /\ \A s \in Steps : status[s] \in TerminalStatuses \cup {"compensating"}
       /\ \E s \in Steps : status[s] = "failed"

\* The workflow row's counters agree with the step rows they count, although
\* they are kept by separate increments (completeStep, failStep).
Done(st) == {s \in Steps : st[s] \in {"completed", "compensating", "compensated"}}

CountsMatchRows ==
  ~Reopening => /\ counts.completed = Cardinality(Done(status))
                /\ counts.failed = Cardinality({s \in Steps : status[s] = "failed"})

\* The workflow row says of its steps what the step rows say.
RunRowMatchesSteps == VerdictMatchesRows /\ CountsMatchRows

\* A step runs at most retry.maxAttempts times, counting every claim.
AttemptsWithinBudget == \A s \in Steps : attempts[s] <= MaxAttempts[s]

\* compensate runs at most once for each step of a failed run.
CompensatedOnce == \A s \in Steps : undone[s] <= 1

\* Once a failed run is quiet, nothing it completed is left in place that a
\* compensate handler could have undone.
NothingLeftInPlace ==
  wf = "failed" /\ Quiet =>
    \A s \in Compensable : status[s] \notin {"completed", "compensating"}

\* When a run is over and quiet, so is every step of it: nothing it started is
\* still shown as outstanding (skipPendingSteps, settle).
SettledWhenOver ==
  wf # "running" /\ Quiet /\ ~Reopening => AllTerminal(status)

\* Effects come apart in the opposite order they were made: when the effect of
\* a step is being undone, no step built on it has its own effect in place.
UndoneBeforeDependencies ==
  \A s \in Steps, e \in Compensable :
    status[s] \in {"compensating", "compensated"} /\ s \in Deps[e] => status[e] # "completed"

\* What a failed run has done is all undone, and in the right order.
UndoneCleanly == NothingLeftInPlace /\ UndoneBeforeDependencies

\* A run that is over leaves nothing outstanding and nothing in place.
EndsClean == SettledWhenOver /\ NothingLeftInPlace

\* A terminal status is final: a step leaves it only to be compensated, or by an
\* operator's retry of a failed run.
TerminalStays ==
  [][\A s \in Steps :
       status[s] \in TerminalStatuses /\ status'[s] # status[s] =>
         wf = "failed" /\ <<status[s], status'[s]>> \in
           ({"completed", "compensated"} \X {"compensating"})
             \cup ({"failed", "skipped", "compensated"} \X {"pending"})]_vars

\* The verdict is final: only a retry takes a run out of a terminal status.
VerdictIsFinal ==
  [][wf # "running" /\ wf' # wf => wf = "failed" /\ \E i \in Threads : At(i, "reopen")]_vars

\* Neither the rows of a run nor its verdict come back but by an operator's retry.
NothingRevives == TerminalStays /\ VerdictIsFinal

(***************************************************************************)
(* Liveness.                                                               *)
(***************************************************************************)
\* A run whose steps all answer comes to an end, and again after every retry.
Finishes == wf = "running" ~> wf # "running"

\* It ends, and then nothing of it is outstanding.
FinishesSettled == Finishes /\ []SettledWhenOver

(***************************************************************************)
(* The promise of DagRun.  Compensation is not part of it: an undone step  *)
(* was completed.                                                          *)
(***************************************************************************)
RowOf(x) ==
  CASE x \in {"waiting", "mapping"} -> "running"
    [] x \in {"compensating", "compensated"} -> "completed"
    [] OTHER -> x

Promise == INSTANCE DagRun WITH verdict <- wf, row <- [s \in Steps |-> RowOf(status[s])]

\* The engine implements DagRun: whatever snapshots its calls act on, no step
\* starts, is pruned or settles that the rows of that moment do not allow.
ImplementsDagRun == Promise!Spec

\* And, where its calls and jobs are carried on, the run ends.
ImplementsLiveDagRun == Promise!LiveSpec

=============================================================================
