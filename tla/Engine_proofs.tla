---------------------------- MODULE Engine_proofs ----------------------------
(***************************************************************************)
(* Theorems about Engine for every graph, join rule, number of workers and *)
(* sweepers, retry policy and budget of faults.                            *)
(***************************************************************************)
EXTENDS Engine, FiniteSetTheorems, TLAPS

(***************************************************************************)
(* The parts of TypeOK.                                                    *)
(***************************************************************************)
ThOK   == th \in [Threads -> Activation] /\ \A i \in Threads : ActivationOK(th[i])
LockOK == lock \in Threads \cup {None} /\ (lock # None => th[lock].pc = "commit")
RowsOK == status \in Rows /\ attempts \in [Steps -> Nat]
RunOK  == /\ wf \in {"running", "completed", "failed", "cancelled"}
          /\ counts \in [completed : Nat, failed : Nat]
WorldOK == dead \subseteq Steps /\ late \in BOOLEAN /\ budget \in [Events -> Nat]

LEMMA TypeParts ==
  TypeOK <=> /\ ThOK /\ LockOK /\ RowsOK /\ RunOK /\ WorldOK
             /\ queue \in [Job -> Nat] /\ undone \in [Steps -> Nat]
BY DEF TypeOK, ThOK, LockOK, RowsOK, RunOK, WorldOK

(***************************************************************************)
(* An action of thread i that leaves the lock or gives up its own: it is   *)
(* enough that the new activation is a good one.                           *)
(***************************************************************************)
LEMMA Acting ==
  ASSUME ThOK, LockOK, NEW i \in Threads, NEW t \in Activation, ActivationOK(t),
         Become(i, t), lock' = lock \/ lock' = None,
         th[i].pc = "commit" => lock' # i
  PROVE  ThOK' /\ LockOK'
<1>1. th' \in [Threads -> Activation] /\ \A k \in Threads : ActivationOK(th'[k])
  BY DEF ThOK, Become
<1>2. lock' \in Threads \cup {None} /\ (lock' # None => th'[lock'].pc = "commit")
  BY DEF ThOK, LockOK, Become
<1>3. QED
  BY <1>1, <1>2 DEF ThOK, LockOK, ActivationOK

LEMMA IdleIsOK == Idle \in Activation /\ ActivationOK(Idle)
BY DEF Idle, Activation, ActivationOK, Pcs, AboutStep, HoldsRows

(***************************************************************************)
(* The helpers return what their callers need.                             *)
(***************************************************************************)
LEMMA PutType ==
  ASSUME NEW q \in [Job -> Nat], NEW js
  PROVE  Put(q, js) \in [Job -> Nat]
BY DEF Put

LEMMA DispatchedType ==
  ASSUME NEW q \in [Job -> Nat], NEW D
  PROVE  Dispatched(q, D) \in [Job -> Nat]
BY PutType DEF Dispatched

LEMMA SuspendedType ==
  ASSUME NEW st \in Rows, NEW D
  PROVE  Suspended(st, D) \in Rows
BY DEF Suspended, Rows, StepStatus

LEMMA PlansAreSteps ==
  ASSUME NEW st
  PROVE  SkipPlan(st) \subseteq Steps /\ ReadyPlan(st) \subseteq Steps
BY DEF SkipPlan, ReadyPlan, Pending

LEMMA ToTerminateType ==
  ASSUME NEW t \in Activation, NEW st \in Rows
  PROVE  ToTerminate(t, st) \in Activation /\ ActivationOK(ToTerminate(t, st))
<1>1. CASE AllTerminal(st)
  BY <1>1 DEF ToTerminate, Activation, ActivationOK, Pcs, AboutStep, HoldsRows
<1>2. CASE ~AllTerminal(st)
  BY <1>2, IdleIsOK DEF ToTerminate
<1>3. QED
  BY <1>1, <1>2

LEMMA ToSettleType ==
  ASSUME NEW t \in Activation, NEW st \in Rows, NEW sk \in SUBSET Steps
  PROVE  ToSettle(t, st, sk) \in Activation /\ ActivationOK(ToSettle(t, st, sk))
<1>1. SkipPlan(st) \subseteq Steps
  BY PlansAreSteps
<1>2. CASE SkipPlan(st) # {}
  BY <1>1, <1>2 DEF ToSettle, Activation, ActivationOK, Pcs, AboutStep, HoldsRows
<1>3. CASE SkipPlan(st) = {} /\ sk # {}
  BY <1>3 DEF ToSettle, Activation, ActivationOK, Pcs, AboutStep, HoldsRows
<1>4. CASE SkipPlan(st) = {} /\ sk = {}
  BY <1>4, ToTerminateType DEF ToSettle
<1>5. QED
  BY <1>2, <1>3, <1>4

LEMMA ToUndoType ==
  ASSUME NEW t \in Activation, NEW D \in SUBSET Steps
  PROVE  ToUndo(t, D) \in Activation /\ ActivationOK(ToUndo(t, D))
<1>1. CASE D = {}
  BY <1>1, IdleIsOK DEF ToUndo
<1>2. CASE D # {}
  BY <1>2 DEF ToUndo, Activation, ActivationOK, Pcs, AboutStep, HoldsRows
<1>3. QED
  BY <1>1, <1>2

LEMMA NextSuspectType ==
  ASSUME NEW t \in Activation
  PROVE  NextSuspect(t) \in Activation /\ ActivationOK(NextSuspect(t))
<1>1. CASE t.todo \cup t.marks # {}
  BY <1>1 DEF NextSuspect, Activation, ActivationOK, Pcs, AboutStep, HoldsRows
<1>2. CASE t.todo \cup t.marks = {} /\ t.tries = 1
  BY <1>2 DEF NextSuspect, Idle, Activation, ActivationOK, Pcs, AboutStep, HoldsRows
<1>3. CASE t.todo \cup t.marks = {} /\ t.tries # 1
  BY <1>3, IdleIsOK DEF NextSuspect
<1>4. QED
  BY <1>1, <1>2, <1>3

LEMMA SpendType ==
  ASSUME budget \in [Events -> Nat], NEW e \in Events, Spend(e)
  PROVE  budget' \in [Events -> Nat]
BY DEF Spend

(***************************************************************************)
(* Goto and the other updates of single fields are instances of Become.    *)
(***************************************************************************)
LEMMA GotoType ==
  ASSUME ThOK, NEW i \in Threads, NEW p \in Pcs, Goto(i, p),
         p \in AboutStep => th[i].cur \in Steps,
         p \in HoldsRows => th[i].snap \in Rows
  PROVE  /\ [th[i] EXCEPT !.pc = p] \in Activation
         /\ ActivationOK([th[i] EXCEPT !.pc = p])
         /\ Become(i, [th[i] EXCEPT !.pc = p])
<1>1. th[i] \in Activation
  BY DEF ThOK
<1>2. [th[i] EXCEPT !.pc = p] \in Activation /\ ActivationOK([th[i] EXCEPT !.pc = p])
  BY <1>1 DEF Activation, ActivationOK
<1>3. Become(i, [th[i] EXCEPT !.pc = p])
  BY DEF ThOK, Goto, Become
<1>4. QED
  BY <1>2, <1>3

\* A thread that is not committing moves on.
LEMMA Moving ==
  ASSUME ThOK, LockOK, NEW i \in Threads, NEW p \in Pcs, Goto(i, p),
         p \in AboutStep => th[i].cur \in Steps,
         p \in HoldsRows => th[i].snap \in Rows,
         lock' = lock, th[i].pc # "commit"
  PROVE  ThOK' /\ LockOK'
BY GotoType, Acting DEF LockOK

\* A thread that is not committing ends.
LEMMA Resting ==
  ASSUME ThOK, LockOK, NEW i \in Threads, Rest(i), lock' = lock, th[i].pc # "commit"
  PROVE  ThOK' /\ LockOK'
BY IdleIsOK, Acting DEF Rest

LEMMA SetStatusType ==
  ASSUME RowsOK, NEW s \in Steps, NEW x \in StepStatus, SetStatus(s, x)
  PROVE  status' \in Rows
BY DEF RowsOK, SetStatus, Rows

LEMMA TypePartsNext ==
  ASSUME ThOK', LockOK', RowsOK', RunOK', WorldOK', queue' \in [Job -> Nat],
         undone' \in [Steps -> Nat]
  PROVE  TypeOK'
BY DEF TypeOK, ThOK, LockOK, RowsOK, RunOK, WorldOK

\* What an action leaves alone keeps its type.
LEMMA Frame ==
  ASSUME TypeOK
  PROVE  /\ UNCHANGED rows => RowsOK'
         /\ UNCHANGED run => RunOK'
         /\ UNCHANGED world => WorldOK'
         /\ UNCHANGED queue => queue' \in [Job -> Nat]
         /\ UNCHANGED undone => undone' \in [Steps -> Nat]
BY TypeParts DEF RowsOK, RunOK, WorldOK, rows, run, world

LEMMA OnlyThreads ==
  ASSUME TypeOK, ThOK', LockOK', UNCHANGED <<run, rows, queue, world, undone>>
  PROVE  TypeOK'
BY Frame, TypePartsNext

(***************************************************************************)
(* One lemma per action: it keeps the types.                               *)
(***************************************************************************)
(***************************************************************************)
(* executeStep.                                                            *)
(***************************************************************************)
LEMMA DeliverType ==
  ASSUME TypeOK, NEW i \in Threads, NEW j \in Job, Deliver(i, j)
  PROVE  TypeOK'
<1> DEFINE t == [Idle EXCEPT !.pc = IF j[1] = "execute" THEN "begin" ELSE "timer",
                             !.job = j, !.cur = j[2]]
<1>1. t \in Activation /\ ActivationOK(t)
  BY DEF Idle, Activation, ActivationOK, Pcs, AboutStep, HoldsRows, Job
<1>2. ThOK' /\ LockOK'
  BY <1>1, Acting, TypeParts DEF Deliver, At
<1>3. queue' \in [Job -> Nat]
  BY TypeParts DEF Deliver
<1>4. QED
  BY <1>2, <1>3, Frame, TypePartsNext DEF Deliver

LEMMA BeginType ==
  ASSUME TypeOK, NEW i \in Threads, Begin(i)
  PROVE  TypeOK'
<1>1. /\ ThOK /\ LockOK /\ th[i].pc = "begin"
      /\ th[i] \in Activation /\ th[i].cur \in Steps /\ attempts \in [Steps -> Nat]
  BY TypeParts DEF Begin, At, ThOK, RowsOK, ActivationOK, AboutStep, HoldsRows
<1>2. ThOK' /\ LockOK'
  <2>1. CASE Rest(i)
    BY <1>1, <2>1, Resting DEF Begin
  <2>2. CASE Goto(i, "expire")
    BY <1>1, <2>2, Moving DEF Begin, Pcs, AboutStep, HoldsRows
  <2>3. CASE Goto(i, "frontier")
    BY <1>1, <2>3, Moving DEF Begin, Pcs, AboutStep, HoldsRows
  <2>4. CASE th' = [th EXCEPT ![i].pc = "claim", ![i].tries = attempts[th[i].cur] + 1]
    <3> DEFINE n == attempts[th[i].cur] + 1
               t == [th[i] EXCEPT !.pc = "claim", !.tries = n]
    <3>1. n \in Nat
      BY <1>1
    <3>2. Become(i, t)
      BY <1>1, <2>4 DEF ThOK, Become
    <3> HIDE DEF n
    <3>3. t \in Activation /\ ActivationOK(t)
      BY <1>1, <3>1 DEF Activation, ActivationOK, Pcs, AboutStep, HoldsRows
    <3>4. QED
      BY <1>1, <3>2, <3>3, Acting DEF Begin
  <2>5. QED
    BY <2>1, <2>2, <2>3, <2>4 DEF Begin
<1>3. QED
  BY <1>2, Frame, TypePartsNext DEF Begin

LEMMA ClaimType ==
  ASSUME TypeOK, NEW i \in Threads, Claim(i)
  PROVE  TypeOK'
<1>1. /\ ThOK /\ LockOK /\ th[i].pc = "claim"
      /\ th[i] \in Activation /\ th[i].cur \in Steps
  BY TypeParts DEF Claim, At, ThOK, RowsOK, ActivationOK, AboutStep, HoldsRows
<1>2. ThOK' /\ LockOK'
  <2>1. CASE Goto(i, "inputs")
    BY <1>1, <2>1, Moving DEF Claim, Pcs, AboutStep, HoldsRows
  <2>2. CASE Rest(i)
    BY <1>1, <2>2, Resting DEF Claim
  <2>3. QED
    BY <2>1, <2>2 DEF Claim
<1>3. RowsOK'
  <2>1. CASE UNCHANGED rows
    BY <2>1, Frame
  <2>2. CASE /\ status' = [status EXCEPT ![th[i].cur] = "running"]
              /\ attempts' = [attempts EXCEPT ![th[i].cur] = @ + 1]
    BY <1>1, <2>2, TypeParts DEF RowsOK, Rows, StepStatus
  <2>3. QED
    BY <2>1, <2>2 DEF Claim
<1>4. QED
  BY <1>2, <1>3, Frame, TypePartsNext DEF Claim

LEMMA InputsType ==
  ASSUME TypeOK, NEW i \in Threads, Inputs(i)
  PROVE  TypeOK'
<1>1. /\ ThOK /\ LockOK /\ th[i].pc = "inputs"
      /\ th[i] \in Activation /\ th[i].cur \in Steps
  BY TypeParts DEF Inputs, At, ThOK, RowsOK, ActivationOK, AboutStep, HoldsRows
<1>2. ThOK' /\ LockOK'
  <2>1. CASE Goto(i, "handler")
    BY <1>1, <2>1, Moving DEF Inputs, Pcs, AboutStep, HoldsRows
  <2>2. CASE Rest(i)
    BY <1>1, <2>2, Resting DEF Inputs
  <2>3. QED
    BY <2>1, <2>2 DEF Inputs
<1>3. QED
  BY <1>2, Frame, TypePartsNext DEF Inputs

\* The answers of a guard and a handler.
LEMMA HandleGoes ==
  ASSUME TypeOK, NEW i \in Threads, Handle(i)
  PROVE  /\ \E p \in {"decline", "suspend", "complete", "requeue", "fail"} : Goto(i, p)
         /\ UNCHANGED budget \/ \E e \in Events : Spend(e)
<1>1. PICK o \in Outcomes[th[i].cur] :
        /\ IF o = "ok" THEN UNCHANGED budget ELSE Spend(o)
        /\ Goto(i, CASE o = "declined"  -> "decline"
                     [] o = "ok"        -> IF th[i].cur \in Waits THEN "suspend" ELSE "complete"
                     [] o = "transient" -> IF th[i].tries < MaxAttempts[th[i].cur]
                                             THEN "requeue" ELSE "fail"
                     [] o = "fatal"     -> "fail")
  BY DEF Handle
<1>2. th[i].cur \in Steps
  BY DEF TypeOK, ActivationOK, AboutStep, Handle, At
<1>3. o \in Outcome
  BY <1>2, EngineAssumption
<1>4. CASE o = "declined"
  BY <1>1, <1>4 DEF Events
<1>5. CASE o = "ok"
  BY <1>1, <1>5
<1>6. CASE o = "transient"
  BY <1>1, <1>6 DEF Events
<1>7. CASE o = "fatal"
  BY <1>1, <1>7 DEF Events
<1>8. QED
  BY <1>3, <1>4, <1>5, <1>6, <1>7 DEF Outcome

LEMMA HandleType ==
  ASSUME TypeOK, NEW i \in Threads, Handle(i)
  PROVE  TypeOK'
<1>1. /\ ThOK /\ LockOK /\ th[i].pc = "handler"
      /\ th[i] \in Activation /\ th[i].cur \in Steps
  BY TypeParts DEF Handle, At, ThOK, RowsOK, ActivationOK, AboutStep, HoldsRows
<1>2. ThOK' /\ LockOK'
  BY <1>1, HandleGoes, Moving DEF Handle, Pcs, AboutStep, HoldsRows
<1>3. WorldOK'
  BY TypeParts, HandleGoes, SpendType DEF Handle, WorldOK
<1>4. QED
  BY <1>2, <1>3, Frame, TypePartsNext DEF Handle

LEMMA DeclineType ==
  ASSUME TypeOK, NEW i \in Threads, Decline(i)
  PROVE  TypeOK'
<1>1. /\ ThOK /\ LockOK /\ th[i].pc = "decline"
      /\ th[i] \in Activation /\ th[i].cur \in Steps
  BY TypeParts DEF Decline, At, ThOK, RowsOK, ActivationOK, AboutStep, HoldsRows
<1>2. ThOK' /\ LockOK'
  <2> DEFINE t == [th[i] EXCEPT !.pc = "list", !.marks = {th[i].cur}]
  <2>1. t \in Activation /\ ActivationOK(t)
    BY <1>1 DEF Idle, Activation, ActivationOK, Pcs, AboutStep, HoldsRows
  <2>2. Become(i, t)
    BY <1>1 DEF Decline, ThOK, Become
  <2>3. QED
    BY <1>1, <2>1, <2>2, Acting DEF Decline
<1>3. RowsOK'
  BY <1>1, TypeParts, SetStatusType DEF Decline, RowsOK, StepStatus
<1>4. QED
  BY <1>2, <1>3, Frame, TypePartsNext DEF Decline

LEMMA SuspendType ==
  ASSUME TypeOK, NEW i \in Threads, Suspend(i)
  PROVE  TypeOK'
<1>1. /\ ThOK /\ LockOK /\ th[i].pc = "suspend"
      /\ th[i] \in Activation /\ th[i].cur \in Steps
  BY TypeParts DEF Suspend, At, ThOK, RowsOK, ActivationOK, AboutStep, HoldsRows
<1>2. ThOK' /\ LockOK'
  BY <1>1, Resting DEF Suspend
<1>3. RowsOK'
  BY <1>1, TypeParts, SetStatusType DEF Suspend, RowsOK, StepStatus
<1>4. queue' \in [Job -> Nat]
  BY TypeParts, PutType DEF Suspend
<1>5. QED
  BY <1>2, <1>3, <1>4, Frame, TypePartsNext DEF Suspend

LEMMA RequeueType ==
  ASSUME TypeOK, NEW i \in Threads, Requeue(i)
  PROVE  TypeOK'
<1>1. /\ ThOK /\ LockOK /\ th[i].pc = "requeue"
      /\ th[i] \in Activation /\ th[i].cur \in Steps
  BY TypeParts DEF Requeue, At, ThOK, RowsOK, ActivationOK, AboutStep, HoldsRows
<1>2. ThOK' /\ LockOK'
  BY <1>1, Moving DEF Requeue, Pcs, AboutStep, HoldsRows
<1>3. RowsOK'
  BY <1>1, TypeParts, SetStatusType DEF Requeue, RowsOK, StepStatus
<1>4. QED
  BY <1>2, <1>3, Frame, TypePartsNext DEF Requeue

LEMMA ResendType ==
  ASSUME TypeOK, NEW i \in Threads, Resend(i)
  PROVE  TypeOK'
<1>1. /\ ThOK /\ LockOK /\ th[i].pc = "resend"
      /\ th[i] \in Activation /\ th[i].cur \in Steps
  BY TypeParts DEF Resend, At, ThOK, RowsOK, ActivationOK, AboutStep, HoldsRows
<1>2. ThOK' /\ LockOK'
  <2>1. CASE Rest(i)
    BY <1>1, <2>1, Resting DEF Resend
  <2>2. CASE Goto(i, "fail")
    BY <1>1, <2>2, Moving DEF Resend, Pcs, AboutStep, HoldsRows
  <2>3. QED
    BY <2>1, <2>2 DEF Resend
<1>3. queue' \in [Job -> Nat]
  BY TypeParts, PutType DEF Resend
<1>4. WorldOK'
  BY TypeParts, SpendType DEF Resend, WorldOK, world, Events
<1>5. QED
  BY <1>2, <1>3, <1>4, Frame, TypePartsNext DEF Resend

LEMMA FailType ==
  ASSUME TypeOK, NEW i \in Threads, Fail(i)
  PROVE  TypeOK'
<1>1. /\ ThOK /\ LockOK /\ th[i].pc = "fail"
      /\ th[i] \in Activation /\ th[i].cur \in Steps
  BY TypeParts DEF Fail, At, ThOK, RowsOK, ActivationOK, AboutStep, HoldsRows
<1>2. ThOK' /\ LockOK'
  <2> DEFINE t == [th[i] EXCEPT !.pc = "list", !.marks = {}]
  <2>1. t \in Activation /\ ActivationOK(t)
    BY <1>1 DEF Idle, Activation, ActivationOK, Pcs, AboutStep, HoldsRows
  <2>2. Become(i, t)
    BY <1>1 DEF Fail, ThOK, Become
  <2>3. QED
    BY <1>1, <2>1, <2>2, Acting DEF Fail
<1>3. RowsOK'
  BY <1>1, TypeParts, SetStatusType DEF Fail, RowsOK, StepStatus
<1>4. RunOK'
  BY TypeParts DEF Fail, RunOK
<1>5. QED
  BY <1>2, <1>3, <1>4, Frame, TypePartsNext DEF Fail

(***************************************************************************)
(* onStepCompleted and dispatchNewlyReady.                                 *)
(***************************************************************************)
LEMMA CompleteType ==
  ASSUME TypeOK, NEW i \in Threads, Complete(i)
  PROVE  TypeOK'
<1> DEFINE st == [status EXCEPT ![th[i].cur] = "completed"]
<1>1. /\ ThOK /\ LockOK /\ th[i].pc = "complete" /\ lock = None
      /\ th[i] \in Activation /\ th[i].cur \in Steps
  BY TypeParts DEF Complete, At, ThOK, ActivationOK, AboutStep, RunFree
<1>2. st \in Rows
  BY <1>1, TypeParts DEF RowsOK, Rows, StepStatus
<1>3. CASE AtomicDispatch
  <2> DEFINE t == [th[i] EXCEPT !.pc = "commit", !.snap = st, !.todo = ReadyPlan(st)]
  <2>1. Become(i, t) /\ lock' = i /\ UNCHANGED <<run, rows, queue, world, undone>>
    BY <1>1, <1>3 DEF Complete, ThOK, Become, run, rows
  <2>2. ReadyPlan(st) \in SUBSET Steps
    BY PlansAreSteps
  <2> HIDE DEF st
  <2>3. t \in Activation /\ ActivationOK(t)
    BY <1>1, <1>2, <2>2 DEF Activation, ActivationOK, Pcs, AboutStep, HoldsRows
  <2>4. ThOK' /\ LockOK'
    <3>1. th' \in [Threads -> Activation] /\ \A k \in Threads : ActivationOK(th'[k])
      BY <1>1, <2>1, <2>3 DEF ThOK, Become
    <3>2. lock' \in Threads /\ th'[lock'].pc = "commit"
      BY <1>1, <2>1 DEF ThOK, Become, Activation
    <3>3. QED
      BY <3>1, <3>2 DEF ThOK, LockOK, ActivationOK
  <2>5. QED
    BY <2>1, <2>4, OnlyThreads
<1>4. CASE ~AtomicDispatch
  <2>1. ThOK' /\ LockOK'
    BY <1>1, <1>4, Moving DEF Complete, Pcs, AboutStep, HoldsRows
  <2>2. RowsOK'
    BY <1>2, <1>4, TypeParts DEF Complete, RowsOK
  <2>3. RunOK'
    BY <1>4, TypeParts DEF Complete, RunOK
  <2>4. QED
    BY <1>4, <2>1, <2>2, <2>3, Frame, TypePartsNext DEF Complete
<1>5. QED
  BY <1>3, <1>4

LEMMA CommitType ==
  ASSUME TypeOK, NEW i \in Threads, Commit(i)
  PROVE  TypeOK'
<1>1. /\ ThOK /\ LockOK /\ th[i].pc = "commit"
      /\ th[i] \in Activation /\ th[i].cur \in Steps /\ th[i].snap \in Rows
  BY TypeParts DEF Commit, At, ThOK, RowsOK, ActivationOK, AboutStep, HoldsRows
<1>2. ThOK' /\ LockOK'
  <2>1. ToSettle(th[i], th[i].snap, {}) \in Activation /\ ActivationOK(ToSettle(th[i], th[i].snap, {}))
    BY <1>1, ToSettleType
  <2>2. QED
    BY <1>1, <2>1, IdleIsOK, Acting, EngineAssumption DEF Commit
<1>3. RowsOK'
  <2>1. [status EXCEPT ![th[i].cur] = "completed"] \in Rows
    BY <1>1, TypeParts DEF RowsOK, Rows, StepStatus
  <2>2. QED
    BY <2>1, TypeParts, SuspendedType DEF Commit, RowsOK
<1>4. RunOK'
  BY TypeParts DEF Commit, RunOK
<1>5. queue' \in [Job -> Nat]
  BY TypeParts, DispatchedType DEF Commit
<1>6. QED
  BY <1>2, <1>3, <1>4, <1>5, Frame, TypePartsNext DEF Commit

LEMMA FrontierType ==
  ASSUME TypeOK, NEW i \in Threads, Frontier(i)
  PROVE  TypeOK'
<1>1. /\ ThOK /\ LockOK /\ th[i].pc = "frontier"
      /\ th[i] \in Activation
  BY TypeParts DEF Frontier, At, ThOK, RowsOK, ActivationOK, AboutStep, HoldsRows
<1>2. ThOK' /\ LockOK'
  <2> DEFINE p == IF AtomicDispatch /\ th[i].job # None THEN "advance" ELSE "send"
             t == [th[i] EXCEPT !.pc = p, !.snap = status, !.todo = ReadyPlan(status)]
  <2>1. status \in Rows /\ ReadyPlan(status) \in SUBSET Steps
    BY TypeParts, PlansAreSteps DEF RowsOK
  <2>2. p \in {"advance", "send"}
    OBVIOUS
  <2>3. Become(i, t)
    BY <1>1 DEF Frontier, ThOK, Become
  <2> HIDE DEF p
  <2>4. t \in Activation /\ ActivationOK(t)
    BY <1>1, <2>1, <2>2 DEF Activation, ActivationOK, Pcs, AboutStep, HoldsRows
  <2>5. QED
    BY <1>1, <2>3, <2>4, Acting DEF Frontier
<1>3. QED
  BY <1>2, Frame, TypePartsNext DEF Frontier

LEMMA AdvanceType ==
  ASSUME TypeOK, NEW i \in Threads, Advance(i)
  PROVE  TypeOK'
<1>1. /\ ThOK /\ LockOK /\ th[i].pc = "advance"
      /\ th[i] \in Activation /\ th[i].snap \in Rows
  BY TypeParts DEF Advance, At, ThOK, RowsOK, ActivationOK, AboutStep, HoldsRows
<1>2. ThOK' /\ LockOK'
  <2>1. ToSettle(th[i], th[i].snap, {}) \in Activation /\ ActivationOK(ToSettle(th[i], th[i].snap, {}))
    BY <1>1, ToSettleType
  <2>2. QED
    BY <1>1, <2>1, Acting DEF Advance
<1>3. RowsOK'
  BY <1>1, TypeParts, SuspendedType DEF Advance, RowsOK
<1>4. queue' \in [Job -> Nat]
  BY TypeParts, DispatchedType DEF Advance
<1>5. QED
  BY <1>2, <1>3, <1>4, Frame, TypePartsNext DEF Advance

LEMMA SendType ==
  ASSUME TypeOK, NEW i \in Threads, Send(i)
  PROVE  TypeOK'
<1>1. /\ ThOK /\ LockOK /\ th[i].pc = "send"
      /\ th[i] \in Activation /\ th[i].snap \in Rows
  BY TypeParts DEF Send, At, ThOK, RowsOK, ActivationOK, AboutStep, HoldsRows
<1>2. ThOK' /\ LockOK'
  <2>1. CASE Become(i, ToSettle(th[i], th[i].snap, {}))
    <3>1. ToSettle(th[i], th[i].snap, {}) \in Activation /\ ActivationOK(ToSettle(th[i], th[i].snap, {}))
      BY <1>1, ToSettleType
    <3>2. QED
      BY <1>1, <2>1, <3>1, Acting DEF Send
  <2>2. CASE \E s \in th[i].todo : th' = [th EXCEPT ![i].todo = @ \ {s}]
    <3>1. PICK s \in th[i].todo : th' = [th EXCEPT ![i].todo = @ \ {s}]
      BY <2>2
    <3> DEFINE t == [th[i] EXCEPT !.todo = @ \ {s}]
    <3>2. Become(i, t)
      BY <1>1, <3>1 DEF ThOK, Become
    <3>3. t \in Activation /\ ActivationOK(t)
      BY <1>1 DEF Activation, ActivationOK, AboutStep, HoldsRows
    <3>4. QED
      BY <1>1, <3>2, <3>3, Acting DEF Send
  <2>3. QED
    BY <2>1, <2>2 DEF Send
<1>3. RowsOK'
  BY <1>1, TypeParts, SuspendedType DEF Send, DispatchOne, RowsOK
<1>4. queue' \in [Job -> Nat]
  BY TypeParts, DispatchedType DEF Send, DispatchOne
<1>5. WorldOK'
  BY TypeParts, SpendType DEF Send, DispatchOne, WorldOK, world, Events
<1>6. QED
  BY <1>2, <1>3, <1>4, <1>5, Frame, TypePartsNext DEF Send

(***************************************************************************)
(* settle and compensateWorkflow.                                          *)
(***************************************************************************)
LEMMA ListType ==
  ASSUME TypeOK, NEW i \in Threads, List(i)
  PROVE  TypeOK'
<1>1. /\ ThOK /\ LockOK /\ th[i].pc = "list"
      /\ th[i] \in Activation
  BY TypeParts DEF List, At, ThOK, RowsOK, ActivationOK, AboutStep, HoldsRows
<1>2. ThOK' /\ LockOK'
  <2>1. status \in Rows /\ th[i].marks \in SUBSET Steps
    BY <1>1, TypeParts DEF RowsOK, Activation
  <2>2. ToSettle(th[i], status, th[i].marks) \in Activation /\ ActivationOK(ToSettle(th[i], status, th[i].marks))
    BY <1>1, <2>1, ToSettleType
  <2>3. QED
    BY <1>1, <2>2, Acting DEF List
<1>3. QED
  BY <1>2, Frame, TypePartsNext DEF List

LEMMA CascadeType ==
  ASSUME TypeOK, NEW i \in Threads, Cascade(i)
  PROVE  TypeOK'
<1>1. /\ ThOK /\ LockOK /\ th[i].pc = "cascade"
      /\ th[i] \in Activation
  BY TypeParts DEF Cascade, At, ThOK, RowsOK, ActivationOK, AboutStep, HoldsRows
<1>2. ThOK' /\ LockOK'
  <2>1. PICK s \in th[i].todo :
          th' = [th EXCEPT ![i].todo = @ \ {s},
                           ![i].pc = IF th[i].todo = {s} THEN "reread" ELSE @]
    BY DEF Cascade
  <2> DEFINE p == IF th[i].todo = {s} THEN "reread" ELSE "cascade"
             t == [th[i] EXCEPT !.todo = @ \ {s}, !.pc = p]
  <2>2. Become(i, t)
    BY <1>1, <2>1 DEF ThOK, Become
  <2>3. p \in {"reread", "cascade"}
    OBVIOUS
  <2> HIDE DEF p
  <2>4. t \in Activation /\ ActivationOK(t)
    BY <1>1, <2>3 DEF Activation, ActivationOK, Pcs, AboutStep, HoldsRows
  <2>5. QED
    BY <1>1, <2>2, <2>4, Acting DEF Cascade
<1>3. RowsOK'
  <2>1. th[i].todo \subseteq Steps
    BY <1>1 DEF Activation
  <2>2. QED
    BY <2>1, TypeParts, SetStatusType DEF Cascade, RowsOK, StepStatus
<1>4. QED
  BY <1>2, <1>3, Frame, TypePartsNext DEF Cascade

LEMMA RereadType ==
  ASSUME TypeOK, NEW i \in Threads, Reread(i)
  PROVE  TypeOK'
<1>1. /\ ThOK /\ LockOK /\ th[i].pc = "reread"
      /\ th[i] \in Activation
  BY TypeParts DEF Reread, At, ThOK, RowsOK, ActivationOK, AboutStep, HoldsRows
<1>2. ThOK' /\ LockOK'
  <2> DEFINE U == {s \in ReadyPlan(status) : Deps[s] \cap th[i].marks # {}}
             t == [th[i] EXCEPT !.pc = "unblock", !.snap = status, !.todo = U]
  <2>1. status \in Rows /\ U \in SUBSET Steps
    BY TypeParts, PlansAreSteps DEF RowsOK
  <2>2. CASE Become(i, ToTerminate(th[i], status))
    BY <1>1, <2>1, <2>2, ToTerminateType, Acting DEF Reread
  <2>3. CASE th' = [th EXCEPT ![i].pc = "unblock", ![i].snap = status, ![i].todo = U]
    <3>1. Become(i, t)
      BY <1>1, <2>3 DEF ThOK, Become
    <3> HIDE DEF U
    <3>2. t \in Activation /\ ActivationOK(t)
      BY <1>1, <2>1 DEF Activation, ActivationOK, Pcs, AboutStep, HoldsRows
    <3>3. QED
      BY <1>1, <3>1, <3>2, Acting DEF Reread
  <2>4. QED
    BY <2>2, <2>3 DEF Reread
<1>3. QED
  BY <1>2, Frame, TypePartsNext DEF Reread

LEMMA UnblockType ==
  ASSUME TypeOK, NEW i \in Threads, Unblock(i)
  PROVE  TypeOK'
<1>1. /\ ThOK /\ LockOK /\ th[i].pc = "unblock"
      /\ th[i] \in Activation /\ th[i].snap \in Rows
  BY TypeParts DEF Unblock, At, ThOK, RowsOK, ActivationOK, AboutStep, HoldsRows
<1>2. ThOK' /\ LockOK'
  <2>1. PICK s \in th[i].todo :
          Become(i, IF th[i].todo = {s} THEN ToTerminate(th[i], th[i].snap)
                                        ELSE [th[i] EXCEPT !.todo = @ \ {s}])
    BY DEF Unblock
  <2> DEFINE t == [th[i] EXCEPT !.todo = @ \ {s}]
  <2>2. CASE Become(i, ToTerminate(th[i], th[i].snap))
    BY <1>1, <2>2, ToTerminateType, Acting DEF Unblock
  <2>3. CASE Become(i, t)
    <3>1. t \in Activation /\ ActivationOK(t)
      BY <1>1 DEF Activation, ActivationOK, AboutStep, HoldsRows
    <3>2. QED
      BY <1>1, <2>3, <3>1, Acting DEF Unblock
  <2>4. QED
    BY <2>1, <2>2, <2>3
<1>3. RowsOK'
  BY <1>1, TypeParts, SuspendedType DEF Unblock, DispatchOne, RowsOK
<1>4. queue' \in [Job -> Nat]
  BY TypeParts, DispatchedType DEF Unblock, DispatchOne
<1>5. WorldOK'
  BY TypeParts, SpendType DEF Unblock, DispatchOne, WorldOK, world, Events
<1>6. QED
  BY <1>2, <1>3, <1>4, <1>5, Frame, TypePartsNext DEF Unblock

LEMMA TerminateType ==
  ASSUME TypeOK, NEW i \in Threads, Terminate(i)
  PROVE  TypeOK'
<1>1. /\ ThOK /\ LockOK /\ th[i].pc = "terminate"
      /\ th[i] \in Activation /\ th[i].snap \in Rows
  BY TypeParts DEF Terminate, At, ThOK, RowsOK, ActivationOK, AboutStep, HoldsRows
<1>2. ThOK' /\ LockOK'
  <2>1. CASE Goto(i, "finish")
    BY <1>1, <2>1, Moving DEF Terminate, Pcs, AboutStep, HoldsRows
  <2>2. CASE Rest(i)
    BY <1>1, <2>2, Resting DEF Terminate
  <2>3. QED
    BY <2>1, <2>2 DEF Terminate
<1>3. QED
  BY <1>2, Frame, TypePartsNext DEF Terminate

LEMMA FinishType ==
  ASSUME TypeOK, NEW i \in Threads, Finish(i)
  PROVE  TypeOK'
<1>1. /\ ThOK /\ LockOK /\ th[i].pc = "finish"
      /\ th[i] \in Activation
  BY TypeParts DEF Finish, At, ThOK, RowsOK, ActivationOK, AboutStep, HoldsRows
<1>2. ThOK' /\ LockOK'
  <2> DEFINE t == [th[i] EXCEPT !.pc = "compensate", !.snap = None]
  <2>1. CASE Rest(i)
    BY <1>1, <2>1, Resting DEF Finish
  <2>2. CASE th' = [th EXCEPT ![i].pc = "compensate", ![i].snap = None]
    <3>1. Become(i, t)
      BY <1>1, <2>2 DEF ThOK, Become
    <3>2. t \in Activation /\ ActivationOK(t)
      BY <1>1 DEF Activation, ActivationOK, Pcs, AboutStep, HoldsRows
    <3>3. QED
      BY <1>1, <3>1, <3>2, Acting DEF Finish
  <2>3. QED
    BY <2>1, <2>2 DEF Finish
<1>3. RunOK'
  BY TypeParts DEF Finish, RunOK
<1>4. QED
  BY <1>2, <1>3, Frame, TypePartsNext DEF Finish

LEMMA CompensateType ==
  ASSUME TypeOK, NEW i \in Threads, Compensate(i)
  PROVE  TypeOK'
<1>1. /\ ThOK /\ LockOK /\ th[i].pc = "compensate"
      /\ th[i] \in Activation
  BY TypeParts DEF Compensate, At, ThOK, RowsOK, ActivationOK, AboutStep, HoldsRows
<1>2. ThOK' /\ LockOK'
  <2> DEFINE D == {s \in Compensable : status[s] = "completed"}
  <2>1. D \in SUBSET Steps
    BY EngineAssumption
  <2>2. ToUndo(th[i], D) \in Activation /\ ActivationOK(ToUndo(th[i], D))
    BY <1>1, <2>1, ToUndoType
  <2>3. QED
    BY <1>1, <2>2, Acting DEF Compensate
<1>3. QED
  BY <1>2, Frame, TypePartsNext DEF Compensate

LEMMA UndoType ==
  ASSUME TypeOK, NEW i \in Threads, Undo(i)
  PROVE  TypeOK'
<1>1. /\ ThOK /\ LockOK /\ th[i].pc = "undo"
      /\ th[i] \in Activation
  BY TypeParts DEF Undo, At, ThOK, RowsOK, ActivationOK, AboutStep, HoldsRows
<1>2. ThOK' /\ LockOK'
  <2>1. PICK s \in th[i].todo :
          th' = [th EXCEPT ![i].pc = "undoing", ![i].cur = s, ![i].todo = @ \ {s}]
    BY DEF Undo
  <2> DEFINE t == [th[i] EXCEPT !.pc = "undoing", !.cur = s, !.todo = @ \ {s}]
  <2>2. Become(i, t)
    BY <1>1, <2>1 DEF ThOK, Become
  <2>3. t \in Activation /\ ActivationOK(t)
    BY <1>1 DEF Activation, ActivationOK, Pcs, AboutStep, HoldsRows
  <2>4. QED
    BY <1>1, <2>2, <2>3, Acting DEF Undo
<1>3. RowsOK'
  <2>1. th[i].todo \subseteq Steps
    BY <1>1 DEF Activation
  <2>2. QED
    BY <2>1, TypeParts, SetStatusType DEF Undo, RowsOK, StepStatus
<1>4. QED
  BY <1>2, <1>3, Frame, TypePartsNext DEF Undo

LEMMA UndoingType ==
  ASSUME TypeOK, NEW i \in Threads, Undoing(i)
  PROVE  TypeOK'
<1>1. /\ ThOK /\ LockOK /\ th[i].pc = "undoing"
      /\ th[i] \in Activation /\ th[i].cur \in Steps
  BY TypeParts DEF Undoing, At, ThOK, RowsOK, ActivationOK, AboutStep, HoldsRows
<1>2. ThOK' /\ LockOK'
  <2>1. th[i].todo \in SUBSET Steps
    BY <1>1 DEF Activation
  <2>2. ToUndo(th[i], th[i].todo) \in Activation /\ ActivationOK(ToUndo(th[i], th[i].todo))
    BY <1>1, <2>1, ToUndoType
  <2>3. QED
    BY <1>1, <2>2, Acting DEF Undoing
<1>3. RowsOK'
  BY <1>1, TypeParts, SetStatusType DEF Undoing, RowsOK, StepStatus
<1>4. undone' \in [Steps -> Nat]
  BY <1>1, TypeParts DEF Undoing
<1>5. QED
  BY <1>2, <1>3, <1>4, Frame, TypePartsNext DEF Undoing

(***************************************************************************)
(* Suspended steps, cancellation, deadline.                                *)
(***************************************************************************)
LEMMA ResumeType ==
  ASSUME TypeOK, NEW i \in Threads, NEW s \in Steps, Resume(i, s)
  PROVE  TypeOK'
<1>1. /\ ThOK /\ LockOK /\ th[i].pc = "idle"
      /\ th[i] \in Activation
  BY TypeParts DEF Resume, At, ThOK, RowsOK, ActivationOK, AboutStep, HoldsRows
<1>2. ThOK' /\ LockOK'
  <2> DEFINE t == [Idle EXCEPT !.pc = "complete", !.cur = s]
  <2>1. t \in Activation /\ ActivationOK(t)
    BY <1>1 DEF Idle, Activation, ActivationOK, Pcs, AboutStep, HoldsRows
  <2>2. QED
    BY <1>1, <2>1, Acting DEF Resume
<1>3. WorldOK'
  BY TypeParts, SpendType DEF Resume, WorldOK, world, Events
<1>4. QED
  BY <1>2, <1>3, Frame, TypePartsNext DEF Resume

LEMMA TimeoutType ==
  ASSUME TypeOK, NEW i \in Threads, Timeout(i)
  PROVE  TypeOK'
<1>1. /\ ThOK /\ LockOK /\ th[i].pc = "timer"
      /\ th[i] \in Activation /\ th[i].cur \in Steps
  BY TypeParts DEF Timeout, At, ThOK, RowsOK, ActivationOK, AboutStep, HoldsRows
<1>2. ThOK' /\ LockOK'
  <2>1. CASE Rest(i)
    BY <1>1, <2>1, Resting DEF Timeout
  <2>2. CASE \E p \in {"complete", "fail"} : Goto(i, p)
    BY <1>1, <2>2, Moving DEF Timeout, Pcs, AboutStep, HoldsRows
  <2>3. QED
    BY <2>1, <2>2 DEF Timeout
<1>3. QED
  BY <1>2, Frame, TypePartsNext DEF Timeout

LEMMA CancelType ==
  ASSUME TypeOK, NEW i \in Threads, Cancel(i)
  PROVE  TypeOK'
<1>1. /\ ThOK /\ LockOK /\ th[i].pc = "idle"
      /\ th[i] \in Activation
  BY TypeParts DEF Cancel, At, ThOK, RowsOK, ActivationOK, AboutStep, HoldsRows
<1>2. ThOK' /\ LockOK'
  <2> DEFINE t == [Idle EXCEPT !.pc = "cancel"]
  <2>1. t \in Activation /\ ActivationOK(t)
    BY <1>1 DEF Idle, Activation, ActivationOK, Pcs, AboutStep, HoldsRows
  <2>2. QED
    BY <1>1, <2>1, Acting DEF Cancel
<1>3. WorldOK'
  BY TypeParts, SpendType DEF Cancel, WorldOK, world, Events
<1>4. QED
  BY <1>2, <1>3, Frame, TypePartsNext DEF Cancel

LEMMA SkipPendingStepsType ==
  ASSUME TypeOK, NEW i \in Threads, SkipPendingSteps(i)
  PROVE  TypeOK'
<1>1. /\ ThOK /\ LockOK /\ th[i].pc # "commit"
      /\ th[i] \in Activation
  BY TypeParts DEF SkipPendingSteps, At, ThOK, RowsOK, ActivationOK, AboutStep, HoldsRows
<1>2. ThOK' /\ LockOK'
  <2>1. \E p \in {"cancelled", "expired"} : Goto(i, p)
    BY DEF SkipPendingSteps
  <2>2. QED
    BY <1>1, <2>1, Moving DEF SkipPendingSteps, Pcs, AboutStep, HoldsRows
<1>3. RowsOK'
  BY <1>1, TypeParts DEF SkipPendingSteps, RowsOK, SetStatus, Rows, StepStatus
<1>4. QED
  BY <1>2, <1>3, Frame, TypePartsNext DEF SkipPendingSteps

LEMMA CloseRunType ==
  ASSUME TypeOK, NEW i \in Threads, CloseRun(i)
  PROVE  TypeOK'
<1>1. /\ ThOK /\ LockOK /\ th[i].pc # "commit"
      /\ th[i] \in Activation
  BY TypeParts DEF CloseRun, At, ThOK, RowsOK, ActivationOK, AboutStep, HoldsRows
<1>2. ThOK' /\ LockOK'
  <2>1. CASE Rest(i)
    BY <1>1, <2>1, Resting DEF CloseRun
  <2>2. CASE Goto(i, "compensate")
    BY <1>1, <2>2, Moving DEF CloseRun, Pcs, AboutStep, HoldsRows
  <2>3. QED
    BY <2>1, <2>2 DEF CloseRun
<1>3. RunOK'
  BY TypeParts DEF CloseRun, RunOK
<1>4. QED
  BY <1>2, <1>3, Frame, TypePartsNext DEF CloseRun

(***************************************************************************)
(* The sweeper, the dead-letter worker and retryWorkflow.                  *)
(***************************************************************************)
LEMMA SweepType ==
  ASSUME TypeOK, NEW i \in Threads, Sweep(i)
  PROVE  TypeOK'
<1>1. /\ ThOK /\ LockOK /\ th[i].pc = "idle"
      /\ th[i] \in Activation
  BY TypeParts DEF Sweep, At, ThOK, RowsOK, ActivationOK, AboutStep, HoldsRows
<1>2. ThOK' /\ LockOK'
  <2> DEFINE again == {s \in Stuck : OnStuckRetry /\ attempts[s] < MaxAttempts[s]}
             t == [Idle EXCEPT !.pc = "sweep", !.todo = again, !.marks = Stuck \ again]
             e == [Idle EXCEPT !.pc = "expire"]
  <2>1. again \in SUBSET Steps /\ Stuck \in SUBSET Steps
    BY DEF Stuck
  <2>2. Become(i, e) \/ Become(i, t)
    BY DEF Sweep
  <2> HIDE DEF again
  <2>3. t \in Activation /\ ActivationOK(t)
    BY <2>1 DEF Idle, Activation, ActivationOK, Pcs, AboutStep, HoldsRows
  <2>4. e \in Activation /\ ActivationOK(e)
    BY DEF Idle, Activation, ActivationOK, Pcs, AboutStep, HoldsRows
  <2>5. QED
    BY <1>1, <2>2, <2>3, <2>4, Acting DEF Sweep
<1>3. WorldOK'
  BY TypeParts, SpendType DEF Sweep, WorldOK, world, Events
<1>4. QED
  BY <1>2, <1>3, Frame, TypePartsNext DEF Sweep

LEMMA SweepRetryType ==
  ASSUME TypeOK, NEW i \in Threads, SweepRetry(i)
  PROVE  TypeOK'
<1>1. /\ ThOK /\ LockOK /\ th[i].pc = "sweep"
      /\ th[i] \in Activation
  BY TypeParts DEF SweepRetry, At, ThOK, RowsOK, ActivationOK, AboutStep, HoldsRows
<1>2. ThOK' /\ LockOK'
  <2>1. PICK s \in th[i].todo :
          th' = [th EXCEPT ![i].pc = "sweepSend", ![i].cur = s, ![i].todo = @ \ {s}]
    BY DEF SweepRetry
  <2> DEFINE t == [th[i] EXCEPT !.pc = "sweepSend", !.cur = s, !.todo = @ \ {s}]
  <2>2. Become(i, t)
    BY <1>1, <2>1 DEF ThOK, Become
  <2>3. t \in Activation /\ ActivationOK(t)
    BY <1>1 DEF Activation, ActivationOK, Pcs, AboutStep, HoldsRows
  <2>4. QED
    BY <1>1, <2>2, <2>3, Acting DEF SweepRetry
<1>3. RowsOK'
  <2>1. th[i].todo \subseteq Steps
    BY <1>1 DEF Activation
  <2>2. QED
    BY <2>1, TypeParts, SetStatusType DEF SweepRetry, RowsOK, StepStatus
<1>4. QED
  BY <1>2, <1>3, Frame, TypePartsNext DEF SweepRetry

LEMMA SweepSendType ==
  ASSUME TypeOK, NEW i \in Threads, SweepSend(i)
  PROVE  TypeOK'
<1>1. /\ ThOK /\ LockOK /\ th[i].pc = "sweepSend"
      /\ th[i] \in Activation /\ th[i].cur \in Steps
  BY TypeParts DEF SweepSend, At, ThOK, RowsOK, ActivationOK, AboutStep, HoldsRows
<1>2. ThOK' /\ LockOK'
  <2> DEFINE t == [th[i] EXCEPT !.marks = @ \cup {th[i].cur}]
  <2>1. t \in Activation
    BY <1>1 DEF Activation
  <2>2. Become(i, NextSuspect(th[i])) \/ Become(i, NextSuspect(t))
    BY DEF SweepSend
  <2> HIDE DEF t
  <2>3. QED
    BY <1>1, <2>1, <2>2, NextSuspectType, Acting DEF SweepSend
<1>3. queue' \in [Job -> Nat]
  BY TypeParts, PutType DEF SweepSend
<1>4. WorldOK'
  BY TypeParts, SpendType DEF SweepSend, WorldOK, world, Events
<1>5. QED
  BY <1>2, <1>3, <1>4, Frame, TypePartsNext DEF SweepSend

LEMMA SweepFailType ==
  ASSUME TypeOK, NEW i \in Threads, SweepFail(i)
  PROVE  TypeOK'
<1>1. /\ ThOK /\ LockOK /\ th[i].pc = "sweep"
      /\ th[i] \in Activation
  BY TypeParts DEF SweepFail, At, ThOK, RowsOK, ActivationOK, AboutStep, HoldsRows
<1>2. ThOK' /\ LockOK'
  <2>1. PICK s \in th[i].marks :
          Become(i, NextSuspect([th[i] EXCEPT !.marks = @ \ {s}, !.tries = 1]))
    BY DEF SweepFail
  <2> DEFINE t == [th[i] EXCEPT !.marks = @ \ {s}, !.tries = 1]
  <2>2. t \in Activation
    BY <1>1 DEF Activation
  <2> HIDE DEF t
  <2>3. QED
    BY <1>1, <2>1, <2>2, NextSuspectType, Acting DEF SweepFail, t
<1>3. RowsOK'
  <2>1. th[i].marks \subseteq Steps
    BY <1>1 DEF Activation
  <2>2. QED
    BY <2>1, TypeParts, SetStatusType DEF SweepFail, RowsOK, StepStatus
<1>4. RunOK'
  BY TypeParts DEF SweepFail, RunOK
<1>5. QED
  BY <1>2, <1>3, <1>4, Frame, TypePartsNext DEF SweepFail

LEMMA ExhaustType ==
  ASSUME TypeOK, NEW i \in Threads, NEW s \in Steps, Exhaust(i, s)
  PROVE  TypeOK'
<1>1. /\ ThOK /\ LockOK /\ th[i].pc = "idle"
      /\ th[i] \in Activation
  BY TypeParts DEF Exhaust, At, ThOK, RowsOK, ActivationOK, AboutStep, HoldsRows
<1>2. ThOK' /\ LockOK'
  <2> DEFINE t == [Idle EXCEPT !.pc = "fail", !.cur = s, !.job = s]
  <2>1. CASE Become(i, Idle)
    BY <1>1, <2>1, IdleIsOK, Acting DEF Exhaust
  <2>2. CASE Become(i, t)
    <3>1. t \in Activation /\ ActivationOK(t)
      BY DEF Idle, Activation, ActivationOK, Pcs, AboutStep, HoldsRows
    <3>2. QED
      BY <1>1, <2>2, <3>1, Acting DEF Exhaust
  <2>3. QED
    BY <2>1, <2>2 DEF Exhaust
<1>3. WorldOK'
  BY TypeParts DEF Exhaust, WorldOK
<1>4. QED
  BY <1>2, <1>3, Frame, TypePartsNext DEF Exhaust

LEMMA RetryType ==
  ASSUME TypeOK, NEW i \in Threads, Retry(i)
  PROVE  TypeOK'
<1>1. /\ ThOK /\ LockOK /\ th[i].pc = "idle"
      /\ th[i] \in Activation
  BY TypeParts DEF Retry, At, ThOK, RowsOK, ActivationOK, AboutStep, HoldsRows
<1>2. ThOK' /\ LockOK'
  <2> DEFINE R == {s \in Steps : status[s] \in {"failed", "skipped", "compensated"}}
             t == [Idle EXCEPT !.pc = "reset", !.todo = R]
  <2>1. R \in SUBSET Steps
    OBVIOUS
  <2>2. Become(i, t)
    BY DEF Retry
  <2> HIDE DEF R
  <2>3. t \in Activation /\ ActivationOK(t)
    BY <2>1 DEF Idle, Activation, ActivationOK, Pcs, AboutStep, HoldsRows
  <2>4. QED
    BY <1>1, <2>2, <2>3, Acting DEF Retry
<1>3. WorldOK'
  BY TypeParts, SpendType DEF Retry, WorldOK, world, Events
<1>4. QED
  BY <1>2, <1>3, Frame, TypePartsNext DEF Retry

LEMMA ResetType ==
  ASSUME TypeOK, NEW i \in Threads, Reset(i)
  PROVE  TypeOK'
<1>1. /\ ThOK /\ LockOK /\ th[i].pc = "reset"
      /\ th[i] \in Activation
  BY TypeParts DEF Reset, At, ThOK, RowsOK, ActivationOK, AboutStep, HoldsRows
<1>2. ThOK' /\ LockOK'
  <2>1. PICK s \in th[i].todo :
          th' = [th EXCEPT ![i].todo = @ \ {s},
                           ![i].pc = IF th[i].todo = {s} THEN "recount" ELSE @]
    BY DEF Reset
  <2> DEFINE p == IF th[i].todo = {s} THEN "recount" ELSE "reset"
             t == [th[i] EXCEPT !.todo = @ \ {s}, !.pc = p]
  <2>2. Become(i, t)
    BY <1>1, <2>1 DEF ThOK, Become
  <2>3. p \in {"recount", "reset"}
    OBVIOUS
  <2> HIDE DEF p
  <2>4. t \in Activation /\ ActivationOK(t)
    BY <1>1, <2>3 DEF Activation, ActivationOK, Pcs, AboutStep, HoldsRows
  <2>5. QED
    BY <1>1, <2>2, <2>4, Acting DEF Reset
<1>3. RowsOK'
  <2>1. PICK s \in th[i].todo :
          SetStatus(s, "pending") /\ attempts' = [attempts EXCEPT ![s] = 0]
    BY DEF Reset
  <2>2. s \in Steps
    BY <1>1 DEF Activation
  <2>3. QED
    BY <2>1, <2>2, TypeParts, SetStatusType DEF RowsOK, StepStatus
<1>4. QED
  BY <1>2, <1>3, Frame, TypePartsNext DEF Reset

LEMMA RecountType ==
  ASSUME TypeOK, NEW i \in Threads, Recount(i)
  PROVE  TypeOK'
<1>1. /\ ThOK /\ LockOK /\ th[i].pc = "recount"
      /\ th[i] \in Activation
  BY TypeParts DEF Recount, At, ThOK, RowsOK, ActivationOK, AboutStep, HoldsRows
<1>2. ThOK' /\ LockOK'
  <2> DEFINE t == [th[i] EXCEPT !.pc = "reopen", !.snap = status]
  <2>1. status \in Rows
    BY TypeParts DEF RowsOK
  <2>2. Become(i, t)
    BY <1>1 DEF Recount, ThOK, Become
  <2>3. t \in Activation /\ ActivationOK(t)
    BY <1>1, <2>1 DEF Activation, ActivationOK, Pcs, AboutStep, HoldsRows
  <2>4. QED
    BY <1>1, <2>2, <2>3, Acting DEF Recount
<1>3. QED
  BY <1>2, Frame, TypePartsNext DEF Recount

LEMMA ReopenType ==
  ASSUME TypeOK, NEW i \in Threads, Reopen(i)
  PROVE  TypeOK'
<1>1. /\ ThOK /\ LockOK /\ th[i].pc = "reopen"
      /\ th[i] \in Activation
  BY TypeParts DEF Reopen, At, ThOK, RowsOK, ActivationOK, AboutStep, HoldsRows
<1>2. ThOK' /\ LockOK'
  <2> DEFINE t == [th[i] EXCEPT !.pc = "frontier", !.snap = None]
  <2>1. Become(i, t)
    BY <1>1 DEF Reopen, ThOK, Become
  <2>2. t \in Activation /\ ActivationOK(t)
    BY <1>1 DEF Activation, ActivationOK, Pcs, AboutStep, HoldsRows
  <2>3. QED
    BY <1>1, <2>1, <2>2, Acting DEF Reopen
<1>3. RunOK'
  <2> DEFINE C == {s \in Steps : th[i].snap[s] = "completed"}
  <2>1. Cardinality(C) \in Nat
    BY EngineAssumption, FS_Subset, FS_CardinalityType
  <2>2. wf' = "running" /\ counts' = [completed |-> Cardinality(C), failed |-> 0]
    BY DEF Reopen
  <2>3. QED
    BY <2>1, <2>2 DEF RunOK
<1>4. QED
  BY <1>2, <1>3, Frame, TypePartsNext DEF Reopen

(***************************************************************************)
(* The environment.                                                        *)
(***************************************************************************)
LEMMA CrashType ==
  ASSUME TypeOK, NEW i \in Threads, Crash(i)
  PROVE  TypeOK'
<1>1. /\ ThOK /\ LockOK
      /\ th[i] \in Activation
  BY TypeParts DEF Crash, At, ThOK, RowsOK, ActivationOK, AboutStep, HoldsRows
<1>2. ThOK' /\ LockOK'
  BY <1>1, IdleIsOK, Acting, EngineAssumption DEF Crash, Rest
<1>3. queue' \in [Job -> Nat]
  BY TypeParts, PutType DEF Crash
<1>4. WorldOK'
  <2>1. budget' \in [Events -> Nat]
    BY TypeParts, SpendType DEF Crash, WorldOK, Events
  <2>2. dead' \subseteq Steps
    BY TypeParts DEF Crash, WorldOK, Job
  <2>3. QED
    BY <2>1, <2>2, TypeParts DEF Crash, WorldOK
<1>5. QED
  BY <1>2, <1>3, <1>4, Frame, TypePartsNext DEF Crash

LEMMA ThrowType ==
  ASSUME TypeOK, NEW i \in Threads, Throw(i)
  PROVE  TypeOK'
<1>1. /\ ThOK /\ LockOK
      /\ th[i] \in Activation
  BY TypeParts DEF Throw, At, ThOK, RowsOK, ActivationOK, AboutStep, HoldsRows
<1>2. ThOK' /\ LockOK'
  <2> DEFINE t == [Idle EXCEPT !.pc = "fail", !.job = th[i].job, !.cur = th[i].job[2]]
  <2>1. t \in Activation /\ ActivationOK(t)
    BY DEF Throw, Idle, Activation, ActivationOK, Pcs, AboutStep, HoldsRows, Job
  <2>2. QED
    BY <1>1, <2>1, Acting, EngineAssumption DEF Throw
<1>3. WorldOK'
  BY TypeParts, SpendType DEF Throw, WorldOK, world, Events
<1>4. QED
  BY <1>2, <1>3, Frame, TypePartsNext DEF Throw

LEMMA RedeliverType ==
  ASSUME TypeOK, NEW i \in Threads, Redeliver(i)
  PROVE  TypeOK'
<1>1. ThOK' /\ LockOK'
  BY TypeParts DEF Redeliver, ThOK, LockOK, ActivationOK
<1>2. queue' \in [Job -> Nat]
  BY TypeParts, PutType DEF Redeliver
<1>3. WorldOK'
  BY TypeParts, SpendType DEF Redeliver, WorldOK, Events
<1>4. QED
  BY <1>1, <1>2, <1>3, Frame, TypePartsNext DEF Redeliver

LEMMA PassDeadlineType ==
  ASSUME TypeOK, PassDeadline
  PROVE  TypeOK'
<1>1. ThOK' /\ LockOK'
  BY TypeParts DEF PassDeadline, ThOK, LockOK, ActivationOK
<1>2. WorldOK'
  BY TypeParts, SpendType DEF PassDeadline, WorldOK, Events
<1>3. QED
  BY <1>1, <1>2, Frame, TypePartsNext DEF PassDeadline

LEMMA TypeInit == Init => TypeOK
<1> SUFFICES ASSUME Init PROVE TypeOK
  OBVIOUS
<1>1. ThOK /\ LockOK
  BY IdleIsOK DEF Init, ThOK, LockOK
<1>2. RowsOK
  BY SuspendedType DEF Init, RowsOK, Rows, StepStatus
<1>3. RunOK
  BY DEF Init, RunOK
<1>4. WorldOK /\ undone \in [Steps -> Nat]
  BY EngineAssumption DEF Init, WorldOK
<1>5. queue \in [Job -> Nat]
  BY DispatchedType DEF Init
<1>6. QED
  BY <1>1, <1>2, <1>3, <1>4, <1>5, TypeParts

LEMMA TypeStep == TypeOK /\ [Next]_vars => TypeOK'
<1> SUFFICES ASSUME TypeOK, [Next]_vars PROVE TypeOK'
  OBVIOUS
<1>1. CASE UNCHANGED vars
  <2>1. ThOK' /\ LockOK'
    BY <1>1, TypeParts DEF vars, ThOK, LockOK, ActivationOK
  <2>2. QED
    BY <1>1, <2>1, Frame, TypePartsNext DEF vars, run, rows, world
<1>2. ASSUME NEW i \in Threads, Step(i)
      PROVE  TypeOK'
  <2>1. CASE Begin(i) \/ Claim(i) \/ Inputs(i) \/ Handle(i) \/ Decline(i) \/ Suspend(i)
               \/ Requeue(i) \/ Resend(i) \/ Fail(i) \/ Complete(i) \/ Commit(i)
    BY <2>1, BeginType, ClaimType, InputsType, HandleType, DeclineType, SuspendType,
       RequeueType, ResendType, FailType, CompleteType, CommitType
  <2>2. CASE Frontier(i) \/ Advance(i) \/ Send(i) \/ List(i) \/ Cascade(i) \/ Reread(i)
               \/ Unblock(i) \/ Terminate(i) \/ Finish(i) \/ Compensate(i) \/ Undo(i)
               \/ Undoing(i)
    BY <2>2, FrontierType, AdvanceType, SendType, ListType, CascadeType, RereadType,
       UnblockType, TerminateType, FinishType, CompensateType, UndoType, UndoingType
  <2>3. CASE Timeout(i) \/ SkipPendingSteps(i) \/ CloseRun(i) \/ SweepRetry(i)
               \/ SweepSend(i) \/ SweepFail(i) \/ Reset(i) \/ Recount(i) \/ Reopen(i)
    BY <2>3, TimeoutType, SkipPendingStepsType, CloseRunType, SweepRetryType,
       SweepSendType, SweepFailType, ResetType, RecountType, ReopenType
  <2>4. QED
    BY <1>2, <2>1, <2>2, <2>3 DEF Step
<1>3. ASSUME NEW i \in Threads, Start(i) \/ Operator(i)
      PROVE  TypeOK'
  BY <1>3, DeliverType, ExhaustType, SweepType, ResumeType, CancelType, RetryType
  DEF Start, Operator
<1>4. ASSUME NEW i \in Threads, Crash(i) \/ Throw(i) \/ Redeliver(i)
      PROVE  TypeOK'
  BY <1>4, CrashType, ThrowType, RedeliverType
<1>5. CASE PassDeadline
  BY <1>5, PassDeadlineType
<1>6. QED
  BY <1>1, <1>2, <1>3, <1>4, <1>5 DEF Next

(***************************************************************************)
(* Every variable keeps its type: an engine call acts on rows it has read, *)
(* on steps of its run, and the only open completion transaction is the    *)
(* one of a thread about to commit.                                        *)
(***************************************************************************)
THEOREM TypeCorrect == Spec => []TypeOK
<1>1. Init => TypeOK
  BY TypeInit
<1>2. TypeOK /\ [Next]_vars => TypeOK'
  BY TypeStep
<1>3. QED
  BY <1>1, <1>2, PTL DEF Spec

(***************************************************************************)
(* Two calls never run the handler of one step at the same time, as long   *)
(* as one sweeper runs at a time and the run is not retried.               *)
(***************************************************************************)

OneSweeper == \A i, j \in Sweepers : i = j
Unretried  == \A b \in Budgets : b["retry"] = 0

(***************************************************************************)
(* No action lets a budget grow.                                           *)
(***************************************************************************)
LEMMA NoRetryBudget ==
  ASSUME TypeOK, budget["retry"] = 0, \/ UNCHANGED budget
                                     \/ \E e \in Events : Spend(e)
  PROVE  budget'["retry"] = 0
BY DEF TypeOK, Spend, Events

(***************************************************************************)
(* Most actions neither make a row `pending` nor take a claim: the acting  *)
(* thread keeps at most the claim it had and the part of its sweep it had. *)
(***************************************************************************)
Spares(i) ==
  /\ \A s \in Steps : status'[s] = "pending" => status[s] = "pending"
  /\ \A k \in Threads : k # i => th'[k] = th[k]
  /\ th'[i].pc \in Holding => th[i].pc \in Holding /\ th'[i].cur = th[i].cur
  /\ th'[i].pc \in Sweeping => th[i].pc \in Sweeping /\ th'[i].todo \subseteq th[i].todo
  /\ th'[i].pc # "reset"
  /\ UNCHANGED budget \/ \E e \in Events : Spend(e)

LEMMA Sparing ==
  ASSUME ClaimInv, TypeOK', NEW i \in Threads, Spares(i)
  PROVE  ClaimInv'
<1>1. \A k \in Threads : th'[k].pc \in Holding => th[k].pc \in Holding /\ th'[k].cur = th[k].cur
  BY DEF Spares
<1>2. \A k \in Threads : th[k].pc \in Holding => th[k].cur \in Steps
  BY DEF ClaimInv, TypeOK, ActivationOK, AboutStep, Holding
<1>3. \A k \in Threads, s \in Steps : Holds(k, s)' => Holds(k, s)
  BY <1>1 DEF Holds
<1>4. ClaimsHeld'
  <2> SUFFICES ASSUME NEW k \in Threads, th'[k].pc \in Holding
               PROVE  /\ status'[th'[k].cur] # "pending"
                      /\ \A j \in Threads : Holds(j, th[k].cur)' => k = j
    BY <1>1 DEF ClaimsHeld, Holds
  <2>1. status'[th'[k].cur] # "pending"
    BY <1>1, <1>2 DEF Spares, ClaimInv, ClaimsHeld
  <2>2. \A j \in Threads : Holds(j, th[k].cur)' => k = j
    BY <1>1, <1>2, <1>3 DEF ClaimInv, ClaimsHeld
  <2>3. QED
    BY <2>1, <2>2
<1>5. SweptIsFree'
  <2> SUFFICES ASSUME NEW k \in Threads, th'[k].pc \in Sweeping
               PROVE  /\ k \in Sweepers
                      /\ \A s \in th'[k].todo : /\ status'[s] # "pending"
                                               /\ \A j \in Threads : ~Holds(j, s)'
    BY DEF SweptIsFree, Holds
  <2>1. th[k].pc \in Sweeping /\ th'[k].todo \subseteq th[k].todo
    BY DEF Spares
  <2>2. th[k].todo \subseteq Steps
    BY DEF ClaimInv, TypeOK, Activation
  <2>3. QED
    BY <1>3, <2>1, <2>2 DEF Spares, ClaimInv, SweptIsFree
<1>6. NoRetry'
  BY NoRetryBudget DEF ClaimInv, NoRetry, Spares, At
<1>7. QED
  BY <1>4, <1>5, <1>6 DEF ClaimInv

(***************************************************************************)
(* What the continuations of settle, compensation and sweep are not.       *)
(***************************************************************************)
LEMMA Continuations ==
  ASSUME NEW t \in Activation
  PROVE  /\ \A st, sk : ToSettle(t, st, sk).pc \in {"idle", "cascade", "reread", "terminate"}
         /\ \A st : ToTerminate(t, st).pc \in {"idle", "terminate"}
         /\ \A D : ToUndo(t, D).pc \in {"idle", "undo"}
         /\ NextSuspect(t).pc \in {"idle", "list", "sweep"}
         /\ NextSuspect(t).pc = "sweep" => NextSuspect(t).todo = t.todo
BY DEF ToSettle, ToTerminate, ToUndo, NextSuspect, Idle, Activation

LEMMA SuspendedRevivesNothing ==
  ASSUME NEW st \in Rows, NEW D, NEW s \in Steps, Suspended(st, D)[s] = "pending"
  PROVE  st[s] = "pending"
BY DEF Suspended

(***************************************************************************)
(* The actions that spare the claims, grouped by what they do.             *)
(***************************************************************************)
LEMMA CallsGoOn ==
  ASSUME ClaimInv, NEW i \in Threads,
         Begin(i) \/ Inputs(i) \/ Handle(i) \/ Terminate(i) \/ Timeout(i) \/ Resend(i) \/ Recount(i) \/ Frontier(i)
  PROVE  Spares(i)
<1> TypeOK /\ th \in [Threads -> Activation] /\ status \in Rows /\ th[i] \in Activation
  BY DEF ClaimInv, TypeOK
<1>1. CASE Begin(i)
  BY <1>1, Continuations, SuspendedRevivesNothing DEF Begin, Spares, Holding, Sweeping, At, Goto, Rest, Become, Idle,
     Activation, Events, rows, run, world
<1>2. CASE Inputs(i)
  BY <1>2, Continuations, SuspendedRevivesNothing DEF Inputs, Spares, Holding, Sweeping, At, Goto, Rest, Become, Idle,
     Activation, Events, rows, run, world
<1>3. CASE Handle(i)
  <2>1. PICK p \in {"decline", "suspend", "complete", "requeue", "fail"} : Goto(i, p)
    BY <1>3, HandleGoes DEF ClaimInv
  <2>2. /\ \A k \in Threads : k # i => th'[k] = th[k]
        /\ th'[i].pc = p /\ th'[i].cur = th[i].cur
    BY <2>1 DEF Goto, Activation
  <2>3. UNCHANGED status /\ (UNCHANGED budget \/ \E e \in Events : Spend(e))
    BY <1>3, HandleGoes DEF ClaimInv, Handle, rows
  <2>4. QED
    BY <1>3, <2>2, <2>3 DEF Handle, At, Spares, Holding, Sweeping
<1>4. CASE Terminate(i)
  BY <1>4, Continuations, SuspendedRevivesNothing DEF Terminate, Spares, Holding, Sweeping, At, Goto, Rest, Become, Idle,
     Activation, Events, rows, run, world
<1>5. CASE Timeout(i)
  BY <1>5, Continuations, SuspendedRevivesNothing DEF Timeout, Spares, Holding, Sweeping, At, Goto, Rest, Become, Idle,
     Activation, Events, rows, run, world
<1>6. CASE Resend(i)
  BY <1>6, Continuations, SuspendedRevivesNothing DEF Resend, Spares, Holding, Sweeping, At, Goto, Rest, Become, Idle,
     Activation, Events, rows, run, world
<1>7. CASE Recount(i)
  BY <1>7, Continuations, SuspendedRevivesNothing DEF Recount, Spares, Holding, Sweeping, At, Goto, Rest, Become, Idle,
     Activation, Events, rows, run, world
<1>8. CASE Frontier(i)
  BY <1>8, Continuations, SuspendedRevivesNothing DEF Frontier, Spares, Holding, Sweeping, At, Goto, Rest, Become, Idle,
     Activation, Events, rows, run, world
<1>9. QED
  BY <1>1, <1>2, <1>3, <1>4, <1>5, <1>6, <1>7, <1>8

LEMMA RowsSettle ==
  ASSUME ClaimInv, NEW i \in Threads,
         Decline(i) \/ Suspend(i) \/ Fail(i) \/ Complete(i)
  PROVE  Spares(i)
<1> TypeOK /\ th \in [Threads -> Activation] /\ status \in Rows /\ th[i] \in Activation
  BY DEF ClaimInv, TypeOK
<1>1. CASE Decline(i)
  BY <1>1, Continuations, SuspendedRevivesNothing DEF Decline, Spares, Holding, Sweeping, At, Goto, Rest, Become, Idle,
     Activation, SetStatus, rows, run, world
<1>2. CASE Suspend(i)
  BY <1>2, Continuations, SuspendedRevivesNothing DEF Suspend, Spares, Holding, Sweeping, At, Goto, Rest, Become, Idle,
     Activation, SetStatus, rows, run, world
<1>3. CASE Fail(i)
  BY <1>3, Continuations, SuspendedRevivesNothing DEF Fail, Spares, Holding, Sweeping, At, Goto, Rest, Become, Idle,
     Activation, SetStatus, rows, run, world
<1>4. CASE Complete(i)
  <2>1. \A s \in Steps : status'[s] = "pending" => status[s] = "pending"
    BY <1>4 DEF Complete, Rows, rows, run
  <2>2. /\ \A k \in Threads : k # i => th'[k] = th[k]
        /\ th'[i].pc \in {"commit", "frontier"}
    BY <1>4 DEF Complete, Goto, Activation, rows, run
  <2>3. QED
    BY <1>4, <2>1, <2>2 DEF Complete, Spares, Holding, Sweeping, world
<1>5. QED
  BY <1>1, <1>2, <1>3, <1>4

LEMMA Snapshots ==
  ASSUME ClaimInv, NEW i \in Threads,
         List(i) \/ Reread(i) \/ Compensate(i)
  PROVE  Spares(i)
<1> TypeOK /\ th \in [Threads -> Activation] /\ status \in Rows /\ th[i] \in Activation
  BY DEF ClaimInv, TypeOK
<1>1. CASE List(i)
  BY <1>1, Continuations, SuspendedRevivesNothing DEF List, Spares, Holding, Sweeping, At, Goto, Rest, Become, Idle,
     Activation, rows, run, world
<1>2. CASE Reread(i)
  BY <1>2, Continuations, SuspendedRevivesNothing DEF Reread, Spares, Holding, Sweeping, At, Goto, Rest, Become, Idle,
     Activation, rows, run, world
<1>3. CASE Compensate(i)
  BY <1>3, Continuations, SuspendedRevivesNothing DEF Compensate, Spares, Holding, Sweeping, At, Goto, Rest, Become, Idle,
     Activation, rows, run, world
<1>4. QED
  BY <1>1, <1>2, <1>3

LEMMA StepsUndone ==
  ASSUME ClaimInv, NEW i \in Threads,
         Undo(i) \/ Undoing(i) \/ Cascade(i)
  PROVE  Spares(i)
<1> TypeOK /\ th \in [Threads -> Activation] /\ status \in Rows /\ th[i] \in Activation
  BY DEF ClaimInv, TypeOK
<1>1. CASE Undo(i)
  <2>1. \A s \in Steps : status'[s] = "pending" => status[s] = "pending"
    BY <1>1 DEF Undo, SetStatus, Rows
  <2>2. /\ \A k \in Threads : k # i => th'[k] = th[k]
        /\ th'[i].pc = "undoing"
    BY <1>1 DEF Undo, Activation
  <2>3. QED
    BY <1>1, <2>1, <2>2 DEF Undo, Spares, Holding, Sweeping, world
<1>2. CASE Undoing(i)
  BY <1>2, Continuations, SuspendedRevivesNothing DEF Undoing, Spares, Holding, Sweeping, At, Goto, Rest, Become, Idle,
     Activation, SetStatus, rows, run, world
<1>3. CASE Cascade(i)
  <2>1. \A s \in Steps : status'[s] = "pending" => status[s] = "pending"
    BY <1>3 DEF Cascade, SetStatus, Rows
  <2>2. /\ \A k \in Threads : k # i => th'[k] = th[k]
        /\ th'[i].pc \in {"cascade", "reread"}
    BY <1>3 DEF Cascade, At, Activation
  <2>3. QED
    BY <1>3, <2>1, <2>2 DEF Cascade, Spares, Holding, Sweeping, world
<1>4. QED
  BY <1>1, <1>2, <1>3

LEMMA Dispatches ==
  ASSUME ClaimInv, NEW i \in Threads,
         Commit(i) \/ Advance(i) \/ Send(i) \/ Unblock(i)
  PROVE  Spares(i)
<1> TypeOK /\ th \in [Threads -> Activation] /\ status \in Rows /\ th[i] \in Activation
  BY DEF ClaimInv, TypeOK
<1>1. CASE Commit(i)
  <2> DEFINE st == [status EXCEPT ![th[i].cur] = "completed"]
  <2>1. st \in Rows /\ \A s \in Steps : st[s] = "pending" => status[s] = "pending"
    BY DEF Rows, StepStatus
  <2>2. status' = Suspended(st, th[i].todo)
    BY <1>1 DEF Commit
  <2> HIDE DEF st
  <2>3. \A s \in Steps : status'[s] = "pending" => status[s] = "pending"
    BY <2>1, <2>2, SuspendedRevivesNothing
  <2>4. /\ \A k \in Threads : k # i => th'[k] = th[k]
        /\ th'[i].pc \in {"idle", "cascade", "reread", "terminate"}
    BY <1>1, Continuations DEF Commit, Become
  <2>5. QED
    BY <1>1, <2>3, <2>4 DEF Commit, Spares, Holding, Sweeping, world
<1>2. CASE Advance(i)
  BY <1>2, Continuations, SuspendedRevivesNothing DEF Advance, Spares, Holding, Sweeping, At, Goto, Rest, Become, Idle,
     Activation, DispatchOne, Events, rows, run, world
<1>3. CASE Send(i)
  <2>1. \A s \in Steps : status'[s] = "pending" => status[s] = "pending"
    BY <1>3, SuspendedRevivesNothing DEF Send, DispatchOne
  <2>2. /\ \A k \in Threads : k # i => th'[k] = th[k]
        /\ th'[i].pc \in {"send", "idle", "cascade", "reread", "terminate"}
    <3>1. CASE Become(i, ToSettle(th[i], th[i].snap, {}))
      BY <3>1, Continuations DEF Become
    <3>2. CASE \E s \in th[i].todo : th' = [th EXCEPT ![i].todo = @ \ {s}]
      BY <1>3, <3>2 DEF Send, At, Activation
    <3>3. QED
      BY <1>3, <3>1, <3>2 DEF Send
  <2>3. UNCHANGED budget \/ \E e \in Events : Spend(e)
    BY <1>3 DEF Send, DispatchOne, Events
  <2>4. QED
    BY <2>1, <2>2, <2>3 DEF Spares, Holding, Sweeping
<1>4. CASE Unblock(i)
  BY <1>4, Continuations, SuspendedRevivesNothing DEF Unblock, Spares, Holding, Sweeping, At, Goto, Rest, Become, Idle,
     Activation, DispatchOne, Events, rows, run, world
<1>5. QED
  BY <1>1, <1>2, <1>3, <1>4

LEMMA RunsClosed ==
  ASSUME ClaimInv, NEW i \in Threads,
         SkipPendingSteps(i) \/ CloseRun(i) \/ Finish(i) \/ Reopen(i)
  PROVE  Spares(i)
<1> TypeOK /\ th \in [Threads -> Activation] /\ status \in Rows /\ th[i] \in Activation
  BY DEF ClaimInv, TypeOK
<1>1. CASE SkipPendingSteps(i)
  BY <1>1, Continuations, SuspendedRevivesNothing DEF SkipPendingSteps, Spares, Holding, Sweeping, At, Goto, Rest, Become, Idle,
     Activation, rows, run, world
<1>2. CASE CloseRun(i)
  BY <1>2, Continuations, SuspendedRevivesNothing DEF CloseRun, Spares, Holding, Sweeping, At, Goto, Rest, Become, Idle,
     Activation, rows, run, world
<1>3. CASE Finish(i)
  BY <1>3, Continuations, SuspendedRevivesNothing DEF Finish, Spares, Holding, Sweeping, At, Goto, Rest, Become, Idle,
     Activation, rows, run, world
<1>4. CASE Reopen(i)
  BY <1>4, Continuations, SuspendedRevivesNothing DEF Reopen, Spares, Holding, Sweeping, At, Goto, Rest, Become, Idle,
     Activation, rows, run, world
<1>5. QED
  BY <1>1, <1>2, <1>3, <1>4

LEMMA SweepsGoOn ==
  ASSUME ClaimInv, NEW i \in Threads,
         SweepSend(i) \/ SweepFail(i)
  PROVE  Spares(i)
<1> TypeOK /\ th \in [Threads -> Activation] /\ status \in Rows /\ th[i] \in Activation
  BY DEF ClaimInv, TypeOK
<1>1. CASE SweepSend(i)
  <2> DEFINE t == [th[i] EXCEPT !.marks = @ \cup {th[i].cur}]
  <2>1. t \in Activation /\ t.todo = th[i].todo
    BY <1>1 DEF SweepSend, At, Activation, ClaimInv, TypeOK, ActivationOK, AboutStep
  <2>2. Become(i, NextSuspect(th[i])) \/ Become(i, NextSuspect(t))
    BY <1>1 DEF SweepSend
  <2> HIDE DEF t
  <2>3. /\ \A k \in Threads : k # i => th'[k] = th[k]
        /\ th'[i].pc \in {"idle", "list", "sweep"}
        /\ th'[i].pc = "sweep" => th'[i].todo = th[i].todo
    BY <2>1, <2>2, Continuations DEF Become
  <2>4. UNCHANGED <<status, budget>> \/ (UNCHANGED status /\ \E e \in Events : Spend(e))
    BY <1>1 DEF SweepSend, Events, rows
  <2>5. QED
    BY <1>1, <2>3, <2>4 DEF SweepSend, At, Spares, Holding, Sweeping
<1>2. CASE SweepFail(i)
  <2>1. PICK s \in th[i].marks : /\ SetStatus(s, "failed")
                                /\ Become(i, NextSuspect([th[i] EXCEPT !.marks = @ \ {s}, !.tries = 1]))
    BY <1>2 DEF SweepFail
  <2> DEFINE t == [th[i] EXCEPT !.marks = @ \ {s}, !.tries = 1]
  <2>2. t \in Activation /\ t.todo = th[i].todo
    BY DEF Activation
  <2>3. Become(i, NextSuspect(t))
    BY <2>1
  <2> HIDE DEF t
  <2>4. /\ \A k \in Threads : k # i => th'[k] = th[k]
        /\ th'[i].pc \in {"idle", "list", "sweep"}
        /\ th'[i].pc = "sweep" => th'[i].todo = th[i].todo
    BY <2>2, <2>3, Continuations DEF Become
  <2>5. \A r \in Steps : status'[r] = "pending" => status[r] = "pending"
    BY <2>1 DEF SetStatus
  <2>6. QED
    BY <1>2, <2>4, <2>5 DEF SweepFail, At, Spares, Holding, Sweeping, world
<1>3. QED
  BY <1>1, <1>2

(***************************************************************************)
(* New calls and the environment take no claim either.                     *)
(***************************************************************************)
LEMMA CallsStart ==
  ASSUME ClaimInv, NEW i \in Threads,
         \/ \E j \in Job : Deliver(i, j)
         \/ \E s \in Steps : Exhaust(i, s) \/ Resume(i, s)
         \/ Cancel(i)
  PROVE  Spares(i)
<1> TypeOK /\ th \in [Threads -> Activation]
  BY DEF ClaimInv, TypeOK
<1>1. CASE \E j \in Job : Deliver(i, j)
  <2>1. PICK j \in Job : Become(i, [Idle EXCEPT !.pc = IF j[1] = "execute" THEN "begin" ELSE "timer",
                                               !.job = j, !.cur = j[2]])
    BY <1>1 DEF Deliver
  <2>2. UNCHANGED <<status, budget>>
    BY <1>1 DEF Deliver, rows, world
  <2>3. th'[i].pc \in {"begin", "timer"} /\ \A k \in Threads : k # i => th'[k] = th[k]
    BY <2>1 DEF Become, Idle
  <2>4. QED
    BY <2>2, <2>3 DEF Spares, Holding, Sweeping
<1>2. CASE \E s \in Steps : Exhaust(i, s)
  <2>1. PICK s \in Steps :
          Become(i, IF status[s] \in {"completed", "failed", "skipped"} THEN Idle
                    ELSE [Idle EXCEPT !.pc = "fail", !.cur = s, !.job = s])
    BY <1>2 DEF Exhaust
  <2>2. UNCHANGED <<status, budget>>
    BY <1>2 DEF Exhaust, rows
  <2>3. th'[i].pc \in {"idle", "fail"} /\ \A k \in Threads : k # i => th'[k] = th[k]
    BY <2>1 DEF Become, Idle
  <2>4. QED
    BY <2>2, <2>3 DEF Spares, Holding, Sweeping
<1>3. CASE \E s \in Steps : Resume(i, s)
  <2>1. th'[i].pc = "complete" /\ \A k \in Threads : k # i => th'[k] = th[k]
    BY <1>3 DEF Resume, Become, Idle
  <2>2. UNCHANGED status /\ \E e \in Events : Spend(e)
    BY <1>3 DEF Resume, rows, Events
  <2>3. QED
    BY <2>1, <2>2 DEF Spares, Holding, Sweeping
<1>4. CASE Cancel(i)
  BY <1>4 DEF Cancel, Become, Idle, Spares, Holding, Sweeping, rows, Events
<1>5. QED
  BY <1>1, <1>2, <1>3, <1>4

LEMMA FaultsHappen ==
  ASSUME ClaimInv, NEW i \in Threads,
         Crash(i) \/ Throw(i) \/ Redeliver(i)
  PROVE  Spares(i)
<1> TypeOK /\ th \in [Threads -> Activation] /\ ~At(i, "reset")
  BY DEF ClaimInv, TypeOK, NoRetry
<1>1. CASE Crash(i)
  BY <1>1 DEF Crash, Rest, Become, Idle, Spares, Holding, Sweeping, rows, Events
<1>2. CASE Throw(i)
  <2>1. th'[i].pc = "fail" /\ \A k \in Threads : k # i => th'[k] = th[k]
    BY <1>2 DEF Throw, Become, Idle
  <2>2. UNCHANGED status /\ \E e \in Events : Spend(e)
    BY <1>2 DEF Throw, rows, Events
  <2>3. QED
    BY <2>1, <2>2 DEF Spares, Holding, Sweeping
<1>3. CASE Redeliver(i)
  <2>1. UNCHANGED <<status, th>> /\ \E e \in Events : Spend(e)
    BY <1>3 DEF Redeliver, rows, Events
  <2>2. QED
    BY <2>1 DEF Spares, At
<1>4. QED
  BY <1>1, <1>2, <1>3

(***************************************************************************)
(* A claim finds its row `pending`, hence held by nobody and in no sweep.  *)
(***************************************************************************)
LEMMA ClaimTakes ==
  ASSUME ClaimInv, TypeOK', NEW i \in Threads, Claim(i)
  PROVE  ClaimInv'
<1> DEFINE s == th[i].cur
<1>1. /\ th \in [Threads -> Activation] /\ status \in Rows /\ th[i].pc = "claim" /\ s \in Steps
      /\ UNCHANGED budget
  BY DEF ClaimInv, TypeOK, ActivationOK, AboutStep, Claim, At, world
<1>2. CASE status[s] # "pending"
  <2>1. Spares(i)
    BY <1>1, <1>2 DEF Claim, Rest, Become, Idle, Spares, Holding, Sweeping, rows
  <2>2. QED
    BY <2>1, Sparing
<1>3. CASE status[s] = "pending"
  <2>1. status' = [status EXCEPT ![s] = "running"] /\ th' = [th EXCEPT ![i].pc = "inputs"]
    BY <1>3 DEF Claim, Goto
  <2>2. /\ \A k \in Threads : k # i => th'[k] = th[k]
        /\ th'[i].pc = "inputs" /\ th'[i].cur = s
    BY <1>1, <2>1 DEF Activation
  <2>3. \A r \in Steps : status'[r] = "pending" => status[r] = "pending"
    BY <1>1, <2>1 DEF Rows
  <2>4. \A k \in Threads : th[k].pc \in Holding => th[k].cur \in Steps \ {s}
    BY <1>3 DEF ClaimInv, ClaimsHeld, TypeOK, ActivationOK, AboutStep, Holding
  <2>5. status'[s] # "pending"
    BY <1>1, <2>1 DEF Rows
  <2>6. ClaimsHeld'
    <3> SUFFICES ASSUME NEW k \in Threads, th'[k].pc \in Holding
                 PROVE  /\ status'[th'[k].cur] # "pending"
                        /\ \A j \in Threads : th'[j].pc \in Holding /\ th'[j].cur = th'[k].cur => k = j
      BY DEF ClaimsHeld, Holds
    <3>1. CASE k = i
      BY <2>2, <2>4, <2>5, <3>1
    <3>2. CASE k # i
      BY <2>2, <2>3, <2>4, <3>2 DEF ClaimInv, ClaimsHeld, Holds
    <3>3. QED
      BY <3>1, <3>2
  <2>7. SweptIsFree'
    <3> SUFFICES ASSUME NEW k \in Threads, th'[k].pc \in Sweeping
                 PROVE  /\ k \in Sweepers
                        /\ \A r \in th'[k].todo :
                             /\ status'[r] # "pending"
                             /\ \A j \in Threads : ~(th'[j].pc \in Holding /\ th'[j].cur = r)
      BY DEF SweptIsFree, Holds
    <3>1. k # i /\ th'[k] = th[k] /\ th[k].todo \subseteq Steps
      BY <1>1, <2>2 DEF Sweeping, Activation
    <3>2. /\ k \in Sweepers
          /\ \A r \in th[k].todo : status[r] # "pending" /\ \A j \in Threads : ~Holds(j, r)
      BY <3>1 DEF ClaimInv, SweptIsFree
    <3>3. s \notin th[k].todo
      BY <1>3, <3>2
    <3>4. QED
      BY <2>2, <2>3, <3>1, <3>2, <3>3 DEF Holds
  <2>8. NoRetry'
    BY <1>1, <2>2 DEF ClaimInv, NoRetry, At
  <2>9. QED
    BY <2>6, <2>7, <2>8 DEF ClaimInv
<1>4. QED
  BY <1>2, <1>3

(***************************************************************************)
(* The holder of a claim makes the row `pending` and lets go of it; no     *)
(* other call holds it and, by SweptIsFree, no sweep is about to put it    *)
(* back.                                                                   *)
(***************************************************************************)
LEMMA RequeueReleases ==
  ASSUME ClaimInv, TypeOK', NEW i \in Threads, Requeue(i)
  PROVE  ClaimInv'
<1> DEFINE s == th[i].cur
<1>1. /\ th \in [Threads -> Activation] /\ status \in Rows /\ th[i].pc = "requeue" /\ s \in Steps
      /\ UNCHANGED budget
  BY DEF ClaimInv, TypeOK, ActivationOK, AboutStep, Requeue, At, world
<1>2. /\ \A k \in Threads : k # i => th'[k] = th[k]
      /\ th'[i].pc = "resend"
  BY <1>1 DEF Requeue, Goto, Activation
<1>3. \A r \in Steps : r # s => status'[r] = status[r]
  BY <1>1 DEF Requeue, SetStatus, Rows
<1>4. Holds(i, s)
  BY <1>1 DEF Holds, Holding
<1>5. \A k \in Threads : th'[k].pc \in Holding => k # i /\ th[k].cur \in Steps \ {s}
  <2> SUFFICES ASSUME NEW k \in Threads, th'[k].pc \in Holding
               PROVE  k # i /\ th[k].cur \in Steps \ {s}
    OBVIOUS
  <2>1. k # i /\ th[k].pc \in Holding
    BY <1>2 DEF Holding
  <2>2. th[k].cur \in Steps
    BY <2>1 DEF ClaimInv, TypeOK, ActivationOK, AboutStep, Holding
  <2>3. QED
    BY <1>4, <2>1, <2>2 DEF ClaimInv, ClaimsHeld, Holds
<1>6. ClaimsHeld'
  <2> SUFFICES ASSUME NEW k \in Threads, th'[k].pc \in Holding
               PROVE  /\ status'[th'[k].cur] # "pending"
                      /\ \A j \in Threads : th'[j].pc \in Holding /\ th'[j].cur = th'[k].cur => k = j
    BY DEF ClaimsHeld, Holds
  <2>1. QED
    BY <1>2, <1>3, <1>5 DEF ClaimInv, ClaimsHeld, Holds
<1>7. SweptIsFree'
  <2> SUFFICES ASSUME NEW k \in Threads, th'[k].pc \in Sweeping
               PROVE  /\ k \in Sweepers
                      /\ \A r \in th'[k].todo :
                           /\ status'[r] # "pending"
                           /\ \A j \in Threads : ~(th'[j].pc \in Holding /\ th'[j].cur = r)
    BY DEF SweptIsFree, Holds
  <2>1. th'[k] = th[k] /\ th[k].todo \subseteq Steps
    BY <1>1, <1>2 DEF Sweeping, Activation
  <2>2. /\ k \in Sweepers
        /\ \A r \in th[k].todo : status[r] # "pending" /\ \A j \in Threads : ~Holds(j, r)
    BY <2>1 DEF ClaimInv, SweptIsFree
  <2>3. s \notin th[k].todo
    BY <1>4, <2>2
  <2>4. QED
    BY <1>2, <1>3, <2>1, <2>2, <2>3 DEF Holds, Holding
<1>8. NoRetry'
  BY <1>1, <1>2 DEF ClaimInv, NoRetry, At
<1>9. QED
  BY <1>6, <1>7, <1>8 DEF ClaimInv

(***************************************************************************)
(* A sweep lists stuck rows, which nobody holds; when it puts one back, it *)
(* takes it off its list, and there is no other list.                      *)
(***************************************************************************)
LEMMA SweepLists ==
  ASSUME ClaimInv, TypeOK', NEW i \in Threads, Sweep(i)
  PROVE  ClaimInv'
<1> DEFINE again == {s \in Stuck : OnStuckRetry /\ attempts[s] < MaxAttempts[s]}
<1>1. th \in [Threads -> Activation] /\ status \in Rows /\ UNCHANGED status
  BY DEF ClaimInv, TypeOK, Sweep, rows
<1>2. /\ \A k \in Threads : k # i => th'[k] = th[k]
      /\ \/ th'[i].pc = "expire"
         \/ th'[i].pc = "sweep" /\ th'[i].todo = again
  BY <1>1 DEF Sweep, Become, Idle
<1>3. \A s \in again : status[s] # "pending" /\ \A j \in Threads : ~Holds(j, s)
  BY DEF Stuck, Owns, Owning, Holds, Holding
<1> HIDE DEF again
<1>4. \A k \in Threads : th'[k].pc \in Holding => k # i
  BY <1>2 DEF Holding
<1>5. ClaimsHeld'
  BY <1>1, <1>2, <1>4 DEF ClaimInv, ClaimsHeld, Holds
<1>6. SweptIsFree'
  <2> SUFFICES ASSUME NEW k \in Threads, th'[k].pc \in Sweeping
               PROVE  /\ k \in Sweepers
                      /\ \A r \in th'[k].todo :
                           status[r] # "pending" /\ \A j \in Threads : ~Holds(j, r)
    BY <1>1, <1>2, <1>4 DEF SweptIsFree, Holds
  <2>1. CASE k = i
    BY <1>2, <1>3, <2>1 DEF Sweep, Sweeping
  <2>2. CASE k # i
    BY <1>2, <2>2 DEF ClaimInv, SweptIsFree
  <2>3. QED
    BY <2>1, <2>2
<1>7. NoRetry'
  <2>1. budget'["retry"] = 0
    BY NoRetryBudget DEF ClaimInv, NoRetry, Sweep, Events
  <2>2. QED
    BY <1>2, <2>1 DEF ClaimInv, NoRetry, At
<1>8. QED
  BY <1>5, <1>6, <1>7 DEF ClaimInv

LEMMA SweepPutsBack ==
  ASSUME OneSweeper, ClaimInv, TypeOK', NEW i \in Threads, SweepRetry(i)
  PROVE  ClaimInv'
<1>1. PICK s \in th[i].todo :
        /\ SetStatus(s, "pending")
        /\ th' = [th EXCEPT ![i].pc = "sweepSend", ![i].cur = s, ![i].todo = @ \ {s}]
  BY DEF SweepRetry
<1>2. /\ th \in [Threads -> Activation] /\ status \in Rows /\ th[i].pc = "sweep" /\ s \in Steps
      /\ UNCHANGED budget
  BY DEF ClaimInv, TypeOK, Activation, SweepRetry, At, world
<1>3. /\ \A k \in Threads : k # i => th'[k] = th[k]
      /\ th'[i].pc = "sweepSend" /\ th'[i].todo = th[i].todo \ {s}
  BY <1>1, <1>2 DEF Activation
<1>4. \A r \in Steps : r # s => status'[r] = status[r]
  BY <1>1, <1>2 DEF SetStatus, Rows
<1>5. i \in Sweepers /\ \A j \in Threads : ~Holds(j, s)
  BY <1>2 DEF ClaimInv, SweptIsFree, Sweeping
<1>6. \A k \in Threads : th'[k].pc \in Holding => k # i /\ th[k].cur \in Steps \ {s}
  BY <1>3, <1>5 DEF ClaimInv, TypeOK, ActivationOK, AboutStep, Holds, Holding
<1>7. ClaimsHeld'
  <2> SUFFICES ASSUME NEW k \in Threads, th'[k].pc \in Holding
               PROVE  /\ status'[th'[k].cur] # "pending"
                      /\ \A j \in Threads : th'[j].pc \in Holding /\ th'[j].cur = th'[k].cur => k = j
    BY DEF ClaimsHeld, Holds
  <2>1. QED
    BY <1>3, <1>4, <1>6 DEF ClaimInv, ClaimsHeld, Holds
<1>8. SweptIsFree'
  <2> SUFFICES ASSUME NEW k \in Threads, th'[k].pc \in Sweeping
               PROVE  /\ k \in Sweepers
                      /\ \A r \in th'[k].todo :
                           /\ status'[r] # "pending"
                           /\ \A j \in Threads : ~(th'[j].pc \in Holding /\ th'[j].cur = r)
    BY DEF SweptIsFree, Holds
  <2>1. k = i
    BY <1>3, <1>5 DEF OneSweeper, ClaimInv, SweptIsFree
  <2>2. \A r \in th[i].todo : status[r] # "pending" /\ \A j \in Threads : ~Holds(j, r)
    BY <1>2 DEF ClaimInv, SweptIsFree, Sweeping
  <2>3. th[i].todo \subseteq Steps
    BY <1>2 DEF Activation
  <2>4. QED
    BY <1>3, <1>4, <1>5, <1>6, <2>1, <2>2, <2>3 DEF Holds
<1>9. NoRetry'
  BY <1>2, <1>3 DEF ClaimInv, NoRetry, At
<1>10. QED
  BY <1>7, <1>8, <1>9 DEF ClaimInv

-----------------------------------------------------------------------------
LEMMA ClaimInvInit ==
  ASSUME Unretried, Init
  PROVE  ClaimInv
<1>1. TypeOK
  BY TypeInit
<1>2. \A i \in Threads : th[i] = Idle
  BY DEF Init
<1>3. ClaimsHeld /\ SweptIsFree /\ NoRetry
  BY <1>2 DEF Init, Idle, Unretried, ClaimsHeld, SweptIsFree, NoRetry, Holding, Sweeping, At
<1>4. QED
  BY <1>1, <1>3 DEF ClaimInv

LEMMA ClaimInvStep ==
  ASSUME OneSweeper, ClaimInv, [Next]_vars
  PROVE  ClaimInv'
<1>1. TypeOK'
  BY TypeStep DEF ClaimInv
<1>2. CASE UNCHANGED vars
  BY <1>2 DEF vars, run, rows, world, ClaimInv, TypeOK, ActivationOK, ClaimsHeld, Holds, SweptIsFree,
     NoRetry, At
<1>3. ASSUME NEW i \in Threads, Step(i)
      PROVE  ClaimInv'
  <2>1. CASE Claim(i)
    BY <1>1, <2>1, ClaimTakes
  <2>2. CASE Requeue(i)
    BY <1>1, <2>2, RequeueReleases
  <2>3. CASE SweepRetry(i)
    BY <1>1, <2>3, SweepPutsBack
  <2>4. CASE Reset(i)
    BY <2>4 DEF Reset, ClaimInv, NoRetry
  <2>5. CASE Begin(i) \/ Inputs(i) \/ Handle(i) \/ Terminate(i) \/ Timeout(i) \/ Resend(i)
               \/ Recount(i) \/ Frontier(i)
    BY <1>1, <2>5, CallsGoOn, Sparing
  <2>6. CASE Decline(i) \/ Suspend(i) \/ Fail(i) \/ Complete(i)
    BY <1>1, <2>6, RowsSettle, Sparing
  <2>7. CASE List(i) \/ Reread(i) \/ Compensate(i)
    BY <1>1, <2>7, Snapshots, Sparing
  <2>8. CASE Undo(i) \/ Undoing(i) \/ Cascade(i)
    BY <1>1, <2>8, StepsUndone, Sparing
  <2>9. CASE Commit(i) \/ Advance(i) \/ Send(i) \/ Unblock(i)
    BY <1>1, <2>9, Dispatches, Sparing
  <2>10. CASE SkipPendingSteps(i) \/ CloseRun(i) \/ Finish(i) \/ Reopen(i)
    BY <1>1, <2>10, RunsClosed, Sparing
  <2>11. CASE SweepSend(i) \/ SweepFail(i)
    BY <1>1, <2>11, SweepsGoOn, Sparing
  <2>12. QED
    BY <1>3, <2>1, <2>2, <2>3, <2>4, <2>5, <2>6, <2>7, <2>8, <2>9, <2>10, <2>11 DEF Step
<1>4. ASSUME NEW i \in Threads, Start(i) \/ Operator(i)
      PROVE  ClaimInv'
  <2>1. CASE Sweep(i)
    BY <1>1, <2>1, SweepLists
  <2>2. CASE Retry(i)
    BY <2>2 DEF Retry, Spend, ClaimInv, TypeOK, NoRetry
  <2>3. CASE \/ \E j \in Job : Deliver(i, j)
             \/ \E s \in Steps : Exhaust(i, s) \/ Resume(i, s)
             \/ Cancel(i)
    BY <1>1, <2>3, CallsStart, Sparing
  <2>4. QED
    BY <1>4, <2>1, <2>2, <2>3 DEF Start, Operator
<1>5. ASSUME NEW i \in Threads, Crash(i) \/ Throw(i) \/ Redeliver(i)
      PROVE  ClaimInv'
  BY <1>1, <1>5, FaultsHappen, Sparing
<1>6. CASE PassDeadline
  <2>1. budget'["retry"] = 0
    BY <1>6, NoRetryBudget DEF PassDeadline, ClaimInv, NoRetry, Events
  <2>2. QED
    BY <1>1, <1>6, <2>1 DEF PassDeadline, ClaimInv, ClaimsHeld, Holds, SweptIsFree, NoRetry, At, rows
<1>7. QED
  BY <1>2, <1>3, <1>4, <1>5, <1>6 DEF Next

(***************************************************************************)
(* However often a job is delivered, and whatever crashes, throws or is    *)
(* lost, two calls never run the handler of one step at the same time (the *)
(* atomic claim of markStepRunning), if one sweeper runs at a time and the *)
(* run is not retried.                                                     *)
(***************************************************************************)
THEOREM ClaimsAreExclusive ==
  ASSUME OneSweeper, Unretried
  PROVE  Spec => []HandlerExclusive
<1>1. Init => ClaimInv
  BY ClaimInvInit
<1>2. ClaimInv /\ [Next]_vars => ClaimInv'
  BY ClaimInvStep
<1>3. ClaimInv => HandlerExclusive
  BY DEF ClaimInv, ClaimsHeld, Holds, Holding, HandlerExclusive, At
<1>4. QED
  BY <1>1, <1>2, <1>3, PTL DEF Spec

-----------------------------------------------------------------------------
(***************************************************************************)
(* What the rows of a run do.  In an orderly run nothing happens that the  *)
(* engine is known not to withstand: no wait is answered, no run retried,  *)
(* no store call or send fails, no job is given up by the queue, and none  *)
(* of what an expiry cuts short has to be undone.  Steps still fail, are   *)
(* declined and retried, calls die anywhere, jobs are delivered again, and *)
(* the run is swept, cancelled and, if nothing is compensable, expires.    *)
(***************************************************************************)
Forbidden == {"throw", "retry", "deadletter", "sendfail"}

Never(e) == \A b \in Budgets : b[e] = 0

Orderly ==
  /\ Waits = {}
  /\ \A e \in Forbidden : Never(e)
  /\ Compensable = {} \/ Never("deadline")

Effects == {"completed", "compensating", "compensated"}
Settled == Effects \cup {"failed", "skipped"}
RowSet  == [Steps -> Settled \cup {"pending", "running"}]

Undoings == ({"completed", "compensated"} \X {"compensating"}) \cup {<<"compensating", "compensated">>}

OverIn(st) == \A s \in Steps : st[s] \in Settled

\* Effects are only undone once every step has settled.
SoundRows(st) ==
  st \in RowSet /\ (OverIn(st) \/ \A s \in Steps : st[s] \notin {"compensating", "compensated"})

\* A step that may start, or for which it is too late to matter.
StartableIn(st, s) == OverIn(st) \/ Satisfied(st, SkipPlan(st), s)

\* Steps that can never run: skipped, or still to be.
DoomedIn(st, P) ==
  \A s \in P : st[s] = "skipped" \/ (st[s] = "pending" /\ s \in SkipPlan(st))

\* What the snapshot sn showed as settled still is, with the same verdict.
SeenIn(st, sn) ==
  \A s \in Steps : sn[s] \in TerminalStatuses =>
    st[s] \in Settled /\ (st[s] = "failed" <=> sn[s] = "failed")

UsableIn(st, s) ==
  \A d \in Deps[s] : st[d] = "completed" \/ (s \in AnyJoin /\ st[d] = "skipped")

\* The only ways rows change.
Lawful(st, nx) ==
  /\ nx \in RowSet
  /\ \A s \in Steps : nx[s] # st[s] =>
       \/ st[s] = "pending" /\ nx[s] = "skipped"
       \/ st[s] = "pending" /\ nx[s] = "running" /\ Satisfied(st, SkipPlan(st), s)
       \/ st[s] = "running" /\ nx[s] \in {"pending", "completed", "failed", "skipped"}
       \/ OverIn(st) /\ <<st[s], nx[s]>> \in Undoings

Finished(st, t) == [st EXCEPT ![t.cur] = "completed"]

(***************************************************************************)
(* What a call in progress may rely on, of its activation t and the rows.  *)
(***************************************************************************)
Starters == {"begin", "claim", "resend", "sweepSend"}

Claims(t, st) ==
  /\ t.pc \notin {"suspend", "reset", "recount", "reopen"}
  /\ t.pc \in Owning => st[t.cur] = "running"
  /\ t.pc = "handler" => UsableIn(st, t.cur)
  /\ t.pc \in Sweeping =>
       t.todo \cap t.marks = {} /\ \A s \in t.todo \cup t.marks : st[s] = "running"

JobOf(t, st) ==
  /\ t.job \in Job \cup {None}
  /\ t.job \in Job /\ t.job[1] = "execute" => StartableIn(st, t.job[2])

Starts(t, st) == t.pc \in Starters => StartableIn(st, t.cur)

Snapshot(t, st) ==
  /\ t.pc \in {"advance", "send", "unblock"} => \A s \in t.todo : StartableIn(st, s)
  /\ t.pc \in {"advance", "send"} => DoomedIn(st, SkipPlan(t.snap))
  /\ t.pc \in {"advance", "send", "unblock", "terminate", "finish"} => SeenIn(st, t.snap)
  /\ t.pc \in {"terminate", "finish"} => AllTerminal(t.snap)
  /\ t.pc = "cascade" => DoomedIn(st, t.todo)

InTransaction(t, st) ==
  t.pc = "commit" =>
    /\ \A s \in t.todo : StartableIn(Finished(st, t), s)
    /\ DoomedIn(Finished(st, t), SkipPlan(t.snap))
    /\ SeenIn(Finished(st, t), t.snap)

Undoes(t, st) ==
  /\ t.pc \in {"expire", "expired"} => Compensable = {}
  /\ t.pc = "compensate" => OverIn(st) \/ Compensable = {}
  /\ t.pc \in {"undo", "undoing"} => OverIn(st) /\ \A s \in t.todo : st[s] \in Effects
  /\ t.pc = "undoing" => st[t.cur] \in {"compensating", "compensated"}

GoodCall(t, st) ==
  Claims(t, st) /\ JobOf(t, st) /\ Starts(t, st) /\ Snapshot(t, st) /\ InTransaction(t, st) /\ Undoes(t, st)

(***************************************************************************)
(* The invariant.                                                          *)
(***************************************************************************)
RunningMayRun == \A s \in Steps : status[s] = "running" => StartableIn(status, s)
QueuedMayRun  == \A s \in Steps : queue[<<"execute", s>>] > 0 => StartableIn(status, s)
OwnersAlone   == \A i, j \in Threads, s \in Steps : Owns(i, s) /\ Owns(j, s) => i = j
SweptUnowned  ==
  \A i \in Threads : th[i].pc \in Sweeping =>
    i \in Sweepers /\ \A s \in th[i].todo \cup th[i].marks, j \in Threads : ~Owns(j, s)
Spared ==
  /\ dead = {} /\ \A e \in Forbidden : budget[e] = 0
  /\ Compensable = {} \/ (~late /\ budget["deadline"] = 0)
  /\ Never("deadline") => ~late
  /\ \A e \in Events : Never(e) => budget[e] = 0

RowInv ==
  /\ TypeOK /\ SoundRows(status) /\ RunningMayRun /\ QueuedMayRun
  /\ OwnersAlone /\ SweptUnowned /\ Spared
  /\ \A i \in Threads : GoodCall(th[i], status)

-----------------------------------------------------------------------------
(***************************************************************************)
(* Plans.  A step whose dependencies are satisfied is not blocked, whatever *)
(* else is planned; planning more unblocks nothing; SkipPlan is closed.    *)
(***************************************************************************)
LEMMA SatisfiedIsNotBlocked ==
  ASSUME NEW st, NEW P \in SUBSET Pending(st), NEW Q \in SUBSET Pending(st),
         NEW s, Satisfied(st, P, s)
  PROVE  ~Blocked(st, Q, s)
<1>1. \A d : StatusOf(st, P, d) = "completed" => StatusOf(st, Q, d) = "completed"
  BY DEF StatusOf, Pending
<1>2. \A d : StatusOf(st, P, d) # "failed" => StatusOf(st, Q, d) # "failed"
  BY DEF StatusOf, Pending
<1>3. CASE DepStates(st, P, s) \subseteq {"completed"}
  BY <1>1, <1>3 DEF Blocked, DepStates, TerminalStatuses
<1>4. CASE /\ s \in AnyJoin
           /\ DepStates(st, P, s) \subseteq TerminalStatuses \ {"failed"}
           /\ "completed" \in DepStates(st, P, s)
  <2>1. "completed" \in DepStates(st, Q, s) /\ "failed" \notin DepStates(st, Q, s)
    BY <1>1, <1>2, <1>4 DEF DepStates
  <2>2. QED
    BY <1>4, <2>1 DEF Blocked
<1>5. QED
  BY <1>3, <1>4 DEF Satisfied

\* If what the dependencies of s had settled to in one reading they have in
\* another, s is as blocked.
LEMMA BlockedCarriesOver ==
  ASSUME NEW st, NEW nx, NEW P, NEW Q, NEW s, Blocked(st, P, s),
         \A d \in Deps[s] : StatusOf(st, P, d) \in TerminalStatuses =>
                              StatusOf(nx, Q, d) = StatusOf(st, P, d)
  PROVE  Blocked(nx, Q, s)
<1>1. CASE s \notin AnyJoin
  BY <1>1 DEF Blocked, DepStates
<1>2. CASE s \in AnyJoin /\ "failed" \in DepStates(st, P, s)
  BY <1>2 DEF Blocked, DepStates, TerminalStatuses
<1>3. CASE /\ s \in AnyJoin /\ DepStates(st, P, s) # {}
           /\ DepStates(st, P, s) \subseteq TerminalStatuses \ {"completed"}
  <2>1. DepStates(nx, Q, s) = DepStates(st, P, s)
    BY <1>3 DEF DepStates
  <2>2. QED
    BY <1>3, <2>1 DEF Blocked
<1>4. QED
  BY <1>1, <1>2, <1>3 DEF Blocked

LEMMA SkipPlanClosed ==
  ASSUME NEW st
  PROVE  Closed(st, SkipPlan(st))
<1> SUFFICES ASSUME NEW s \in Pending(st), Blocked(st, SkipPlan(st), s),
                    NEW P \in SUBSET Pending(st), Closed(st, P)
             PROVE  s \in P
  BY DEF Closed, SkipPlan
<1>1. SkipPlan(st) \subseteq P
  BY DEF SkipPlan
<1>2. \A d : StatusOf(st, SkipPlan(st), d) \in TerminalStatuses =>
               StatusOf(st, P, d) = StatusOf(st, SkipPlan(st), d)
  BY <1>1 DEF StatusOf, Pending, TerminalStatuses
<1>3. Blocked(st, P, s)
  BY <1>2, BlockedCarriesOver
<1>4. QED
  BY <1>3 DEF Closed

\* A satisfied step is not planned.
LEMMA SatisfiedIsNotPlanned ==
  ASSUME NEW st, NEW s, Satisfied(st, SkipPlan(st), s)
  PROVE  s \notin SkipPlan(st)
<1> DEFINE P == SkipPlan(st) \ {s}
<1>1. SkipPlan(st) \in SUBSET Pending(st)
  BY DEF SkipPlan
<1>2. Closed(st, P)
  <2> SUFFICES ASSUME NEW t \in Pending(st), Blocked(st, P, t)
               PROVE  t \in P
    BY DEF Closed
  <2>1. \A d : StatusOf(st, P, d) \in TerminalStatuses =>
                 StatusOf(st, SkipPlan(st), d) = StatusOf(st, P, d)
    BY <1>1 DEF StatusOf, Pending, TerminalStatuses
  <2>2. t \in SkipPlan(st)
    BY <2>1, BlockedCarriesOver, SkipPlanClosed DEF Closed
  <2>3. t # s
    BY <1>1, SatisfiedIsNotBlocked
  <2>4. QED
    BY <2>2, <2>3
<1>3. P \in SUBSET Pending(st)
  BY <1>1
<1>4. QED
  BY <1>2, <1>3 DEF SkipPlan

-----------------------------------------------------------------------------
(***************************************************************************)
(* Rows that change lawfully keep what has been read of them.              *)
(***************************************************************************)
USE DEF Settled, Effects, Undoings

LEMMA OverStays ==
  ASSUME NEW st, NEW nx, Lawful(st, nx), OverIn(st)
  PROVE  OverIn(nx)
BY DEF Lawful, OverIn

LEMMA SoundStays ==
  ASSUME NEW st, NEW nx, SoundRows(st), Lawful(st, nx)
  PROVE  SoundRows(nx)
BY OverStays DEF Lawful, SoundRows, RowSet

LEMMA SeenStays ==
  ASSUME NEW st, NEW nx, NEW sn, Lawful(st, nx), SeenIn(st, sn)
  PROVE  SeenIn(nx, sn)
BY DEF Lawful, SeenIn

\* A planned step remains planned until it is skipped: any set that is closed
\* after the step is, with the steps just skipped, closed before it.
LEMMA PlanPersists ==
  ASSUME NEW st, NEW nx, SoundRows(st), Lawful(st, nx),
         NEW s \in SkipPlan(st)
  PROVE  nx[s] = "skipped" \/ (nx[s] = "pending" /\ s \in SkipPlan(nx))
<1>1. s \in Steps /\ st[s] = "pending" /\ ~OverIn(st)
  BY DEF SkipPlan, Pending, OverIn
<1>2. nx[s] = "skipped" \/ nx[s] = "pending"
  BY <1>1, SatisfiedIsNotPlanned DEF Lawful
<1> SUFFICES ASSUME nx[s] = "pending", NEW P \in SUBSET Pending(nx), Closed(nx, P)
             PROVE  s \in P
  BY <1>1, <1>2 DEF SkipPlan, Pending
<1> DEFINE Q == {d \in Pending(st) : d \in P \/ nx[d] = "skipped"}
<1>3. \A d \in Steps : StatusOf(st, Q, d) \in TerminalStatuses =>
                         StatusOf(nx, P, d) = StatusOf(st, Q, d)
  <2> SUFFICES ASSUME NEW d \in Steps, StatusOf(st, Q, d) \in TerminalStatuses
               PROVE  StatusOf(nx, P, d) = StatusOf(st, Q, d)
    OBVIOUS
  <2>1. CASE d \in Q
    BY <2>1 DEF StatusOf
  <2>2. CASE d \notin Q
    <3>1. st[d] \in TerminalStatuses /\ st[d] # "compensated"
      BY <1>1, <2>2 DEF StatusOf, SoundRows
    <3>2. nx[d] = st[d]
      BY <1>1, <3>1 DEF Lawful, TerminalStatuses
    <3>3. d \notin P
      BY <3>1, <3>2 DEF Pending, TerminalStatuses
    <3>4. QED
      BY <2>2, <3>2, <3>3 DEF StatusOf
  <2>3. QED
    BY <2>1, <2>2
<1>4. Closed(st, Q)
  <2> SUFFICES ASSUME NEW t \in Pending(st), Blocked(st, Q, t)
               PROVE  t \in Q
    BY DEF Closed
  <2>1. t \in Steps /\ st[t] = "pending" /\ \A d \in Deps[t] : d \in Steps
    BY GraphAssumption DEF Pending
  <2>2. nx[t] \in {"pending", "skipped"}
    <3>1. Q \in SUBSET Pending(st) /\ SkipPlan(st) \in SUBSET Pending(st)
      BY DEF SkipPlan
    <3>2. ~Satisfied(st, SkipPlan(st), t)
      BY <3>1, SatisfiedIsNotBlocked
    <3>3. QED
      BY <2>1, <3>2 DEF Lawful
  <2>3. Blocked(nx, P, t)
    <3> HIDE DEF Q
    <3>1. QED
      BY <1>3, <2>1, BlockedCarriesOver
  <2>4. QED
    BY <2>1, <2>2, <2>3 DEF Closed, Pending
<1>5. s \in Q
  BY <1>4 DEF SkipPlan
<1>6. QED
  BY <1>5

LEMMA DoomedStays ==
  ASSUME NEW st, NEW nx, SoundRows(st), Lawful(st, nx),
         NEW P \in SUBSET Steps, DoomedIn(st, P)
  PROVE  DoomedIn(nx, P)
<1> SUFFICES ASSUME NEW s \in P
             PROVE  nx[s] = "skipped" \/ (nx[s] = "pending" /\ s \in SkipPlan(nx))
  BY DEF DoomedIn
<1>1. CASE st[s] = "skipped"
  BY <1>1 DEF Lawful
<1>2. CASE s \in SkipPlan(st)
  BY <1>2, PlanPersists
<1>3. QED
  BY <1>1, <1>2 DEF DoomedIn

LEMMA StartableStays ==
  ASSUME NEW st, NEW nx, SoundRows(st), Lawful(st, nx),
         NEW s \in Steps, StartableIn(st, s)
  PROVE  StartableIn(nx, s)
<1>1. CASE OverIn(st)
  BY <1>1, OverStays DEF StartableIn
<1>2. CASE ~OverIn(st)
  <2>1. \A d \in Deps[s] : d \in Steps
    BY GraphAssumption
  <2>2. \A d \in Deps[s] :
          LET x == StatusOf(st, SkipPlan(st), d) IN
            x \in TerminalStatuses => StatusOf(nx, SkipPlan(nx), d) = x
    <3> SUFFICES ASSUME NEW d \in Deps[s], StatusOf(st, SkipPlan(st), d) \in TerminalStatuses
                 PROVE  StatusOf(nx, SkipPlan(nx), d) = StatusOf(st, SkipPlan(st), d)
      OBVIOUS
    <3>1. CASE d \in SkipPlan(st)
      BY <3>1, PlanPersists DEF StatusOf
    <3>2. CASE d \notin SkipPlan(st)
      <4>1. st[d] \in TerminalStatuses /\ st[d] # "compensated"
        BY <1>2, <2>1, <3>2 DEF StatusOf, SoundRows
      <4>2. nx[d] = st[d]
        BY <1>2, <2>1, <4>1 DEF Lawful, TerminalStatuses
      <4>3. d \notin SkipPlan(nx)
        BY <4>1, <4>2 DEF SkipPlan, Pending, TerminalStatuses
      <4>4. QED
        BY <3>2, <4>2, <4>3 DEF StatusOf
    <3>3. QED
      BY <3>1, <3>2
  <2>3. Satisfied(st, SkipPlan(st), s)
    BY <1>2 DEF StartableIn
  <2>4. DepStates(st, SkipPlan(st), s) \subseteq TerminalStatuses
    BY <2>3 DEF Satisfied, TerminalStatuses
  <2>5. DepStates(nx, SkipPlan(nx), s) = DepStates(st, SkipPlan(st), s)
    BY <2>2, <2>4 DEF DepStates
  <2>6. QED
    BY <2>3, <2>5 DEF Satisfied, StartableIn
<1>3. QED
  BY <1>1, <1>2

\* While any step runs, what a handler has read of its dependencies stays.
LEMMA UsableStays ==
  ASSUME NEW st, NEW nx, Lawful(st, nx), NEW r \in Steps, st[r] = "running",
         NEW s \in Steps, UsableIn(st, s)
  PROVE  UsableIn(nx, s)
BY GraphAssumption DEF Lawful, UsableIn, OverIn

(***************************************************************************)
(* What a call relies on, no lawful step of another takes away, if it      *)
(* leaves alone the row the call has claimed and the rows it is sweeping.  *)
(***************************************************************************)
LEMMA FinishingIsLawful ==
  ASSUME NEW st, SoundRows(st), NEW t, t.cur \in Steps, st[t.cur] = "running"
  PROVE  Lawful(st, Finished(st, t)) /\ SoundRows(Finished(st, t))
<1>1. Lawful(st, Finished(st, t))
  BY DEF SoundRows, RowSet, Finished, Lawful
<1>2. QED
  BY <1>1, SoundStays

LEMMA FinishedTogether ==
  ASSUME NEW st, NEW nx, SoundRows(st), Lawful(st, nx),
         NEW t, t.cur \in Steps, st[t.cur] = "running", nx[t.cur] = "running"
  PROVE  Lawful(Finished(st, t), Finished(nx, t))
<1> DEFINE c == t.cur
<1>1. /\ Finished(st, t) \in RowSet /\ Finished(nx, t) \in RowSet
      /\ Finished(st, t)[c] = "completed" /\ Finished(nx, t)[c] = "completed"
      /\ \A s \in Steps \ {c} : Finished(st, t)[s] = st[s] /\ Finished(nx, t)[s] = nx[s]
  BY DEF Lawful, SoundRows, RowSet, Finished
<1>2. ~OverIn(st)
  BY DEF OverIn
<1>3. ASSUME NEW s \in Steps \ {c}, st[s] = "pending", Satisfied(st, SkipPlan(st), s)
      PROVE  Satisfied(Finished(st, t), SkipPlan(Finished(st, t)), s)
  <2>1. StartableIn(Finished(st, t), s)
    BY <1>3, FinishingIsLawful, StartableStays DEF StartableIn
  <2>2. ~OverIn(Finished(st, t))
    BY <1>1, <1>3 DEF OverIn
  <2>3. QED
    BY <2>1, <2>2 DEF StartableIn
<1>4. QED
  <2> SUFFICES ASSUME NEW s \in Steps, Finished(nx, t)[s] # Finished(st, t)[s]
               PROVE  \/ st[s] = "pending" /\ nx[s] = "skipped" /\ s # c
                      \/ st[s] = "pending" /\ nx[s] = "running" /\ s # c
                           /\ Satisfied(Finished(st, t), SkipPlan(Finished(st, t)), s)
                      \/ st[s] = "running" /\ s # c
                           /\ nx[s] \in {"pending", "completed", "failed", "skipped"}
    BY <1>1 DEF Lawful
  <2>1. s # c /\ nx[s] # st[s]
    BY <1>1
  <2>2. QED
    BY <1>2, <1>3, <2>1 DEF Lawful

LEMMA GoodCallStays ==
  ASSUME NEW st, NEW nx, SoundRows(st), Lawful(st, nx),
         NEW t \in Activation, ActivationOK(t), GoodCall(t, st),
         t.pc \in Owning => nx[t.cur] = "running",
         t.pc \in Sweeping => \A s \in t.todo \cup t.marks : nx[s] = "running"
  PROVE  GoodCall(t, nx)
<1>1. /\ t.todo \subseteq Steps
      /\ t.pc \in Owning \cup Starters => t.cur \in Steps
  BY DEF Activation, ActivationOK, AboutStep, Owning, Starters
<1>2. t.pc \in Owning => st[t.cur] = "running"
  BY DEF GoodCall, Claims
<1>3. Claims(t, nx)
  <2>1. t.pc = "handler" => UsableIn(nx, t.cur)
    BY <1>1, <1>2, UsableStays DEF GoodCall, Claims, Owning
  <2>2. QED
    BY <2>1 DEF GoodCall, Claims
<1>4. JobOf(t, nx) /\ Starts(t, nx)
  <2>1. t.job \in Job => t.job[2] \in Steps
    BY DEF Job
  <2>2. QED
    BY <1>1, <2>1, StartableStays DEF GoodCall, JobOf, Starts
<1>5. Snapshot(t, nx)
  <2>1. SkipPlan(t.snap) \subseteq Steps
    BY PlansAreSteps
  <2>2. QED
    BY <1>1, <2>1, StartableStays, DoomedStays, SeenStays DEF GoodCall, Snapshot
<1>6. InTransaction(t, nx)
  <2> SUFFICES ASSUME t.pc = "commit"
               PROVE  InTransaction(t, nx)
    BY DEF InTransaction
  <2>1. /\ SoundRows(Finished(st, t)) /\ Lawful(Finished(st, t), Finished(nx, t))
        /\ SkipPlan(t.snap) \subseteq Steps
    BY <1>1, <1>2, FinishingIsLawful, FinishedTogether, PlansAreSteps DEF Owning
  <2>2. QED
    BY <1>1, <2>1, StartableStays, DoomedStays, SeenStays DEF GoodCall, InTransaction
<1>7. Undoes(t, nx)
  <2>1. OverIn(st) => OverIn(nx)
    BY OverStays
  <2>2. /\ \A s \in Steps : st[s] \in Effects => nx[s] \in Effects
        /\ \A s \in Steps : st[s] \in {"compensating", "compensated"} =>
                              nx[s] \in {"compensating", "compensated"}
    BY DEF Lawful
  <2>3. t.pc = "undoing" => t.cur \in Steps
    BY DEF ActivationOK, AboutStep
  <2>4. t.pc \in {"undo", "undoing"} => OverIn(nx) /\ \A s \in t.todo : nx[s] \in Effects
    BY <1>1, <2>1, <2>2 DEF GoodCall, Undoes
  <2>5. t.pc = "undoing" => nx[t.cur] \in {"compensating", "compensated"}
    BY <2>2, <2>3 DEF GoodCall, Undoes
  <2>6. QED
    BY <2>1, <2>4, <2>5 DEF GoodCall, Undoes
<1>8. QED
  BY <1>3, <1>4, <1>5, <1>6, <1>7 DEF GoodCall

-----------------------------------------------------------------------------
(***************************************************************************)
(* What a step of thread i does to the others: it changes rows lawfully,   *)
(* of the running ones only those it has claimed or is sweeping, claims a  *)
(* row only while it is pending, lists rows that nobody has claimed, and   *)
(* queues what may start.                                                  *)
(***************************************************************************)
Takes(i) ==
  /\ \A s \in Steps : status[s] = "running" /\ status'[s] # status[s] =>
       Owns(i, s) \/ (th[i].pc \in Sweeping /\ s \in th[i].todo \cup th[i].marks)
  /\ \A s \in Steps : th'[i].cur = s /\ th'[i].pc \in Owning =>
       Owns(i, s) \/ status[s] = "pending"
  /\ th'[i].pc \in Sweeping =>
       /\ i \in Sweepers
       /\ \A s \in th'[i].todo \cup th'[i].marks :
            \/ th[i].pc \in Sweeping /\ s \in th[i].todo \cup th[i].marks
            \/ \A j \in Threads : ~Owns(j, s)

Queues ==
  \A s \in Steps : queue'[<<"execute", s>>] > 0 =>
    queue[<<"execute", s>>] > 0 \/ StartableIn(status', s)

\* One row at a time, but for a cancellation or an expiry; only compensation
\* touches what is completed, only what can never run is pruned, and the
\* counters of the workflow row go with the rows.
Changes(s) == status'[s] # status[s]

Tally(x) ==
  IF x = "completed" THEN [counts EXCEPT !.completed = @ + 1]
  ELSE IF x = "failed" THEN [counts EXCEPT !.failed = @ + 1]
  ELSE counts

Shows(i) ==
  /\ \A s \in Steps : Changes(s) /\ status[s] \in Effects => th[i].pc \in {"undo", "undoing"}
  /\ \/ th[i].pc \in {"cancel", "expire"} /\ UNCHANGED counts
           /\ \A s \in Steps : Changes(s) => status[s] = "pending" /\ status'[s] = "skipped"
     \/ (\A s \in Steps : ~Changes(s)) /\ UNCHANGED counts
     \/ \E s \in Steps : /\ Changes(s) /\ \A r \in Steps \ {s} : ~Changes(r)
                         /\ status[s] = "pending" /\ status'[s] = "skipped" => s \in SkipPlan(status)
                         /\ counts' = IF status[s] = "running" THEN Tally(status'[s]) ELSE counts

Plays(i) ==
  /\ Lawful(status, status')
  /\ \A k \in Threads \ {i} : th'[k] = th[k]
  /\ Takes(i) /\ Shows(i) /\ GoodCall(th'[i], status')
  /\ Queues /\ Spared'

LEMMA PlayingKeeps ==
  ASSUME OneSweeper, RowInv, TypeOK',
         NEW i \in Threads, Plays(i)
  PROVE  RowInv'
<1>1. /\ th \in [Threads -> Activation] /\ \A k \in Threads : ActivationOK(th[k])
      /\ SoundRows(status) /\ Lawful(status, status')
      /\ th' \in [Threads -> Activation]
  BY DEF RowInv, TypeOK, Plays
<1>2. SoundRows(status')
  BY <1>1, SoundStays
<1>3. ASSUME NEW k \in Threads \ {i}, th[k].pc \in Owning
      PROVE  status[th[k].cur] = "running" /\ status'[th[k].cur] = "running"
  <2>1. th[k].cur \in Steps /\ Owns(k, th[k].cur)
    BY <1>1, <1>3 DEF ActivationOK, AboutStep, Owning, Owns
  <2>2. status[th[k].cur] = "running"
    BY <1>3 DEF RowInv, GoodCall, Claims
  <2>3. ~Owns(i, th[k].cur)
    BY <2>1 DEF RowInv, OwnersAlone
  <2>4. ~(th[i].pc \in Sweeping /\ th[k].cur \in th[i].todo \cup th[i].marks)
    BY <2>1 DEF RowInv, SweptUnowned
  <2>5. QED
    BY <2>1, <2>2, <2>3, <2>4 DEF Plays, Takes
<1>4. ASSUME NEW k \in Threads \ {i}, th[k].pc \in Sweeping, NEW s \in th[k].todo \cup th[k].marks
      PROVE  s \in Steps /\ status[s] = "running" /\ status'[s] = "running"
  <2>1. s \in Steps
    BY <1>1 DEF Activation
  <2>2. status[s] = "running" /\ ~Owns(i, s) /\ k \in Sweepers
    BY <1>4 DEF RowInv, GoodCall, Claims, SweptUnowned
  <2>3. th[i].pc \notin Sweeping
    BY <2>2 DEF RowInv, SweptUnowned, OneSweeper
  <2>4. QED
    BY <2>1, <2>2, <2>3 DEF Plays, Takes
<1>5. \A k \in Threads : GoodCall(th'[k], status')
  <2> SUFFICES ASSUME NEW k \in Threads \ {i}
               PROVE  GoodCall(th[k], status')
    BY DEF Plays
  <2>1. GoodCall(th[k], status)
    BY DEF RowInv
  <2>2. QED
    BY <1>1, <1>3, <1>4, <2>1, GoodCallStays
<1>6. RunningMayRun'
  <2> SUFFICES ASSUME NEW s \in Steps, status'[s] = "running"
               PROVE  StartableIn(status', s)
    BY DEF RunningMayRun
  <2>1. StartableIn(status, s)
    BY <1>1 DEF Lawful, RowInv, RunningMayRun, StartableIn
  <2>2. QED
    BY <1>1, <2>1, StartableStays
<1>7. QueuedMayRun'
  BY <1>1, StartableStays DEF QueuedMayRun, Plays, Queues, RowInv
<1>8. OwnersAlone'
  <2> SUFFICES ASSUME NEW j \in Threads, NEW k \in Threads, NEW s \in Steps,
                      Owns(j, s)', Owns(k, s)', j # k, k # i
               PROVE  FALSE
    BY DEF OwnersAlone
  <2>1. th[k].pc \in Owning /\ th[k].cur = s
    BY DEF Owns, Plays
  <2>2. Owns(k, s) /\ status[s] = "running"
    BY <1>3, <2>1 DEF Owns
  <2>3. Owns(j, s)
    <3>1. CASE j = i
      BY <2>2, <3>1 DEF Owns, Plays, Takes
    <3>2. CASE j # i
      BY <3>2 DEF Owns, Plays
    <3>3. QED
      BY <3>1, <3>2
  <2>4. QED
    BY <2>2, <2>3 DEF RowInv, OwnersAlone
<1>9. SweptUnowned'
  <2> SUFFICES ASSUME NEW k \in Threads, th'[k].pc \in Sweeping
               PROVE  /\ k \in Sweepers
                      /\ \A s \in th'[k].todo \cup th'[k].marks, j \in Threads : ~Owns(j, s)'
    BY DEF SweptUnowned, Owns
  <2>1. CASE k # i
    <3>1. /\ th'[k] = th[k] /\ k \in Sweepers
          /\ \A s \in th[k].todo \cup th[k].marks, j \in Threads : ~Owns(j, s)
      BY <2>1 DEF Plays, RowInv, SweptUnowned
    <3>2. \A s \in th[k].todo \cup th[k].marks : s \in Steps /\ status[s] = "running"
      BY <1>4, <2>1, <3>1
    <3>3. \A s \in th[k].todo \cup th[k].marks : ~Owns(i, s)'
      BY <3>1, <3>2 DEF Owns, Plays, Takes
    <3>4. QED
      BY <3>1, <3>3 DEF Owns, Plays
  <2>2. CASE k = i
    <3>1. i \in Sweepers /\ ~(th'[i].pc \in Owning)
      BY <2>2 DEF Plays, Takes, Sweeping, Owning
    <3>2. \A s \in th'[i].todo \cup th'[i].marks, j \in Threads : ~Owns(j, s)
      BY <2>2 DEF Plays, Takes, RowInv, SweptUnowned
    <3>3. QED
      BY <2>2, <3>1, <3>2 DEF Owns, Plays
  <2>3. QED
    BY <2>1, <2>2
<1>10. QED
  BY <1>2, <1>5, <1>6, <1>7, <1>8, <1>9 DEF RowInv, Plays

-----------------------------------------------------------------------------
(***************************************************************************)
(* How an action plays by these rules.                                     *)
(***************************************************************************)
\* Where a call relies on nothing but its job.
Plain == {"idle", "timer", "list", "frontier", "reread", "cancel", "cancelled"}

LEMMA PlainIsGood ==
  ASSUME NEW t, NEW st, t.pc \in Plain, JobOf(t, st)
  PROVE  GoodCall(t, st)
BY DEF GoodCall, Claims, Starts, Snapshot, InTransaction, Undoes, Plain, Starters, Owning, Sweeping

LEMMA IdleIsGood ==
  ASSUME NEW st
  PROVE  GoodCall(Idle, st) /\ JobOf(Idle, st)
<1>1. None \notin Job /\ Idle.pc = "idle" /\ Idle.job = None
  BY EngineAssumption DEF Idle
<1>2. QED
  BY <1>1, PlainIsGood DEF JobOf, Plain

\* The rows as they are.
LEMMA Standing ==
  ASSUME RowInv
  PROVE  /\ Lawful(status, status) /\ SoundRows(status) /\ status \in Rows
         /\ th \in [Threads -> Activation]
         /\ \A i \in Threads : /\ th[i] \in Activation /\ ActivationOK(th[i])
                               /\ GoodCall(th[i], status)
         /\ \A s \in Steps : status[s] # "waiting"
BY DEF RowInv, TypeOK, Lawful, SoundRows, RowSet

\* Nothing forbidden can be spent.
LEMMA Thrift ==
  ASSUME RowInv, UNCHANGED dead, UNCHANGED late,
         UNCHANGED budget \/ \E e \in Events : Spend(e)
  PROVE  Spared'
<1>1. budget \in [Events -> Nat] /\ Forbidden \subseteq Events /\ "deadline" \in Events
  BY DEF RowInv, TypeOK, Forbidden, Events
<1>2. \A e \in Events : budget[e] = 0 => budget'[e] = 0
  BY <1>1 DEF Spend
<1>3. QED
  BY <1>1, <1>2 DEF RowInv, Spared

LEMMA NothingForbidden ==
  ASSUME RowInv, NEW e \in Forbidden
  PROVE  ~Spend(e)
BY DEF RowInv, Spared, Spend

\* What the others see of an action that changes no row, and of one that changes one.
LEMMA NoRow ==
  ASSUME UNCHANGED <<status, counts>>, NEW i
  PROVE  Shows(i)
BY DEF Shows, Changes

LEMMA OneRow ==
  ASSUME RowInv, NEW i, NEW s \in Steps, NEW x, status' = [status EXCEPT ![s] = x],
         status[s] \in Effects => th[i].pc \in {"undo", "undoing"},
         status[s] = "pending" /\ x = "skipped" => s \in SkipPlan(status),
         counts' = IF status[s] = "running" THEN Tally(x) ELSE counts
  PROVE  Shows(i)
<1>1. status'[s] = x /\ \A r \in Steps : r # s => status'[r] = status[r]
  BY Standing DEF SoundRows, RowSet
<1>2. x = status[s] => UNCHANGED counts
  BY DEF Tally
<1>3. QED
  BY <1>1, <1>2 DEF Shows, Changes

\* An action that changes no row.
LEMMA Reading ==
  ASSUME RowInv, NEW i \in Threads, NEW t, Become(i, t), UNCHANGED <<status, counts>>,
         Queues, Spared', GoodCall(t, status),
         t.pc \in Owning => th[i].pc \in Owning /\ t.cur = th[i].cur,
         t.pc \in Sweeping => /\ th[i].pc \in Sweeping
                              /\ t.todo \cup t.marks \subseteq th[i].todo \cup th[i].marks
  PROVE  Plays(i)
<1>1. th'[i] = t /\ \A k \in Threads \ {i} : th'[k] = th[k]
  BY Standing DEF Become
<1>2. Takes(i)
  <2>1. t.pc \in Sweeping => i \in Sweepers
    BY DEF RowInv, SweptUnowned
  <2>2. QED
    BY <1>1, <2>1 DEF Takes, Owns
<1>3. Shows(i)
  BY NoRow
<1>4. QED
  BY <1>1, <1>2, <1>3, Standing DEF Plays

\* An action that settles or gives back a row its call has claimed or is sweeping.
LEMMA Writing ==
  ASSUME RowInv, NEW i \in Threads, NEW t, Become(i, t),
         NEW s \in Steps, NEW x \in {"pending", "completed", "failed", "skipped"},
         status' = [status EXCEPT ![s] = x],
         status[s] = "running", counts' = Tally(x),
         Owns(i, s) \/ (th[i].pc \in Sweeping /\ s \in th[i].todo \cup th[i].marks),
         Queues, Spared', GoodCall(t, status'), t.pc \notin Owning,
         t.pc \in Sweeping => /\ th[i].pc \in Sweeping
                              /\ t.todo \cup t.marks \subseteq th[i].todo \cup th[i].marks
  PROVE  Plays(i)
<1>1. th'[i] = t /\ \A k \in Threads \ {i} : th'[k] = th[k]
  BY Standing DEF Become
<1>2. Lawful(status, status')
  BY Standing DEF Lawful, SoundRows, RowSet
<1>3. Takes(i)
  <2>1. t.pc \in Sweeping => i \in Sweepers
    BY DEF RowInv, SweptUnowned
  <2>2. \A r \in Steps : r # s => status'[r] = status[r]
    BY Standing DEF SoundRows, RowSet
  <2>3. QED
    BY <1>1, <2>1, <2>2 DEF Takes
<1>4. Shows(i)
  BY OneRow
<1>5. QED
  BY <1>1, <1>2, <1>3, <1>4 DEF Plays

\* A row its call has claimed is running, and may be settled or given back.
LEMMA Claimed ==
  ASSUME RowInv, NEW i \in Threads, th[i].pc \in Owning,
         NEW x \in {"pending", "completed", "failed", "skipped"}
  PROVE  /\ th[i].cur \in Steps /\ Owns(i, th[i].cur) /\ status[th[i].cur] = "running"
         /\ StartableIn(status, th[i].cur)
         /\ Lawful(status, [status EXCEPT ![th[i].cur] = x])
<1>1. th[i].cur \in Steps /\ Owns(i, th[i].cur)
  BY Standing DEF Owns, Owning, ActivationOK, AboutStep
<1>2. status[th[i].cur] = "running"
  BY Standing DEF GoodCall, Claims
<1>3. Lawful(status, [status EXCEPT ![th[i].cur] = x])
  BY <1>1, <1>2, Standing DEF Lawful, SoundRows, RowSet
<1>4. QED
  BY <1>1, <1>2, <1>3 DEF RowInv, RunningMayRun

\* A call keeps its job over a lawful change of the rows.
LEMMA JobStays ==
  ASSUME RowInv, NEW i \in Threads, NEW nx, Lawful(status, nx),
         NEW t, t.job = th[i].job \/ t.job = None
  PROVE  JobOf(t, nx)
<1>1. JobOf(th[i], status)
  BY Standing DEF GoodCall
<1>2. t.job \in Job => t.job[2] \in Steps
  BY DEF Job
<1>3. None \notin Job
  BY EngineAssumption
<1>4. QED
  BY <1>1, <1>2, <1>3, Standing, StartableStays DEF JobOf

\* What a call that sends nothing does to the queue, and what one that sends does.
LEMMA Sending ==
  ASSUME NEW D, UNCHANGED queue \/ queue' = Put(queue, {<<"execute", s>> : s \in D}),
         \A s \in D : StartableIn(status', s)
  PROVE  Queues
BY DEF Put, Queues, Job

\* Without waits a dispatch is a job.
LEMMA NoWaits ==
  ASSUME Waits = {}
  PROVE  /\ \A st \in RowSet : \A D : Suspended(st, D) = st
         /\ \A q, D : Dispatched(q, D) = Put(q, {<<"execute", s>> : s \in D})
<1>1. \A s : ~Suspends(s)
  BY DEF Suspends
<1>2. \A D : {d \in D : Suspends(d)} = {} /\ {d \in D : ~Suspends(d)} = D
  BY <1>1
<1>3. Timers({}) = {}
  BY DEF Timers
<1>4. QED
  BY <1>1, <1>2, <1>3 DEF Suspended, Dispatched, RowSet

\* Where settle goes from what it has read.
LEMMA TerminatesWell ==
  ASSUME NEW t, NEW st, NEW sn, JobOf(t, st), SeenIn(st, sn)
  PROVE  GoodCall(ToTerminate(t, sn), st)
BY IdleIsGood DEF ToTerminate, GoodCall, Claims, JobOf, Starts, Snapshot, InTransaction, Undoes,
   Starters, Owning, Sweeping

LEMMA SettlesWell ==
  ASSUME NEW t \in Activation, NEW st, NEW sn, NEW sk, JobOf(t, st), SeenIn(st, sn), DoomedIn(st, SkipPlan(sn))
  PROVE  GoodCall(ToSettle(t, sn, sk), st)
<1>1. CASE SkipPlan(sn) # {}
  BY <1>1 DEF ToSettle, GoodCall, Claims, JobOf, Starts, Snapshot, InTransaction, Undoes,
              Starters, Owning, Sweeping
<1>2. CASE SkipPlan(sn) = {} /\ sk # {}
  <2> DEFINE u == [t EXCEPT !.pc = "reread", !.snap = None, !.todo = {}, !.marks = sk]
  <2>1. ToSettle(t, sn, sk) = u /\ u.pc = "reread" /\ u.job = t.job
    BY <1>2 DEF ToSettle, Activation
  <2> HIDE DEF u
  <2>2. QED
    BY <2>1, PlainIsGood DEF JobOf, Plain
<1>3. CASE SkipPlan(sn) = {} /\ sk = {}
  BY <1>3, TerminatesWell DEF ToSettle
<1>4. QED
  BY <1>1, <1>2, <1>3

\* What is read of sound rows holds of them.
LEMMA JustRead ==
  ASSUME NEW st, SoundRows(st)
  PROVE  /\ SeenIn(st, st) /\ DoomedIn(st, SkipPlan(st))
         /\ \A s \in ReadyPlan(st) : StartableIn(st, s)
BY DEF SoundRows, RowSet, SeenIn, DoomedIn, StartableIn, SkipPlan, ReadyPlan, Pending, TerminalStatuses

\* Setting the program counter is becoming the activation with another one.
LEMMA Going ==
  ASSUME RowInv, NEW i \in Threads, NEW p, Goto(i, p)
  PROVE  Become(i, [th[i] EXCEPT !.pc = p])
BY Standing DEF Goto, Become

-----------------------------------------------------------------------------
LEMMA DeliverPlays ==
  ASSUME RowInv, NEW i \in Threads, NEW j \in Job, Deliver(i, j)
  PROVE  Plays(i)
<1> DEFINE t == [Idle EXCEPT !.pc = IF j[1] = "execute" THEN "begin" ELSE "timer",
                             !.job = j, !.cur = j[2]]
<1>1. Become(i, t) /\ UNCHANGED <<counts, status, dead, late, budget>>
  BY DEF Deliver, rows, run, world
<1>2. queue[j] > 0 /\ queue' = [queue EXCEPT ![j] = @ - 1] /\ queue \in [Job -> Nat]
  BY DEF Deliver, RowInv, TypeOK
<1>3. j[1] = "execute" => StartableIn(status, j[2])
  BY <1>2 DEF RowInv, QueuedMayRun, Job
<1>4. t.job = j /\ t.cur = j[2] /\ t.pc = IF j[1] = "execute" THEN "begin" ELSE "timer"
  BY DEF Idle
<1> HIDE DEF t
<1>5. GoodCall(t, status)
  BY <1>3, <1>4 DEF GoodCall, Claims, JobOf, Starts, Snapshot, InTransaction, Undoes,
                    Starters, Owning, Sweeping
<1>6. Queues
  <2>1. \A s \in Steps : <<"execute", s>> \in Job
    BY DEF Job
  <2>2. QED
    BY <1>2, <2>1 DEF Queues
<1>7. QED
  BY <1>1, <1>4, <1>5, <1>6, Reading, Thrift DEF Owning, Sweeping

LEMMA BeginPlays ==
  ASSUME RowInv, NEW i \in Threads, Begin(i)
  PROVE  Plays(i)
<1>1. UNCHANGED <<counts, status, queue, dead, late, budget>> /\ th[i].pc = "begin" /\ Queues /\ Spared'
  BY Thrift DEF Begin, At, rows, run, world, Queues
<1>2. JobOf(th[i], status) /\ StartableIn(status, th[i].cur)
  BY <1>1, Standing DEF GoodCall, Starts, Starters
<1>3. CASE Rest(i)
  BY <1>1, <1>3, IdleIsGood, Reading DEF Rest, Idle, Owning, Sweeping
<1>4. CASE late /\ Goto(i, "expire")
  <2>1. Compensable = {}
    BY <1>4 DEF RowInv, Spared
  <2>2. GoodCall([th[i] EXCEPT !.pc = "expire"], status)
    BY <1>2, <2>1, Standing DEF GoodCall, Claims, JobOf, Starts, Snapshot, InTransaction, Undoes,
       Starters, Owning, Sweeping, Activation
  <2>3. QED
    BY <1>1, <1>4, <2>2, Going, Standing, Reading DEF Owning, Sweeping, Activation
<1>5. CASE th' = [th EXCEPT ![i].pc = "claim", ![i].tries = attempts[th[i].cur] + 1]
  <2> DEFINE t == [th[i] EXCEPT !.pc = "claim", !.tries = attempts[th[i].cur] + 1]
  <2>1. Become(i, t) /\ t.pc = "claim" /\ t.cur = th[i].cur /\ t.job = th[i].job
    BY <1>5, Standing DEF Become, Activation
  <2> HIDE DEF t
  <2>2. GoodCall(t, status)
    BY <1>2, <2>1 DEF GoodCall, Claims, JobOf, Starts, Snapshot, InTransaction, Undoes,
       Starters, Owning, Sweeping
  <2>3. QED
    BY <1>1, <2>1, <2>2, Reading DEF Owning, Sweeping
<1>6. CASE Goto(i, "frontier")
  <2>1. GoodCall([th[i] EXCEPT !.pc = "frontier"], status)
    BY <1>2, PlainIsGood, Standing DEF Plain, JobOf, Activation
  <2>2. QED
    BY <1>1, <1>6, <2>1, Going, Standing, Reading DEF Owning, Sweeping, Activation
<1>7. QED
  BY <1>3, <1>4, <1>5, <1>6 DEF Begin

\* A pending row is claimed only by a call whose step may start.
LEMMA ClaimPlays ==
  ASSUME RowInv, NEW i \in Threads, Claim(i)
  PROVE  Plays(i)
<1> DEFINE s == th[i].cur
<1>1. UNCHANGED <<counts, queue, dead, late, budget>> /\ th[i].pc = "claim" /\ Queues /\ Spared'
  BY Thrift DEF Claim, At, run, world, Queues
<1>2. s \in Steps /\ StartableIn(status, s)
  BY <1>1, Standing DEF GoodCall, Starts, Starters, ActivationOK, AboutStep
<1>3. CASE status[s] # "pending"
  <2>1. UNCHANGED status /\ Rest(i)
    BY <1>3 DEF Claim, rows, run
  <2>2. QED
    BY <1>1, <2>1, IdleIsGood, Reading DEF Rest, Idle, Owning, Sweeping
<1>4. CASE status[s] = "pending"
  <2>1. status' = [status EXCEPT ![s] = "running"] /\ Goto(i, "inputs")
    BY <1>4 DEF Claim
  <2>2. Satisfied(status, SkipPlan(status), s)
    BY <1>2, <1>4 DEF StartableIn, OverIn
  <2>3. Lawful(status, status') /\ status'[s] = "running"
    BY <1>2, <1>4, <2>1, <2>2, Standing DEF Lawful, SoundRows, RowSet
  <2> DEFINE t == [th[i] EXCEPT !.pc = "inputs"]
  <2>4. t.pc = "inputs" /\ t.cur = s /\ t.job = th[i].job
    BY Standing DEF Activation
  <2>5. th'[i] = t /\ \A k \in Threads \ {i} : th'[k] = th[k]
    BY <2>1, Standing DEF Goto
  <2> HIDE DEF t
  <2>6. GoodCall(t, status')
    BY <2>3, <2>4, JobStays DEF GoodCall, Claims, Starts, Snapshot, InTransaction, Undoes,
       Starters, Owning, Sweeping
  <2>7. Takes(i)
    BY <1>2, <1>4, <2>1, <2>4, <2>5, Standing DEF Takes, Sweeping, SoundRows, RowSet
  <2>8. Shows(i)
    BY <1>1, <1>2, <1>4, <2>1, OneRow
  <2>9. QED
    BY <1>1, <2>3, <2>5, <2>6, <2>7, <2>8 DEF Plays
<1>5. QED
  BY <1>3, <1>4

LEMMA InputsPlays ==
  ASSUME RowInv, NEW i \in Threads, Inputs(i)
  PROVE  Plays(i)
<1>1. UNCHANGED <<counts, status, queue, dead, late, budget>> /\ th[i].pc = "inputs" /\ Queues /\ Spared'
  BY Thrift DEF Inputs, At, rows, run, world, Queues
<1>2. CASE Rest(i)
  BY <1>1, <1>2, IdleIsGood, Reading DEF Rest, Idle, Owning, Sweeping
<1>3. CASE Usable(th[i].cur) /\ Goto(i, "handler")
  <2>1. UsableIn(status, th[i].cur)
    BY <1>3 DEF Usable, UsableIn
  <2>2. GoodCall([th[i] EXCEPT !.pc = "handler"], status)
    BY <1>1, <2>1, Standing DEF GoodCall, Claims, JobOf, Starts, Snapshot, InTransaction, Undoes,
       Starters, Owning, Sweeping, Activation
  <2>3. QED
    BY <1>1, <1>3, <2>2, Going, Standing, Reading DEF Owning, Sweeping, Activation
<1>4. QED
  BY <1>2, <1>3 DEF Inputs

LEMMA HandlePlays ==
  ASSUME Waits = {}, RowInv, NEW i \in Threads, Handle(i)
  PROVE  Plays(i)
<1>1. UNCHANGED <<counts, status, queue, dead, late>> /\ th[i].pc = "handler" /\ Queues
  BY DEF Handle, At, rows, run, Queues
<1>2. UNCHANGED budget \/ \E e \in Events : Spend(e)
  BY HandleGoes DEF RowInv
<1>3. PICK p \in {"decline", "complete", "requeue", "fail"} : Goto(i, p)
  <2>1. PICK o \in Outcomes[th[i].cur] :
          Goto(i, CASE o = "declined"  -> "decline"
                    [] o = "ok"        -> IF th[i].cur \in Waits THEN "suspend" ELSE "complete"
                    [] o = "transient" -> IF th[i].tries < MaxAttempts[th[i].cur]
                                            THEN "requeue" ELSE "fail"
                    [] o = "fatal"     -> "fail")
    BY DEF Handle
  <2>2. o \in Outcome
    BY <1>1, Claimed, EngineAssumption DEF Owning
  <2>3. QED
    BY <2>1, <2>2 DEF Outcome
<1>4. GoodCall([th[i] EXCEPT !.pc = p], status)
  BY <1>1, Standing DEF GoodCall, Claims, JobOf, Starts, Snapshot, InTransaction, Undoes,
     Starters, Owning, Sweeping, Activation
<1>5. QED
  BY <1>1, <1>2, <1>3, <1>4, Going, Standing, Thrift, Reading DEF Owning, Sweeping, Activation

\* A call ends its claim by settling the row or giving it back.
LEMMA SettlePlays ==
  ASSUME RowInv, NEW i \in Threads, Decline(i) \/ Requeue(i) \/ Fail(i)
  PROVE  Plays(i)
<1>1. UNCHANGED <<queue, dead, late, budget>> /\ th[i].pc \in Owning /\ Queues /\ Spared'
  BY Thrift DEF Decline, Requeue, Fail, At, run, world, Queues, Owning
<1>2. PICK x \in {"skipped", "pending", "failed"} :
        \E t : /\ status' = [status EXCEPT ![th[i].cur] = x] /\ counts' = Tally(x)
               /\ Become(i, t) /\ t.job = th[i].job /\ t.cur = th[i].cur
               /\ t.pc = IF x = "pending" THEN "resend" ELSE "list"
  <2>1. CASE Decline(i)
    <3> DEFINE t == [th[i] EXCEPT !.pc = "list", !.marks = {th[i].cur}]
    <3>1. /\ status' = [status EXCEPT ![th[i].cur] = "skipped"] /\ counts' = Tally("skipped")
          /\ Become(i, t) /\ t.job = th[i].job /\ t.cur = th[i].cur /\ t.pc = "list"
      BY <2>1, Standing DEF Decline, SetStatus, Become, Activation, Tally, run
    <3>2. QED
      BY <3>1
  <2>2. CASE Requeue(i)
    <3> DEFINE t == [th[i] EXCEPT !.pc = "resend"]
    <3>1. /\ status' = [status EXCEPT ![th[i].cur] = "pending"] /\ counts' = Tally("pending")
          /\ Become(i, t) /\ t.job = th[i].job /\ t.cur = th[i].cur /\ t.pc = "resend"
      BY <2>2, Standing DEF Requeue, SetStatus, Goto, Become, Activation, Tally, run
    <3>2. QED
      BY <3>1
  <2>3. CASE Fail(i)
    <3> DEFINE t == [th[i] EXCEPT !.pc = "list", !.marks = {}]
    <3>1. /\ status' = [status EXCEPT ![th[i].cur] = "failed"] /\ counts' = Tally("failed")
          /\ Become(i, t) /\ t.job = th[i].job /\ t.cur = th[i].cur /\ t.pc = "list"
      BY <2>3, Standing DEF Fail, SetStatus, Become, Activation, Tally
    <3>2. QED
      BY <3>1
  <2>4. QED
    BY <2>1, <2>2, <2>3
<1>. PICK t : /\ status' = [status EXCEPT ![th[i].cur] = x] /\ counts' = Tally(x)
              /\ Become(i, t) /\ t.job = th[i].job /\ t.cur = th[i].cur
              /\ t.pc = IF x = "pending" THEN "resend" ELSE "list"
  BY <1>2
<1>3. /\ Lawful(status, status') /\ th[i].cur \in Steps /\ Owns(i, th[i].cur)
      /\ status[th[i].cur] = "running" /\ StartableIn(status, th[i].cur)
  BY <1>1, <1>2, Claimed
<1>4. GoodCall(t, status')
  <2>1. JobOf(t, status')
    BY <1>2, <1>3, JobStays
  <2>2. StartableIn(status', th[i].cur)
    BY <1>3, Standing, StartableStays
  <2>3. QED
    BY <1>2, <2>1, <2>2 DEF GoodCall, Claims, Starts, Snapshot, InTransaction, Undoes,
       Starters, Owning, Sweeping
<1>5. QED
  BY <1>1, <1>2, <1>3, <1>4, Writing DEF Owning, Sweeping

LEMMA ResendPlays ==
  ASSUME RowInv, NEW i \in Threads, Resend(i)
  PROVE  Plays(i)
<1>1. /\ UNCHANGED <<counts, status, dead, late, budget>> /\ th[i].pc = "resend" /\ Rest(i) /\ Spared'
      /\ queue' = Put(queue, {<<"execute", th[i].cur>>})
  BY NothingForbidden, Thrift DEF Resend, At, rows, run, Forbidden
<1>2. StartableIn(status, th[i].cur)
  BY <1>1, Standing DEF GoodCall, Starts, Starters
<1>3. Queues
  <2> DEFINE D == {th[i].cur}
  <2>1. queue' = Put(queue, {<<"execute", s>> : s \in D}) /\ \A s \in D : StartableIn(status', s)
    <3>1. {<<"execute", s>> : s \in D} = {<<"execute", th[i].cur>>}
      OBVIOUS
    <3>2. QED
      BY <1>1, <1>2, <3>1
  <2> HIDE DEF D
  <2>2. QED
    BY <2>1, Sending
<1>4. QED
  BY <1>1, <1>3, IdleIsGood, Reading DEF Rest, Idle, Owning, Sweeping

-----------------------------------------------------------------------------
(***************************************************************************)
(* The completion: what it reads, with its own step completed, is what it  *)
(* commits, whatever the others have done in between.                      *)
(***************************************************************************)
LEMMA CompletePlays ==
  ASSUME RowInv, NEW i \in Threads, Complete(i)
  PROVE  Plays(i)
<1> DEFINE st == Finished(status, th[i])
<1>1. UNCHANGED <<queue, dead, late, budget>> /\ th[i].pc = "complete" /\ Queues /\ Spared'
  BY Thrift DEF Complete, At, run, world, Queues
<1>2. /\ th[i].cur \in Steps /\ Owns(i, th[i].cur) /\ status[th[i].cur] = "running"
      /\ Lawful(status, st) /\ SoundRows(st)
  BY <1>1, Claimed, FinishingIsLawful, Standing DEF Owning
<1>3. CASE AtomicDispatch
  <2> DEFINE t == [th[i] EXCEPT !.pc = "commit", !.snap = st, !.todo = ReadyPlan(st)]
  <2>1. Become(i, t) /\ UNCHANGED <<status, counts>>
    BY <1>3, Standing DEF Complete, Become, Finished, Activation
  <2>2. /\ t.pc = "commit" /\ t.cur = th[i].cur /\ t.job = th[i].job
        /\ t.snap = st /\ t.todo = ReadyPlan(st)
    BY Standing DEF Activation
  <2>3. Finished(status, t) = st
    BY <2>2 DEF Finished
  <2> HIDE DEF t, st
  <2>4. JobOf(t, status)
    BY <2>2, JobStays, Standing
  <2>5. GoodCall(t, status)
    BY <1>2, <2>2, <2>3, <2>4, JustRead DEF GoodCall, Claims, Starts, Snapshot, InTransaction,
       Undoes, Starters, Owning, Sweeping
  <2>6. QED
    BY <1>1, <2>1, <2>2, <2>5, Reading DEF Owning, Sweeping
<1>4. CASE ~AtomicDispatch
  <2> DEFINE t == [th[i] EXCEPT !.pc = "frontier"]
  <2>1. /\ status' = [status EXCEPT ![th[i].cur] = "completed"] /\ Goto(i, "frontier")
        /\ counts' = Tally("completed")
    BY <1>4 DEF Complete, Tally
  <2>2. Become(i, t) /\ t.pc = "frontier" /\ t.job = th[i].job
    BY <2>1, Going, Standing DEF Activation
  <2> HIDE DEF t
  <2>3. GoodCall(t, status')
    BY <1>2, <2>1, <2>2, JobStays, PlainIsGood DEF Plain, Finished
  <2>4. QED
    BY <1>1, <1>2, <2>1, <2>2, <2>3, Writing DEF Owning, Sweeping
<1>5. QED
  BY <1>3, <1>4

LEMMA CommitPlays ==
  ASSUME Waits = {}, RowInv, NEW i \in Threads, Commit(i)
  PROVE  Plays(i)
<1> DEFINE t == th[i]
           u == ToSettle(t, t.snap, {})
<1>1. t.pc = "commit" /\ UNCHANGED <<dead, late, budget>> /\ Spared'
  BY Thrift DEF Commit, At, run, world
<1>2. /\ t.cur \in Steps /\ Owns(i, t.cur) /\ status[t.cur] = "running"
      /\ Lawful(status, Finished(status, t)) /\ Finished(status, t) \in RowSet
  BY <1>1, Claimed, FinishingIsLawful, Standing DEF Owning, SoundRows
<1>3. status' = Finished(status, t)
  BY <1>2, NoWaits DEF Commit, Finished
<1>4. queue' = Put(queue, {<<"execute", s>> : s \in t.todo}) /\ Become(i, u)
  BY NoWaits DEF Commit
<1>5. /\ \A s \in t.todo : StartableIn(status', s)
      /\ DoomedIn(status', SkipPlan(t.snap)) /\ SeenIn(status', t.snap)
  BY <1>1, <1>3, Standing DEF GoodCall, InTransaction
<1>6. GoodCall(u, status')
  <2>1. JobOf(t, status')
    BY <1>2, <1>3, JobStays
  <2>2. QED
    BY <1>5, <2>1, SettlesWell, Standing
<1>7. u.pc \in {"idle", "cascade", "reread", "terminate"}
  BY Standing, Continuations
<1>8. Queues
  BY <1>4, <1>5, Sending
<1> HIDE DEF u
<1>9. status' = [status EXCEPT ![t.cur] = "completed"] /\ counts' = Tally("completed")
  BY <1>3 DEF Finished, Commit, Tally
<1>10. QED
  BY <1>1, <1>2, <1>4, <1>6, <1>7, <1>8, <1>9, Writing DEF Owning, Sweeping

-----------------------------------------------------------------------------
(***************************************************************************)
(* The frontier of a redriven job, and settle.                             *)
(***************************************************************************)
LEMMA FrontierPlays ==
  ASSUME RowInv, NEW i \in Threads, Frontier(i)
  PROVE  Plays(i)
<1>1. UNCHANGED <<counts, status, queue, dead, late, budget>> /\ Queues /\ Spared'
  BY Thrift DEF Frontier, rows, run, world, Queues
<1> DEFINE t == [th[i] EXCEPT !.pc = IF AtomicDispatch /\ th[i].job # None
                                       THEN "advance" ELSE "send",
                              !.snap = status, !.todo = ReadyPlan(status)]
<1>2. Become(i, t)
  BY Standing DEF Frontier, Become, Activation
<1>3. /\ t.pc \in {"advance", "send"} /\ t.job = th[i].job
      /\ t.snap = status /\ t.todo = ReadyPlan(status)
  BY Standing DEF Activation
<1> HIDE DEF t
<1>4. GoodCall(t, status)
  <2>1. JobOf(t, status)
    BY <1>3, JobStays, Standing
  <2>2. QED
    BY <1>3, <2>1, JustRead, Standing DEF GoodCall, Claims, Starts, Snapshot, InTransaction,
       Undoes, Starters, Owning, Sweeping
<1>5. QED
  BY <1>1, <1>2, <1>3, <1>4, Reading DEF Owning, Sweeping

LEMMA AdvancePlays ==
  ASSUME Waits = {}, RowInv, NEW i \in Threads, Advance(i)
  PROVE  Plays(i)
<1> DEFINE t == th[i]
           u == ToSettle(t, t.snap, {})
<1>1. t.pc = "advance" /\ UNCHANGED <<counts, dead, late, budget>> /\ Spared'
  BY Thrift DEF Advance, At, run, world
<1>2. /\ UNCHANGED status /\ queue' = Put(queue, {<<"execute", s>> : s \in t.todo})
      /\ Become(i, u)
  BY NoWaits, Standing DEF Advance, SoundRows
<1>3. /\ \A s \in t.todo : StartableIn(status, s)
      /\ DoomedIn(status, SkipPlan(t.snap)) /\ SeenIn(status, t.snap) /\ JobOf(t, status)
  BY <1>1, Standing DEF GoodCall, Snapshot
<1>4. GoodCall(u, status)
  BY <1>3, SettlesWell, Standing
<1>5. u.pc \in {"idle", "cascade", "reread", "terminate"}
  BY Standing, Continuations
<1>6. Queues
  BY <1>2, <1>3, Sending
<1> HIDE DEF u
<1>7. QED
  BY <1>1, <1>2, <1>4, <1>5, <1>6, Reading DEF Owning, Sweeping

\* One dispatch without waits: a job, for a step that may start.
LEMMA DispatchesOne ==
  ASSUME Waits = {}, RowInv, NEW i \in Threads, NEW s, DispatchOne(i, s), StartableIn(status, s),
         UNCHANGED <<dead, late>>
  PROVE  UNCHANGED status /\ Queues /\ Spared'
<1>1. UNCHANGED status
  BY NoWaits, Standing DEF DispatchOne, SoundRows
<1> DEFINE D == {s}
<1>2. queue' = Put(queue, {<<"execute", d>> : d \in D}) /\ UNCHANGED budget
  BY NoWaits, NothingForbidden DEF DispatchOne, Forbidden
<1>3. \A d \in D : StartableIn(status', d)
  BY <1>1
<1> HIDE DEF D
<1>4. QED
  BY <1>1, <1>2, <1>3, Sending, Thrift

LEMMA SendPlays ==
  ASSUME Waits = {}, RowInv, NEW i \in Threads, Send(i)
  PROVE  Plays(i)
<1> DEFINE t == th[i]
<1>1. t.pc = "send" /\ UNCHANGED <<counts, dead, late>>
  BY DEF Send, At, run
<1>2. /\ \A s \in t.todo : StartableIn(status, s)
      /\ DoomedIn(status, SkipPlan(t.snap)) /\ SeenIn(status, t.snap) /\ JobOf(t, status)
  BY <1>1, Standing DEF GoodCall, Snapshot
<1>3. ASSUME NEW s \in t.todo, DispatchOne(i, s), th' = [th EXCEPT ![i].todo = @ \ {s}]
      PROVE  Plays(i)
  <2> DEFINE u == [t EXCEPT !.todo = @ \ {s}]
  <2>1. UNCHANGED status /\ Queues /\ Spared'
    BY <1>1, <1>2, <1>3, DispatchesOne
  <2>2. Become(i, u)
    BY <1>3, Standing DEF Become
  <2>3. /\ u.pc = "send" /\ u.job = t.job /\ u.snap = t.snap /\ u.todo = t.todo \ {s}
    BY <1>1, Standing DEF Activation
  <2> HIDE DEF u
  <2>4. GoodCall(u, status)
    BY <1>2, <2>3 DEF GoodCall, Claims, JobOf, Starts, Snapshot, InTransaction, Undoes,
       Starters, Owning, Sweeping
  <2>5. QED
    BY <1>1, <2>1, <2>2, <2>3, <2>4, Reading DEF Owning, Sweeping
<1>4. CASE Become(i, ToSettle(t, t.snap, {})) /\ UNCHANGED <<status, queue, budget>>
  <2> DEFINE u == ToSettle(t, t.snap, {})
  <2>1. GoodCall(u, status)
    BY <1>2, SettlesWell, Standing
  <2>2. u.pc \in {"idle", "cascade", "reread", "terminate"}
    BY Standing, Continuations
  <2>3. Become(i, u) /\ Queues /\ Spared'
    BY <1>1, <1>4, Thrift DEF Queues
  <2> HIDE DEF u
  <2>4. QED
    BY <1>1, <1>4, <2>1, <2>2, <2>3, Reading DEF Owning, Sweeping
<1>5. QED
  BY <1>3, <1>4 DEF Send

LEMMA ListPlays ==
  ASSUME RowInv, NEW i \in Threads, List(i)
  PROVE  Plays(i)
<1> DEFINE u == ToSettle(th[i], status, th[i].marks)
<1>1. UNCHANGED <<counts, status, queue, dead, late, budget>> /\ Queues /\ Spared' /\ Become(i, u)
  BY Thrift DEF List, rows, run, world, Queues
<1>2. GoodCall(u, status)
  BY JustRead, SettlesWell, Standing DEF GoodCall
<1>3. u.pc \in {"idle", "cascade", "reread", "terminate"}
  BY Standing, Continuations
<1> HIDE DEF u
<1>4. QED
  BY <1>1, <1>2, <1>3, Reading DEF Owning, Sweeping

\* A planned row is pending or already skipped when it is skipped.
LEMMA CascadePlays ==
  ASSUME RowInv, NEW i \in Threads, Cascade(i)
  PROVE  Plays(i)
<1> DEFINE t == th[i]
<1>1. UNCHANGED <<counts, queue, dead, late, budget>> /\ t.pc = "cascade" /\ Queues /\ Spared'
  BY Thrift DEF Cascade, At, run, world, Queues
<1>2. PICK s \in t.todo : /\ status' = [status EXCEPT ![s] = "skipped"]
                          /\ th' = [th EXCEPT ![i].todo = @ \ {s},
                                              ![i].pc = IF t.todo = {s} THEN "reread" ELSE @]
  BY DEF Cascade, SetStatus
<1>3. s \in Steps /\ status[s] \in {"pending", "skipped"} /\ DoomedIn(status, t.todo)
  BY <1>1, Standing DEF GoodCall, Snapshot, DoomedIn, Activation
<1>4. Lawful(status, status') /\ \A r \in Steps : status'[r] # status[r] => status[r] # "running"
  BY <1>2, <1>3, Standing DEF Lawful, SoundRows, RowSet
<1> DEFINE u == [t EXCEPT !.todo = @ \ {s}, !.pc = IF t.todo = {s} THEN "reread" ELSE @]
<1>5. /\ th'[i] = u /\ \A k \in Threads \ {i} : th'[k] = th[k]
      /\ u.job = t.job /\ u.pc \in {"cascade", "reread"} /\ u.todo = t.todo \ {s}
  BY <1>1, <1>2, Standing DEF Activation
<1> HIDE DEF u
<1>6. GoodCall(u, status')
  <2>1. DoomedIn(status', t.todo)
    BY <1>3, <1>4, DoomedStays, Standing DEF Activation
  <2>2. JobOf(u, status')
    BY <1>4, <1>5, JobStays
  <2>3. QED
    BY <1>5, <2>1, <2>2 DEF GoodCall, Claims, Starts, Snapshot, InTransaction, Undoes,
       Starters, Owning, Sweeping, DoomedIn
<1>7. Shows(i)
  <2>1. status[s] = "pending" => s \in SkipPlan(status)
    BY <1>3 DEF DoomedIn
  <2>2. QED
    BY <1>1, <1>2, <1>3, <2>1, OneRow
<1>8. QED
  BY <1>1, <1>4, <1>5, <1>6, <1>7 DEF Plays, Takes, Owning, Sweeping

LEMMA RereadPlays ==
  ASSUME RowInv, NEW i \in Threads, Reread(i)
  PROVE  Plays(i)
<1> DEFINE D == {s \in ReadyPlan(status) : Deps[s] \cap th[i].marks # {}}
<1>1. UNCHANGED <<counts, status, queue, dead, late, budget>> /\ Queues /\ Spared'
  BY Thrift DEF Reread, rows, run, world, Queues
<1>2. JobOf(th[i], status) /\ SeenIn(status, status) /\ \A s \in D : StartableIn(status, s)
  BY JustRead, Standing DEF GoodCall
<1>3. CASE Become(i, ToTerminate(th[i], status))
  <2> DEFINE u == ToTerminate(th[i], status)
  <2>1. Become(i, u) /\ GoodCall(u, status) /\ u.pc \in {"idle", "terminate"}
    BY <1>2, <1>3, TerminatesWell, Standing, Continuations
  <2> HIDE DEF u
  <2>2. QED
    BY <1>1, <2>1, Reading DEF Owning, Sweeping
<1>4. CASE th' = [th EXCEPT ![i].pc = "unblock", ![i].snap = status, ![i].todo = D]
  <2> DEFINE u == [th[i] EXCEPT !.pc = "unblock", !.snap = status, !.todo = D]
  <2> HIDE DEF D
  <2>1. /\ Become(i, u) /\ u.pc = "unblock" /\ u.job = th[i].job
        /\ u.snap = status /\ u.todo = D
    BY <1>4, Standing DEF Become, Activation
  <2> HIDE DEF u
  <2>2. GoodCall(u, status)
    BY <1>2, <2>1 DEF GoodCall, Claims, JobOf, Starts, Snapshot, InTransaction, Undoes,
       Starters, Owning, Sweeping
  <2>3. QED
    BY <1>1, <2>1, <2>2, Reading DEF Owning, Sweeping
<1>5. QED
  BY <1>3, <1>4 DEF Reread

LEMMA UnblockPlays ==
  ASSUME Waits = {}, RowInv, NEW i \in Threads, Unblock(i)
  PROVE  Plays(i)
<1> DEFINE t == th[i]
<1>1. t.pc = "unblock" /\ UNCHANGED <<counts, dead, late>>
  BY DEF Unblock, At, run
<1>2. (\A s \in t.todo : StartableIn(status, s)) /\ SeenIn(status, t.snap) /\ JobOf(t, status)
  BY <1>1, Standing DEF GoodCall, Snapshot
<1>3. PICK s \in t.todo :
        /\ DispatchOne(i, s)
        /\ Become(i, IF t.todo = {s} THEN ToTerminate(t, t.snap) ELSE [t EXCEPT !.todo = @ \ {s}])
  BY DEF Unblock
<1>4. UNCHANGED status /\ Queues /\ Spared'
  BY <1>1, <1>2, <1>3, DispatchesOne
<1>5. CASE t.todo = {s}
  <2> DEFINE u == ToTerminate(t, t.snap)
  <2>1. GoodCall(u, status) /\ u.pc \in {"idle", "terminate"} /\ Become(i, u)
    BY <1>2, <1>3, <1>5, TerminatesWell, Standing, Continuations
  <2> HIDE DEF u
  <2>2. QED
    BY <1>1, <1>4, <2>1, Reading DEF Owning, Sweeping
<1>6. CASE t.todo # {s}
  <2> DEFINE u == [t EXCEPT !.todo = @ \ {s}]
  <2>1. /\ Become(i, u) /\ u.pc = "unblock" /\ u.job = t.job /\ u.snap = t.snap
        /\ u.todo = t.todo \ {s}
    BY <1>1, <1>3, <1>6, Standing DEF Activation
  <2> HIDE DEF u
  <2>2. GoodCall(u, status)
    BY <1>2, <2>1 DEF GoodCall, Claims, JobOf, Starts, Snapshot, InTransaction, Undoes,
       Starters, Owning, Sweeping
  <2>3. QED
    BY <1>1, <1>4, <2>1, <2>2, Reading DEF Owning, Sweeping
<1>7. QED
  BY <1>5, <1>6

-----------------------------------------------------------------------------
(***************************************************************************)
(* The end of a run.                                                       *)
(***************************************************************************)
\* A snapshot in which everything had settled.
LEMMA SeenSettled ==
  ASSUME RowInv, NEW i \in Threads, th[i].pc \in {"terminate", "finish"}
  PROVE  /\ OverIn(status) /\ SeenIn(status, th[i].snap) /\ AllTerminal(th[i].snap)
         /\ JobOf(th[i], status)
         /\ (\E s \in Steps : th[i].snap[s] = "failed") <=> \E s \in Steps : status[s] = "failed"
<1>1. SeenIn(status, th[i].snap) /\ AllTerminal(th[i].snap) /\ JobOf(th[i], status)
  BY Standing DEF GoodCall, Snapshot
<1>2. QED
  BY <1>1 DEF SeenIn, AllTerminal, OverIn

LEMMA TerminatePlays ==
  ASSUME RowInv, NEW i \in Threads, Terminate(i)
  PROVE  Plays(i)
<1>1. UNCHANGED <<counts, status, queue, dead, late, budget>> /\ th[i].pc = "terminate" /\ Queues /\ Spared'
  BY Thrift DEF Terminate, At, rows, run, world, Queues
<1>2. CASE Rest(i)
  BY <1>1, <1>2, IdleIsGood, Reading DEF Rest, Idle, Owning, Sweeping
<1>3. CASE Goto(i, "finish")
  <2> DEFINE u == [th[i] EXCEPT !.pc = "finish"]
  <2>1. Become(i, u) /\ u.pc = "finish" /\ u.job = th[i].job /\ u.snap = th[i].snap
    BY <1>3, Going, Standing DEF Activation
  <2> HIDE DEF u
  <2>2. GoodCall(u, status)
    BY <1>1, <2>1, SeenSettled DEF GoodCall, Claims, JobOf, Starts, Snapshot, InTransaction,
       Undoes, Starters, Owning, Sweeping
  <2>3. QED
    BY <1>1, <2>1, <2>2, Reading DEF Owning, Sweeping
<1>4. QED
  BY <1>2, <1>3 DEF Terminate

\* A call is about to compensate: everything has settled, or nothing can be undone.
LEMMA ToCompensate ==
  ASSUME RowInv, NEW i \in Threads, NEW t, Become(i, t), t.pc = "compensate", t.job = th[i].job,
         UNCHANGED <<counts, status, queue, dead, late, budget>>, OverIn(status) \/ Compensable = {}
  PROVE  Plays(i)
<1>1. Queues /\ Spared'
  BY Thrift DEF Queues
<1>2. GoodCall(t, status)
  BY Standing DEF GoodCall, Claims, JobOf, Starts, Snapshot, InTransaction, Undoes,
     Starters, Owning, Sweeping
<1>3. QED
  BY <1>1, <1>2, Reading DEF Owning, Sweeping

LEMMA FinishPlays ==
  ASSUME RowInv, NEW i \in Threads, Finish(i)
  PROVE  Plays(i)
<1>1. UNCHANGED <<counts, status, queue, dead, late, budget>> /\ th[i].pc = "finish"
  BY DEF Finish, At, rows, run, world
<1>2. CASE Rest(i)
  <2>1. Queues /\ Spared'
    BY <1>1, Thrift DEF Queues
  <2>2. QED
    BY <1>1, <1>2, <2>1, IdleIsGood, Reading DEF Rest, Idle, Owning, Sweeping
<1>3. CASE th' = [th EXCEPT ![i].pc = "compensate", ![i].snap = None]
  <2> DEFINE u == [th[i] EXCEPT !.pc = "compensate", !.snap = None]
  <2>1. Become(i, u) /\ u.pc = "compensate" /\ u.job = th[i].job
    BY <1>3, Standing DEF Become, Activation
  <2> HIDE DEF u
  <2>2. QED
    BY <1>1, <2>1, SeenSettled, ToCompensate
<1>4. QED
  BY <1>2, <1>3 DEF Finish

\* A call has D left to undo.
LEMMA UndoesOn ==
  ASSUME NEW t \in Activation, NEW st, NEW D, JobOf(t, st),
         D # {} => OverIn(st) /\ \A s \in D : st[s] \in Effects
  PROVE  GoodCall(ToUndo(t, D), st)
<1>1. CASE D = {}
  BY <1>1, IdleIsGood DEF ToUndo
<1>2. CASE D # {}
  BY <1>2 DEF ToUndo, GoodCall, Claims, JobOf, Starts, Snapshot, InTransaction, Undoes,
     Starters, Owning, Sweeping, Activation
<1>3. QED
  BY <1>1, <1>2

LEMMA CompensatePlays ==
  ASSUME RowInv, NEW i \in Threads, Compensate(i)
  PROVE  Plays(i)
<1> DEFINE D == {s \in Compensable : status[s] = "completed"}
           u == ToUndo(th[i], D)
<1>1. /\ UNCHANGED <<counts, status, queue, dead, late, budget>> /\ th[i].pc = "compensate"
      /\ Queues /\ Spared' /\ Become(i, u)
  BY Thrift DEF Compensate, At, rows, run, world, Queues
<1>2. D # {} => OverIn(status)
  BY <1>1, Standing DEF GoodCall, Undoes
<1>3. \A s \in D : status[s] \in Effects
  OBVIOUS
<1> HIDE DEF D
<1>4. GoodCall(u, status)
  BY <1>2, <1>3, UndoesOn, Standing DEF GoodCall
<1>5. u.pc \in {"idle", "undo"}
  BY Standing, Continuations
<1> HIDE DEF u
<1>6. QED
  BY <1>1, <1>4, <1>5, Reading DEF Owning, Sweeping

\* Undoing an effect, once every step has settled.
LEMMA Undone ==
  ASSUME RowInv, NEW i \in Threads, NEW t, NEW s \in Steps, NEW x \in Effects,
         th[i].pc \in {"undo", "undoing"}, OverIn(status), status[s] \in Effects,
         status' = [status EXCEPT ![s] = x], x = status[s] \/ <<status[s], x>> \in Undoings,
         th'[i] = t, \A k \in Threads \ {i} : th'[k] = th[k],
         UNCHANGED <<counts, queue, dead, late, budget>>,
         GoodCall(t, status'), t.pc \notin Owning \cup Sweeping
  PROVE  Plays(i)
<1>1. Lawful(status, status') /\ \A r \in Steps : status'[r] # status[r] => status[r] # "running"
  BY Standing DEF Lawful, SoundRows, RowSet
<1>2. Queues /\ Spared'
  BY Thrift DEF Queues
<1>3. Shows(i)
  BY OneRow
<1>4. QED
  BY <1>1, <1>2, <1>3 DEF Plays, Takes

LEMMA UndoPlays ==
  ASSUME RowInv, NEW i \in Threads, Undo(i)
  PROVE  Plays(i)
<1> DEFINE t == th[i]
<1>1. UNCHANGED <<counts, queue, dead, late, budget>> /\ t.pc = "undo"
  BY DEF Undo, At, run, world
<1>2. PICK s \in t.todo : /\ status' = [status EXCEPT ![s] = "compensating"]
                          /\ th' = [th EXCEPT ![i].pc = "undoing", ![i].cur = s,
                                              ![i].todo = @ \ {s}]
  BY DEF Undo, SetStatus
<1>3. /\ t.todo \subseteq Steps /\ OverIn(status)
      /\ \A r \in t.todo : status[r] \in Effects
  BY <1>1, Standing DEF GoodCall, Undoes, Activation
<1> DEFINE u == [t EXCEPT !.pc = "undoing", !.cur = s, !.todo = @ \ {s}]
<1>4. /\ th'[i] = u /\ \A k \in Threads \ {i} : th'[k] = th[k]
      /\ u.pc = "undoing" /\ u.cur = s /\ u.todo = t.todo \ {s} /\ u.job = t.job
  BY <1>2, Standing DEF Activation
<1> HIDE DEF u
<1>5. /\ Lawful(status, status') /\ status'[s] = "compensating"
      /\ \A r \in t.todo : status'[r] \in Effects
  BY <1>2, <1>3, Standing DEF Lawful, SoundRows, RowSet
<1>6. GoodCall(u, status')
  <2>1. OverIn(status') /\ JobOf(u, status')
    BY <1>3, <1>4, <1>5, OverStays, JobStays
  <2>2. QED
    BY <1>4, <1>5, <2>1 DEF GoodCall, Claims, Starts, Snapshot, InTransaction, Undoes,
       Starters, Owning, Sweeping
<1>7. QED
  BY <1>1, <1>2, <1>3, <1>4, <1>6, Undone DEF Owning, Sweeping

LEMMA UndoingPlays ==
  ASSUME RowInv, NEW i \in Threads, Undoing(i)
  PROVE  Plays(i)
<1> DEFINE t == th[i]
           u == ToUndo(t, t.todo)
<1>1. /\ UNCHANGED <<counts, queue, dead, late, budget>> /\ t.pc = "undoing"
      /\ status' = [status EXCEPT ![t.cur] = "compensated"] /\ Become(i, u)
  BY DEF Undoing, At, SetStatus, run, world
<1>2. /\ t.todo \subseteq Steps /\ t.cur \in Steps /\ OverIn(status)
      /\ status[t.cur] \in {"compensating", "compensated"}
      /\ \A r \in t.todo : status[r] \in Effects
  BY <1>1, Standing DEF GoodCall, Undoes, Activation, ActivationOK, AboutStep
<1>3. Lawful(status, status') /\ \A r \in t.todo : status'[r] \in Effects
  BY <1>1, <1>2, Standing DEF Lawful, SoundRows, RowSet
<1>4. GoodCall(u, status')
  <2>1. OverIn(status') /\ JobOf(t, status')
    BY <1>2, <1>3, OverStays, JobStays
  <2>2. QED
    BY <1>3, <2>1, UndoesOn, Standing
<1>5. u.pc \in {"idle", "undo"}
  BY Standing, Continuations
<1> HIDE DEF u
<1>6. th'[i] = u /\ \A k \in Threads \ {i} : th'[k] = th[k]
  BY <1>1, Standing DEF Become
<1>7. QED
  BY <1>1, <1>2, <1>4, <1>5, <1>6, Undone DEF Owning, Sweeping

-----------------------------------------------------------------------------
(***************************************************************************)
(* Answers to waits, of which there are none, cancellation and expiry.     *)
(***************************************************************************)
LEMMA TimeoutPlays ==
  ASSUME RowInv, NEW i \in Threads, Timeout(i)
  PROVE  Plays(i)
<1>1. UNCHANGED <<counts, status, queue, dead, late, budget>> /\ th[i].pc = "timer" /\ Queues /\ Spared'
  BY Thrift DEF Timeout, At, rows, run, world, Queues
<1>2. CASE status[th[i].cur] = "waiting"
  BY <1>1, <1>2, Standing DEF ActivationOK, AboutStep
<1>3. CASE Rest(i)
  BY <1>1, <1>3, IdleIsGood, Reading DEF Rest, Idle, Owning, Sweeping
<1>4. QED
  BY <1>2, <1>3 DEF Timeout

LEMMA SkipPendingPlays ==
  ASSUME RowInv, NEW i \in Threads, SkipPendingSteps(i)
  PROVE  Plays(i)
<1>1. UNCHANGED <<counts, queue, dead, late, budget>> /\ th[i].pc \in {"cancel", "expire"}
      /\ Queues /\ Spared'
  BY Thrift DEF SkipPendingSteps, run, world, Queues
<1>2. status' = [s \in Steps |-> IF status[s] \in {"pending", "waiting"}
                                   THEN "skipped" ELSE status[s]]
  BY DEF SkipPendingSteps
<1>3. Lawful(status, status') /\ \A r \in Steps : status'[r] # status[r] => status[r] # "running"
  BY <1>2, Standing DEF Lawful, SoundRows, RowSet
<1> DEFINE u == [th[i] EXCEPT !.pc = IF At(i, "cancel") THEN "cancelled" ELSE "expired"]
<1>4. /\ th'[i] = u /\ \A k \in Threads \ {i} : th'[k] = th[k]
      /\ u.job = th[i].job
      /\ u.pc = IF th[i].pc = "cancel" THEN "cancelled" ELSE "expired"
  BY Standing DEF SkipPendingSteps, Goto, Activation, At
<1> HIDE DEF u
<1>5. GoodCall(u, status')
  <2>1. JobOf(u, status') /\ (u.pc = "expired" => Compensable = {})
    BY <1>1, <1>3, <1>4, JobStays, Standing DEF GoodCall, Undoes
  <2>2. u.pc \in {"cancelled", "expired"}
    BY <1>4
  <2>3. QED
    BY <2>1, <2>2 DEF GoodCall, Claims, Starts, Snapshot, InTransaction, Undoes,
       Starters, Owning, Sweeping
<1>6. Shows(i)
  BY <1>1, <1>2, Standing DEF Shows, Changes
<1>7. QED
  BY <1>1, <1>3, <1>4, <1>5, <1>6 DEF Plays, Takes, Owning, Sweeping

LEMMA CloseRunPlays ==
  ASSUME RowInv, NEW i \in Threads, CloseRun(i)
  PROVE  Plays(i)
<1>1. UNCHANGED <<counts, status, queue, dead, late, budget>> /\ Queues /\ Spared'
  BY Thrift DEF CloseRun, rows, run, world, Queues
<1>2. CASE Rest(i)
  BY <1>1, <1>2, IdleIsGood, Reading DEF Rest, Idle, Owning, Sweeping
<1>3. CASE At(i, "expired") /\ Goto(i, "compensate")
  <2> DEFINE u == [th[i] EXCEPT !.pc = "compensate"]
  <2>1. Become(i, u) /\ u.pc = "compensate" /\ u.job = th[i].job
    BY <1>3, Going, Standing DEF Activation
  <2> HIDE DEF u
  <2>2. Compensable = {}
    BY <1>3, Standing DEF GoodCall, Undoes, At
  <2>3. QED
    BY <1>1, <2>1, <2>2, ToCompensate
<1>4. QED
  BY <1>2, <1>3 DEF CloseRun

-----------------------------------------------------------------------------
(***************************************************************************)
(* The sweep: what it lists is running and claimed by nobody, and stays so *)
(* until the sweep itself puts it back or fails it.                        *)
(***************************************************************************)
LEMMA SweepPlays ==
  ASSUME RowInv, NEW i \in Threads, Sweep(i)
  PROVE  Plays(i)
<1> DEFINE again == {s \in Stuck : OnStuckRetry /\ attempts[s] < MaxAttempts[s]}
<1>1. UNCHANGED <<counts, status, queue, dead, late>> /\ Queues /\ Spared' /\ i \in Sweepers
  BY Thrift DEF Sweep, rows, run, Queues, Events
<1>2. CASE late /\ Become(i, [Idle EXCEPT !.pc = "expire"])
  <2> DEFINE u == [Idle EXCEPT !.pc = "expire"]
  <2>1. Become(i, u) /\ u.pc = "expire" /\ u.job = None /\ None \notin Job
    BY <1>2, EngineAssumption DEF Idle
  <2> HIDE DEF u
  <2>2. GoodCall(u, status)
    BY <1>2, <2>1 DEF GoodCall, Claims, JobOf, Starts, Snapshot, InTransaction, Undoes,
       Starters, Owning, Sweeping, RowInv, Spared
  <2>3. QED
    BY <1>1, <2>1, <2>2, Reading DEF Owning, Sweeping
<1>3. CASE Become(i, [Idle EXCEPT !.pc = "sweep", !.todo = again, !.marks = Stuck \ again])
  <2> DEFINE u == [Idle EXCEPT !.pc = "sweep", !.todo = again, !.marks = Stuck \ again]
  <2>1. /\ th'[i] = u /\ \A k \in Threads \ {i} : th'[k] = th[k]
        /\ u.pc = "sweep" /\ u.job = None /\ u.todo \cup u.marks = Stuck /\ u.todo \cap u.marks = {}
    BY <1>3, Standing DEF Become, Idle
  <2> HIDE DEF u
  <2>2. None \notin Job
    BY EngineAssumption
  <2>3. \A s \in Stuck : status[s] = "running" /\ \A j \in Threads : ~Owns(j, s)
    BY DEF Stuck
  <2>4. GoodCall(u, status)
    BY <2>1, <2>2, <2>3 DEF GoodCall, Claims, JobOf, Starts, Snapshot, InTransaction, Undoes,
       Starters, Owning, Sweeping
  <2>5. Takes(i)
    BY <1>1, <2>1, <2>3 DEF Takes, Owning
  <2>6. QED
    BY <1>1, <2>1, <2>4, <2>5, Standing, NoRow DEF Plays
<1>4. QED
  BY <1>2, <1>3 DEF Sweep

\* What is on the list of a sweep in progress.
LEMMA Listed ==
  ASSUME RowInv, NEW i \in Threads, th[i].pc \in Sweeping
  PROVE  /\ th[i].todo \subseteq Steps /\ th[i].marks \subseteq Steps
         /\ th[i].todo \cap th[i].marks = {}
         /\ \A s \in th[i].todo \cup th[i].marks :
              status[s] = "running" /\ StartableIn(status, s)
         /\ JobOf(th[i], status)
BY Standing DEF GoodCall, Claims, Activation, RowInv, RunningMayRun

LEMMA SweepRetryPlays ==
  ASSUME RowInv, NEW i \in Threads, SweepRetry(i)
  PROVE  Plays(i)
<1> DEFINE t == th[i]
<1>1. UNCHANGED <<counts, queue, dead, late, budget>> /\ t.pc = "sweep" /\ Queues /\ Spared'
  BY Thrift DEF SweepRetry, At, run, world, Queues
<1>2. PICK s \in t.todo : /\ status' = [status EXCEPT ![s] = "pending"]
                          /\ th' = [th EXCEPT ![i].pc = "sweepSend", ![i].cur = s,
                                              ![i].todo = @ \ {s}]
  BY DEF SweepRetry, SetStatus
<1> DEFINE u == [t EXCEPT !.pc = "sweepSend", !.cur = s, !.todo = @ \ {s}]
<1>3. /\ Become(i, u) /\ u.pc = "sweepSend" /\ u.cur = s /\ u.todo = t.todo \ {s}
      /\ u.marks = t.marks /\ u.job = t.job
  BY <1>2, Standing DEF Become, Activation
<1> HIDE DEF u
<1>4. /\ s \in Steps /\ status[s] = "running" /\ StartableIn(status, s)
      /\ t.todo \cap t.marks = {} /\ t.todo \cup t.marks \subseteq Steps
      /\ \A r \in t.todo \cup t.marks : status[r] = "running"
  BY <1>1, Listed DEF Sweeping
<1>5. Lawful(status, status') /\ \A r \in Steps \ {s} : status'[r] = status[r]
  BY <1>2, <1>4, Standing DEF Lawful, SoundRows, RowSet
<1>6. GoodCall(u, status')
  <2>1. JobOf(u, status') /\ StartableIn(status', s)
    BY <1>3, <1>4, <1>5, JobStays, StartableStays, Standing
  <2>2. \A r \in u.todo \cup u.marks : status'[r] = "running"
    BY <1>3, <1>4, <1>5
  <2>3. u.todo \cap u.marks = {}
    BY <1>3, <1>4
  <2>4. QED
    BY <1>3, <2>1, <2>2, <2>3 DEF GoodCall, Claims, Starts, Snapshot, InTransaction, Undoes,
       Starters, Owning, Sweeping
<1>7. counts' = Tally("pending")
  BY <1>1 DEF Tally
<1>8. QED
  BY <1>1, <1>2, <1>3, <1>4, <1>6, <1>7, Writing DEF Owning, Sweeping

\* Where a sweep goes on.
LEMMA Suspects ==
  ASSUME NEW t \in Activation, NEW st, JobOf(t, st), t.todo \cap t.marks = {},
         \A s \in t.todo \cup t.marks : st[s] = "running"
  PROVE  /\ GoodCall(NextSuspect(t), st)
         /\ NextSuspect(t).pc \in {"idle", "list", "sweep"}
         /\ NextSuspect(t).pc = "sweep" =>
              NextSuspect(t).todo = t.todo /\ NextSuspect(t).marks = t.marks
<1>1. CASE t.todo \cup t.marks # {}
  <2> DEFINE u == [t EXCEPT !.pc = "sweep", !.cur = None]
  <2>1. /\ NextSuspect(t) = u /\ u.pc = "sweep" /\ u.job = t.job
        /\ u.todo = t.todo /\ u.marks = t.marks
    BY <1>1 DEF NextSuspect, Activation
  <2> HIDE DEF u
  <2>2. QED
    BY <2>1 DEF GoodCall, Claims, JobOf, Starts, Snapshot, InTransaction, Undoes,
       Starters, Owning, Sweeping
<1>2. CASE t.todo \cup t.marks = {} /\ t.tries = 1
  <2> DEFINE u == [Idle EXCEPT !.pc = "list"]
  <2>1. NextSuspect(t) = u /\ u.pc = "list" /\ u.job = None /\ None \notin Job
    BY <1>2, EngineAssumption DEF NextSuspect, Idle
  <2> HIDE DEF u
  <2>2. QED
    BY <2>1, PlainIsGood DEF JobOf, Plain
<1>3. CASE t.todo \cup t.marks = {} /\ t.tries # 1
  <2>1. NextSuspect(t) = Idle /\ Idle.pc = "idle"
    BY <1>3 DEF NextSuspect, Idle
  <2>2. QED
    BY <2>1, IdleIsGood
<1>4. QED
  BY <1>1, <1>2, <1>3

LEMMA SweepSendPlays ==
  ASSUME RowInv, NEW i \in Threads, SweepSend(i)
  PROVE  Plays(i)
<1> DEFINE t == th[i]
           u == NextSuspect(t)
<1>1. /\ UNCHANGED <<counts, status, dead, late, budget>> /\ t.pc = "sweepSend" /\ Spared'
      /\ Become(i, u) /\ queue' = Put(queue, {<<"execute", t.cur>>})
  BY NothingForbidden, Thrift DEF SweepSend, At, rows, run, Forbidden
<1>2. StartableIn(status, t.cur)
  BY <1>1, Standing DEF GoodCall, Starts, Starters
<1>3. Queues
  <2> DEFINE D == {t.cur}
  <2>1. queue' = Put(queue, {<<"execute", s>> : s \in D}) /\ \A s \in D : StartableIn(status', s)
    <3>1. {<<"execute", s>> : s \in D} = {<<"execute", t.cur>>}
      OBVIOUS
    <3>2. QED
      BY <1>1, <1>2, <3>1
  <2> HIDE DEF D
  <2>2. QED
    BY <2>1, Sending
<1>4. /\ GoodCall(u, status) /\ u.pc \in {"idle", "list", "sweep"}
      /\ u.pc = "sweep" => u.todo = t.todo /\ u.marks = t.marks
  BY <1>1, Listed, Suspects, Standing DEF Sweeping
<1> HIDE DEF u
<1>5. QED
  BY <1>1, <1>3, <1>4, Reading DEF Owning, Sweeping

LEMMA SweepFailPlays ==
  ASSUME RowInv, NEW i \in Threads, SweepFail(i)
  PROVE  Plays(i)
<1> DEFINE t == th[i]
<1>1. /\ UNCHANGED <<queue, dead, late, budget>> /\ t.pc = "sweep" /\ Queues /\ Spared'
      /\ counts' = Tally("failed")
  BY Thrift DEF SweepFail, At, world, Queues, Tally
<1>2. PICK s \in t.marks : /\ status' = [status EXCEPT ![s] = "failed"]
                           /\ Become(i, NextSuspect([t EXCEPT !.marks = @ \ {s}, !.tries = 1]))
  BY DEF SweepFail, SetStatus
<1> DEFINE v == [t EXCEPT !.marks = @ \ {s}, !.tries = 1]
           u == NextSuspect(v)
<1>3. v \in Activation /\ v.todo = t.todo /\ v.marks = t.marks \ {s} /\ v.job = t.job
  BY Standing DEF Activation
<1>4. Become(i, u)
  BY <1>2
<1> HIDE DEF v
<1>5. /\ s \in Steps /\ status[s] = "running"
      /\ t.todo \cap t.marks = {} /\ t.todo \cup t.marks \subseteq Steps
      /\ \A r \in t.todo \cup t.marks : status[r] = "running"
  BY <1>1, Listed DEF Sweeping
<1>6. Lawful(status, status') /\ \A r \in Steps \ {s} : status'[r] = status[r]
  BY <1>2, <1>5, Standing DEF Lawful, SoundRows, RowSet
<1>7. /\ GoodCall(u, status') /\ u.pc \in {"idle", "list", "sweep"}
      /\ u.pc = "sweep" => u.todo = v.todo /\ u.marks = v.marks
  <2>1. JobOf(v, status')
    BY <1>3, <1>6, JobStays
  <2>2. \A r \in v.todo \cup v.marks : status'[r] = "running"
    BY <1>3, <1>5, <1>6
  <2>3. v.todo \cap v.marks = {}
    BY <1>3, <1>5
  <2>4. QED
    BY <1>3, <2>1, <2>2, <2>3, Suspects
<1> HIDE DEF u
<1>8. QED
  BY <1>1, <1>2, <1>3, <1>4, <1>5, <1>7, Writing DEF Owning, Sweeping

-----------------------------------------------------------------------------
(***************************************************************************)
(* Calls that begin, and the environment.                                  *)
(***************************************************************************)
LEMMA CancelPlays ==
  ASSUME RowInv, NEW i \in Threads, Cancel(i)
  PROVE  Plays(i)
<1> DEFINE u == [Idle EXCEPT !.pc = "cancel"]
<1>1. UNCHANGED <<counts, status, queue, dead, late>> /\ Queues /\ Spared' /\ Become(i, u)
  BY Thrift DEF Cancel, rows, run, Queues, Events
<1>2. u.pc = "cancel" /\ u.job = None /\ None \notin Job
  BY EngineAssumption DEF Idle
<1> HIDE DEF u
<1>3. GoodCall(u, status)
  BY <1>2, PlainIsGood DEF JobOf, Plain
<1>4. QED
  BY <1>1, <1>2, <1>3, Reading DEF Owning, Sweeping

\* What does not happen in an orderly run.
LEMMA NeverHappens ==
  ASSUME RowInv, NEW i \in Threads
  PROVE  /\ ~Suspend(i) /\ ~Reset(i) /\ ~Recount(i) /\ ~Reopen(i) /\ ~Retry(i) /\ ~Throw(i)
         /\ \A s \in Steps : ~Exhaust(i, s) /\ ~Resume(i, s)
<1>1. th[i].pc \notin {"suspend", "reset", "recount", "reopen"}
  BY Standing DEF GoodCall, Claims
<1>2. ~Spend("retry") /\ ~Spend("throw")
  BY NothingForbidden DEF Forbidden
<1>3. dead = {} /\ \A s \in Steps : status[s] # "waiting"
  BY Standing DEF RowInv, Spared
<1>4. QED
  BY <1>1, <1>2, <1>3 DEF Suspend, Reset, Recount, Reopen, Retry, Throw, Exhaust, Resume, At

\* The job of a dying or slow call is queued again.
LEMMA JobAgain ==
  ASSUME RowInv, NEW i \in Threads, UNCHANGED status,
         queue' = Put(queue, {th[i].job} \cap Job)
  PROVE  Queues
<1>1. JobOf(th[i], status)
  BY Standing DEF GoodCall
<1>2. SUFFICES ASSUME NEW s \in Steps, queue'[<<"execute", s>>] > 0
               PROVE  queue[<<"execute", s>>] > 0 \/ StartableIn(status', s)
  BY DEF Queues
<1>3. <<"execute", s>> \in Job
  BY DEF Job
<1>4. CASE <<"execute", s>> = th[i].job
  BY <1>1, <1>3, <1>4 DEF JobOf
<1>5. CASE <<"execute", s>> # th[i].job
  BY <1>2, <1>3, <1>5 DEF Put
<1>6. QED
  BY <1>4, <1>5

LEMMA CrashPlays ==
  ASSUME RowInv, NEW i \in Threads, Crash(i)
  PROVE  Plays(i)
<1> DEFINE j == th[i].job
<1>1. /\ UNCHANGED <<counts, status, late>> /\ Rest(i) /\ (\E e \in Events : Spend(e))
      /\ queue' = Put(queue, {j} \cap Job) /\ dead' = dead \cup ({j} \cap Steps)
  BY NothingForbidden DEF Crash, rows, run, Events, Forbidden
<1>2. {j} \cap Steps = {}
  BY EngineAssumption, Standing DEF GoodCall, JobOf
<1>3. Queues /\ Spared'
  BY <1>1, <1>2, JobAgain, Thrift
<1>4. QED
  BY <1>1, <1>3, IdleIsGood, Reading DEF Rest, Idle, Owning, Sweeping

LEMMA RedeliverPlays ==
  ASSUME RowInv, NEW i \in Threads, Redeliver(i)
  PROVE  Plays(i)
<1>1. /\ UNCHANGED <<counts, status, th, dead, late>> /\ \E e \in Events : Spend(e)
      /\ th[i].job \in Job /\ queue' = Put(queue, {th[i].job})
  BY DEF Redeliver, rows, run, Events
<1>2. {th[i].job} \cap Job = {th[i].job}
  BY <1>1
<1>3. Queues /\ Spared'
  BY <1>1, <1>2, JobAgain, Thrift
<1>4. GoodCall(th'[i], status') /\ Lawful(status, status')
  BY <1>1, Standing
<1>5. th'[i].pc \in Sweeping => i \in Sweepers
  BY <1>1 DEF RowInv, SweptUnowned
<1>6. QED
  BY <1>1, <1>3, <1>4, <1>5, NoRow DEF Plays, Takes, Owns

LEMMA DeadlinePasses ==
  ASSUME RowInv, TypeOK', PassDeadline
  PROVE  RowInv'
<1>1. UNCHANGED <<counts, status, th, queue, dead>> /\ Spend("deadline")
  BY DEF PassDeadline, rows, run
<1>2. Spared'
  <2>1. Compensable = {}
    BY <1>1 DEF RowInv, Spared, Spend
  <2>2. \A e \in Forbidden : budget'[e] = 0
    BY <1>1 DEF RowInv, TypeOK, Spared, Spend, Forbidden, Events
  <2>3. /\ ~Never("deadline")
        /\ \A e \in Events : Never(e) => budget'[e] = 0
    BY <1>1 DEF RowInv, TypeOK, Spared, Spend, Events
  <2>4. QED
    BY <1>1, <2>1, <2>2, <2>3 DEF RowInv, Spared
<1>3. QED
  BY <1>1, <1>2 DEF RowInv, RunningMayRun, QueuedMayRun, OwnersAlone, SweptUnowned, Owns

-----------------------------------------------------------------------------
LEMMA RowInvInit ==
  ASSUME Orderly, Init
  PROVE  RowInv
<1>1. TypeOK
  BY TypeInit
<1>2. status = [s \in Steps |-> "pending"]
  <2>1. [s \in Steps |-> "pending"] \in RowSet
    BY DEF RowSet
  <2>2. QED
    BY <2>1, NoWaits DEF Init, Orderly
<1>3. SoundRows(status) /\ RunningMayRun
  BY <1>2 DEF SoundRows, RowSet, RunningMayRun
<1>4. QueuedMayRun
  <2> SUFFICES ASSUME NEW s \in Steps, queue[<<"execute", s>>] > 0
               PROVE  Satisfied(status, SkipPlan(status), s)
    BY DEF QueuedMayRun, StartableIn
  <2>1. queue = Put([j \in Job |-> 0], {<<"execute", r>> : r \in Roots})
    BY NoWaits DEF Init, Orderly
  <2>2. <<"execute", s>> \in Job
    BY DEF Job
  <2>3. s \in Roots
    BY <2>1, <2>2 DEF Put
  <2>4. QED
    BY <2>3 DEF Roots, Satisfied, DepStates
<1>5. \A i \in Threads : th[i] = Idle /\ th[i].pc = "idle"
  BY DEF Init, Idle
<1>6. OwnersAlone /\ SweptUnowned
  BY <1>5 DEF OwnersAlone, SweptUnowned, Owns, Owning, Sweeping
<1>7. Spared
  BY DEF Init, Orderly, Spared, Never
<1>8. \A i \in Threads : GoodCall(th[i], status)
  BY <1>5, IdleIsGood
<1>9. QED
  BY <1>1, <1>3, <1>4, <1>6, <1>7, <1>8 DEF RowInv

\* Whatever a thread does in an orderly run plays by the rules.
LEMMA ThreadPlays ==
  ASSUME Waits = {}, RowInv, NEW i \in Threads,
         Step(i) \/ Start(i) \/ Operator(i) \/ Crash(i) \/ Throw(i) \/ Redeliver(i)
  PROVE  Plays(i)
<1>1. CASE Step(i)
  <2>1. CASE \/ Begin(i) \/ Claim(i) \/ Inputs(i) \/ Handle(i) \/ Decline(i) \/ Suspend(i)
             \/ Requeue(i) \/ Resend(i) \/ Fail(i) \/ Complete(i) \/ Commit(i)
    BY <2>1, BeginPlays, ClaimPlays, InputsPlays, HandlePlays, SettlePlays, NeverHappens,
       ResendPlays, CompletePlays, CommitPlays
  <2>2. CASE \/ Frontier(i) \/ Advance(i) \/ Send(i) \/ List(i) \/ Cascade(i) \/ Reread(i)
             \/ Unblock(i) \/ Terminate(i) \/ Finish(i)
    BY <2>2, FrontierPlays, AdvancePlays, SendPlays, ListPlays, CascadePlays, RereadPlays,
       UnblockPlays, TerminatePlays, FinishPlays
  <2>3. CASE \/ Compensate(i) \/ Undo(i) \/ Undoing(i) \/ Timeout(i) \/ SkipPendingSteps(i)
             \/ CloseRun(i) \/ SweepRetry(i) \/ SweepSend(i) \/ SweepFail(i)
             \/ Reset(i) \/ Recount(i) \/ Reopen(i)
    BY <2>3, CompensatePlays, UndoPlays, UndoingPlays, TimeoutPlays, SkipPendingPlays,
       CloseRunPlays, SweepRetryPlays, SweepSendPlays, SweepFailPlays, NeverHappens
  <2>4. QED
    BY <1>1, <2>1, <2>2, <2>3 DEF Step
<1>2. CASE Start(i) \/ Operator(i) \/ Crash(i) \/ Throw(i) \/ Redeliver(i)
  BY <1>2, DeliverPlays, SweepPlays, CancelPlays, NeverHappens, CrashPlays, RedeliverPlays
  DEF Start, Operator
<1>3. QED
  BY <1>1, <1>2

\* And whatever happens is a thread doing something, or time passing.
LEMMA EveryStepPlays ==
  ASSUME Orderly, RowInv, Next
  PROVE  (\E i \in Threads : Plays(i)) \/ PassDeadline
BY ThreadPlays DEF Next, Orderly

LEMMA RowInvStep ==
  ASSUME OneSweeper, Orderly, RowInv, [Next]_vars
  PROVE  RowInv'
<1>1. TypeOK'
  BY TypeStep DEF RowInv
<1>2. CASE UNCHANGED vars
  BY <1>2 DEF vars, run, rows, run, world, RowInv, TypeOK, ActivationOK, RunningMayRun, QueuedMayRun,
     OwnersAlone, SweptUnowned, Owns, Spared
<1>3. CASE Next
  BY <1>1, <1>3, EveryStepPlays, PlayingKeeps, DeadlinePasses
<1>4. QED
  BY <1>2, <1>3

(***************************************************************************)
(* A handler runs only while the steps it depends on are completed (or, at *)
(* an any-join, skipped), however its job came to be delivered, whichever  *)
(* calls die and whatever the sweeper puts back (executeStep,              *)
(* computeReadiness), in every orderly run with one sweeper.               *)
(***************************************************************************)
THEOREM HandlersSeeSettledDependencies ==
  ASSUME OneSweeper, Orderly
  PROVE  Spec => []RunsOnSettledDependencies
<1>1. Init => RowInv
  BY RowInvInit
<1>2. RowInv /\ [Next]_vars => RowInv'
  BY RowInvStep
<1>3. RowInv => RunsOnSettledDependencies
  BY Standing DEF GoodCall, Claims, UsableIn, Usable, RunsOnSettledDependencies, At
<1>4. QED
  BY <1>1, <1>2, <1>3, PTL DEF Spec

-----------------------------------------------------------------------------
(***************************************************************************)
(* The counters of the workflow row, the order of compensation, and, while *)
(* nobody cancels and no deadline expires, the verdict.                    *)
(***************************************************************************)
Uninterrupted == Never("cancel") /\ Never("deadline")

\* And nothing dies.
Undisturbed == Uninterrupted /\ Never("crash") /\ Never("callercrash")

Compensating == {"undo", "undoing"}
Closing == {"cancel", "cancelled", "expire", "expired"}

FailedIn(st)  == {s \in Steps : st[s] = "failed"}
VerdictOf(st) == IF FailedIn(st) # {} THEN "failed" ELSE "completed"

\* What is still to be undone is on the list of every call that is undoing.
UndoInv ==
  /\ UndoneBeforeDependencies
  /\ \A i \in Threads, e \in Compensable :
       th[i].pc \in Compensating /\ status[e] = "completed" => e \in th[i].todo

\* A verdict follows from rows that have all settled, and only a failed run is undone.
EndInv ==
  /\ \A i \in Threads : th[i].pc \notin Closing
  /\ wf # "running" => OverIn(status) /\ wf = VerdictOf(status)
  /\ \A i \in Threads : th[i].pc \in {"compensate"} \cup Compensating => wf = "failed"
  /\ \A s \in Steps : status[s] \in {"compensating", "compensated"} => wf = "failed"

\* Somebody is still undoing what is left.
CleanInv ==
  /\ \A s \in Steps : status[s] = "compensating" =>
       \E i \in Threads : th[i].pc = "undoing" /\ th[i].cur = s
  /\ wf = "failed" /\ (\E s \in Compensable : status[s] = "completed") =>
       \E i \in Threads : th[i].pc \in {"compensate"} \cup Compensating

-----------------------------------------------------------------------------
(***************************************************************************)
(* The counters: each increment goes with the row it counts, an undone     *)
(* step stays counted.                                                     *)
(***************************************************************************)
Tallied ==
  counts.completed = Cardinality(Done(status)) /\ counts.failed = Cardinality(FailedIn(status))

LEMMA OneMore ==
  ASSUME NEW S \in SUBSET Steps, NEW s \in Steps \ S
  PROVE  Cardinality(S \cup {s}) = Cardinality(S) + 1
BY EngineAssumption, FS_Subset, FS_AddElement

LEMMA TallyKeepsUp ==
  ASSUME RowInv, Tallied, NEW i \in Threads, Plays(i)
  PROVE  Tallied'
<1>1. /\ counts \in [completed : Nat, failed : Nat]
      /\ \A s \in Steps : Changes(s) =>
           \/ status[s] = "pending" /\ status'[s] \in {"skipped", "running"}
           \/ status[s] = "running" /\ status'[s] \in {"pending", "completed", "failed", "skipped"}
           \/ status[s] \in Effects /\ status'[s] \in Effects
  BY DEF RowInv, TypeOK, Plays, Lawful, Changes
<1>2. CASE \A s \in Steps : /\ s \in Done(status)' <=> s \in Done(status)
                            /\ s \in FailedIn(status)' <=> s \in FailedIn(status)
  <2>1. Done(status)' = Done(status) /\ FailedIn(status)' = FailedIn(status)
    BY <1>2 DEF Done, FailedIn
  <2>2. UNCHANGED counts
    <3>1. ASSUME NEW s \in Steps, Changes(s), status[s] = "running"
          PROVE  status'[s] \notin {"completed", "failed"}
      BY <1>1, <1>2, <3>1 DEF Done, FailedIn
    <3>2. QED
      BY <1>1, <3>1 DEF Plays, Shows, Tally
  <2>3. QED
    BY <2>1, <2>2 DEF Tallied
<1>3. CASE \E s \in Steps : \/ ~(s \in Done(status)' <=> s \in Done(status))
                            \/ ~(s \in FailedIn(status)' <=> s \in FailedIn(status))
  <2>1. PICK s \in Steps : \/ ~(s \in Done(status)' <=> s \in Done(status))
                           \/ ~(s \in FailedIn(status)' <=> s \in FailedIn(status))
    BY <1>3
  <2>2. Changes(s) /\ status[s] = "running" /\ status'[s] \in {"completed", "failed"}
    BY <1>1, <2>1 DEF Done, FailedIn, Changes
  <2>3. counts' = Tally(status'[s]) /\ \A r \in Steps \ {s} : status'[r] = status[r]
    BY <2>2 DEF Plays, Shows, Changes
  <2>4. CASE status'[s] = "completed"
    <3>1. Done(status)' = Done(status) \cup {s} /\ s \notin Done(status)
      BY <2>2, <2>3, <2>4 DEF Done
    <3>2. FailedIn(status)' = FailedIn(status)
      BY <2>2, <2>3, <2>4 DEF FailedIn
    <3>3. Done(status) \in SUBSET Steps
      BY DEF Done
    <3>4. QED
      BY <1>1, <2>3, <2>4, <3>1, <3>2, <3>3, OneMore DEF Tallied, Tally
  <2>5. CASE status'[s] = "failed"
    <3>1. FailedIn(status)' = FailedIn(status) \cup {s} /\ s \notin FailedIn(status)
      BY <2>2, <2>3, <2>5 DEF FailedIn
    <3>2. Done(status)' = Done(status)
      BY <2>2, <2>3, <2>5 DEF Done
    <3>3. FailedIn(status) \in SUBSET Steps
      BY DEF FailedIn
    <3>4. QED
      BY <1>1, <2>3, <2>5, <3>1, <3>2, <3>3, OneMore DEF Tallied, Tally
  <2>6. QED
    BY <2>2, <2>4, <2>5
<1>4. QED
  BY <1>2, <1>3

LEMMA TallyInit ==
  ASSUME Orderly, Init
  PROVE  Tallied
<1>1. status = [s \in Steps |-> "pending"]
  BY NoWaits DEF Init, Orderly, RowSet
<1>2. Done(status) = {} /\ FailedIn(status) = {}
  BY <1>1 DEF Done, FailedIn
<1>3. QED
  BY <1>2, FS_EmptySet DEF Init, Tallied

LEMMA TallyStep ==
  ASSUME Orderly, RowInv, Tallied, [Next]_vars
  PROVE  Tallied'
<1>1. CASE UNCHANGED <<status, counts>>
  BY <1>1 DEF Tallied, Done, FailedIn
<1>2. CASE UNCHANGED vars
  BY <1>1, <1>2 DEF vars
<1>3. CASE Next
  BY <1>1, <1>3, EveryStepPlays, TallyKeepsUp DEF PassDeadline, rows, run
<1>4. QED
  BY <1>2, <1>3

(***************************************************************************)
(* The counters of the workflow row count the step rows, whichever calls   *)
(* die between which writes and however often a step is undone             *)
(* (completeStep, failStep).                                               *)
(***************************************************************************)
THEOREM CountersAreKept ==
  ASSUME OneSweeper, Orderly
  PROVE  Spec => []CountsMatchRows
<1>1. Init => RowInv /\ Tallied
  BY RowInvInit, TallyInit
<1>2. RowInv /\ Tallied /\ [Next]_vars => (RowInv /\ Tallied)'
  BY RowInvStep, TallyStep
<1>3. RowInv /\ Tallied => CountsMatchRows
  BY DEF Tallied, FailedIn, CountsMatchRows
<1>4. QED
  BY <1>1, <1>2, <1>3, PTL DEF Spec

-----------------------------------------------------------------------------
(***************************************************************************)
(* The verdict and what is undone.  These actions write the verdict, undo  *)
(* or die; no other starts or stops undoing.                               *)
(***************************************************************************)
Ends(i) ==
  Finish(i) \/ CloseRun(i) \/ Compensate(i) \/ Undo(i) \/ Undoing(i) \/ Crash(i)

\* What an action that is none of these may do to the verdict and to what its call is at.
Aside(i) ==
  /\ UNCHANGED <<wf, late>>
  /\ \/ UNCHANGED <<th, status>>
     \/ /\ th[i].pc \notin {"compensate"} \cup Compensating
        /\ th'[i].pc \notin {"compensate"} \cup Compensating
        /\ th'[i].pc \in {"cancel", "expire"} => late \/ Spend("cancel")
        /\ th'[i].pc \in {"cancelled", "expired"} => th[i].pc \in {"cancel", "expire"}

USE DEF Compensating, Closing

LEMMA GoingAside ==
  ASSUME RowInv, NEW i \in Threads, NEW p, Goto(i, p), UNCHANGED <<wf, late>>,
         th[i].pc \notin {"compensate"} \cup Compensating,
         p \notin {"compensate"} \cup Compensating \cup Closing
  PROVE  Aside(i)
BY Standing DEF Goto, Aside

LEMMA BecomingAside ==
  ASSUME RowInv, NEW i \in Threads, NEW t, Become(i, t), UNCHANGED <<wf, late>>,
         th[i].pc \notin {"compensate"} \cup Compensating,
         t.pc \notin {"compensate"} \cup Compensating \cup Closing
  PROVE  Aside(i)
BY Standing DEF Become, Aside

LEMMA TurningAside ==
  ASSUME NEW i \in Threads, UNCHANGED <<wf, late>>,
         th[i].pc \notin {"compensate"} \cup Compensating,
         th'[i].pc \notin {"compensate"} \cup Compensating \cup Closing
  PROVE  Aside(i)
BY DEF Aside

LEMMA StepAside ==
  ASSUME RowInv, NEW i \in Threads, Step(i)
  PROVE  Ends(i) \/ Aside(i)
<1>1. CASE Begin(i)
  <2>1. th[i].pc = "begin" /\ UNCHANGED <<wf, late>>
    BY <1>1 DEF Begin, At, run, world
  <2>2. CASE late /\ Goto(i, "expire")
    BY <2>1, <2>2, Standing DEF Goto, Aside
  <2>3. CASE Goto(i, "frontier")
    BY <2>1, <2>3, GoingAside
  <2>4. CASE Rest(i)
    BY <2>1, <2>4, BecomingAside DEF Rest, Idle
  <2>5. CASE th' = [th EXCEPT ![i].pc = "claim", ![i].tries = attempts[th[i].cur] + 1]
    BY <2>1, <2>5, Standing DEF Aside
  <2>6. QED
    BY <1>1, <2>2, <2>3, <2>4, <2>5 DEF Begin
<1>2. CASE Claim(i) \/ Inputs(i)
  <2>1. th[i].pc \in {"claim", "inputs"} /\ UNCHANGED <<wf, late>>
    BY <1>2 DEF Claim, Inputs, At, run, world
  <2>2. Rest(i) \/ \E p \in {"inputs", "handler"} : Goto(i, p)
    BY <1>2 DEF Claim, Inputs
  <2>3. QED
    BY <2>1, <2>2, GoingAside, BecomingAside DEF Rest, Idle
<1>3. CASE Handle(i)
  <2>1. th[i].pc = "handler" /\ UNCHANGED <<wf, late>>
    BY <1>3 DEF Handle, At, run
  <2>2. PICK o \in Outcomes[th[i].cur] :
          Goto(i, CASE o = "declined"  -> "decline"
                    [] o = "ok"        -> IF th[i].cur \in Waits THEN "suspend" ELSE "complete"
                    [] o = "transient" -> IF th[i].tries < MaxAttempts[th[i].cur]
                                            THEN "requeue" ELSE "fail"
                    [] o = "fatal"     -> "fail")
    BY <1>3 DEF Handle
  <2>3. o \in Outcome
    BY <2>1, Claimed, EngineAssumption DEF Owning
  <2>4. \E p \in {"decline", "suspend", "complete", "requeue", "fail"} : Goto(i, p)
    BY <2>2, <2>3 DEF Outcome
  <2>5. QED
    BY <2>1, <2>4, GoingAside
<1>4. CASE Decline(i) \/ Suspend(i) \/ Requeue(i) \/ Resend(i) \/ Fail(i)
  <2>1. UNCHANGED <<wf, late>> /\ th[i].pc \in {"decline", "suspend", "requeue", "resend", "fail"}
    BY <1>4 DEF Decline, Suspend, Requeue, Resend, Fail, At, run, world
  <2>2. CASE Decline(i) \/ Fail(i)
    <3>1. th'[i].pc = "list"
      BY <2>2, Standing DEF Decline, Fail, Activation
    <3>2. QED
      BY <2>1, <3>1, TurningAside
  <2>3. CASE Suspend(i) \/ Requeue(i) \/ Resend(i)
    BY <2>1, <2>3, GoingAside, BecomingAside DEF Suspend, Requeue, Resend, Rest, Idle
  <2>4. QED
    BY <1>4, <2>2, <2>3
<1>5. CASE Complete(i) \/ Frontier(i) \/ Cascade(i)
  <2>1. UNCHANGED <<wf, late>> /\ th[i].pc \in {"complete", "frontier", "cascade"}
    BY <1>5 DEF Complete, Frontier, Cascade, At, run, world
  <2>2. CASE Complete(i)
    <3>1. th'[i].pc \in {"commit", "frontier"}
      BY <2>2, Standing DEF Complete, Goto, Activation
    <3>2. QED
      BY <2>1, <3>1, TurningAside
  <2>3. CASE Frontier(i)
    <3>1. th'[i].pc \in {"advance", "send"}
      BY <2>3, Standing DEF Frontier, Activation
    <3>2. QED
      BY <2>1, <3>1, TurningAside
  <2>4. CASE Cascade(i)
    <3>1. th'[i].pc \in {"cascade", "reread"}
      BY <2>4, Standing DEF Cascade, Activation, At
    <3>2. QED
      BY <2>1, <3>1, TurningAside
  <2>5. QED
    BY <1>5, <2>2, <2>3, <2>4
<1>6. CASE Commit(i) \/ Advance(i) \/ Send(i) \/ List(i) \/ Reread(i) \/ Unblock(i) \/ Terminate(i)
  <2>1. /\ UNCHANGED <<wf, late>>
        /\ th[i].pc \in {"commit", "advance", "send", "list", "reread", "unblock", "terminate"}
    BY <1>6 DEF Commit, Advance, Send, List, Reread, Unblock, Terminate, At, run, world
  <2>2. CASE Commit(i) \/ Advance(i) \/ List(i)
    BY <2>1, <2>2, Standing, Continuations, BecomingAside DEF Commit, Advance, List
  <2>3. CASE Send(i)
    <3>1. CASE Become(i, ToSettle(th[i], th[i].snap, {}))
      BY <2>1, <3>1, Standing, Continuations, BecomingAside
    <3>2. CASE \E s \in Steps : th' = [th EXCEPT ![i].todo = @ \ {s}]
      BY <2>1, <3>2, Standing, TurningAside
    <3>3. QED
      BY <2>3, <3>1, <3>2, Standing DEF Send, Activation
  <2>4. CASE Reread(i)
    <3>1. CASE Become(i, ToTerminate(th[i], status))
      BY <2>1, <3>1, Standing, Continuations, BecomingAside
    <3>2. ASSUME NEW D, th' = [th EXCEPT ![i].pc = "unblock", ![i].snap = status, ![i].todo = D]
          PROVE  Aside(i)
      <4>1. th'[i].pc = "unblock"
        BY <3>2, Standing DEF Activation
      <4>2. QED
        BY <2>1, <4>1, TurningAside
    <3>3. QED
      BY <2>4, <3>1, <3>2 DEF Reread
  <2>5. CASE Unblock(i)
    <3>1. PICK s : Become(i, IF th[i].todo = {s} THEN ToTerminate(th[i], th[i].snap)
                                                 ELSE [th[i] EXCEPT !.todo = @ \ {s}])
      BY <2>5 DEF Unblock
    <3>2. th'[i].pc \in {"idle", "terminate", "unblock"}
      BY <2>5, <3>1, Standing, Continuations DEF Become, Unblock, At
    <3>3. QED
      BY <2>1, <3>2, TurningAside
  <2>6. CASE Terminate(i)
    BY <2>1, <2>6, GoingAside, BecomingAside DEF Terminate, Rest, Idle
  <2>7. QED
    BY <1>6, <2>2, <2>3, <2>4, <2>5, <2>6
<1>7. CASE Finish(i) \/ CloseRun(i) \/ Compensate(i) \/ Undo(i) \/ Undoing(i)
  BY <1>7 DEF Ends
<1>8. CASE Timeout(i) \/ SkipPendingSteps(i)
  <2>1. UNCHANGED <<wf, late>> /\ th[i].pc \in {"timer", "cancel", "expire"}
    BY <1>8 DEF Timeout, SkipPendingSteps, At, run, world
  <2>2. CASE Timeout(i)
    BY <2>1, <2>2, GoingAside, BecomingAside DEF Timeout, Rest, Idle
  <2>3. CASE SkipPendingSteps(i)
    BY <2>1, <2>3, Standing DEF SkipPendingSteps, Goto, At, Aside
  <2>4. QED
    BY <1>8, <2>2, <2>3
<1>9. CASE SweepRetry(i) \/ SweepSend(i) \/ SweepFail(i)
  <2>1. UNCHANGED <<wf, late>> /\ th[i].pc \in {"sweep", "sweepSend"}
    BY <1>9 DEF SweepRetry, SweepSend, SweepFail, At, run, world
  <2>2. CASE SweepRetry(i)
    BY <2>1, <2>2, Standing, TurningAside DEF SweepRetry
  <2>3. CASE SweepSend(i) \/ SweepFail(i)
    <3>1. PICK t \in Activation : Become(i, NextSuspect(t))
      <4>1. CASE SweepSend(i)
        BY <4>1, NothingForbidden, Standing DEF SweepSend, Forbidden
      <4>2. CASE SweepFail(i)
        <5>1. PICK s : Become(i, NextSuspect([th[i] EXCEPT !.marks = @ \ {s}, !.tries = 1]))
          BY <4>2 DEF SweepFail
        <5>2. [th[i] EXCEPT !.marks = @ \ {s}, !.tries = 1] \in Activation
          BY Standing DEF Activation
        <5>3. QED
          BY <5>1, <5>2
      <4>3. QED
        BY <2>3, <4>1, <4>2
    <3>2. QED
      BY <2>1, <3>1, Continuations, BecomingAside
  <2>4. QED
    BY <1>9, <2>2, <2>3
<1>10. CASE Reset(i) \/ Recount(i) \/ Reopen(i)
  BY <1>10, NeverHappens
<1>11. QED
  BY <1>1, <1>2, <1>3, <1>4, <1>5, <1>6, <1>7, <1>8, <1>9, <1>10 DEF Step

LEMMA Otherwise ==
  ASSUME RowInv, NEW i \in Threads,
         Step(i) \/ Start(i) \/ Operator(i) \/ Crash(i) \/ Throw(i) \/ Redeliver(i)
  PROVE  Ends(i) \/ Aside(i)
<1>1. CASE Step(i)
  BY <1>1, StepAside
<1>2. CASE \E j \in Job : Deliver(i, j)
  <2>1. PICK j \in Job : Deliver(i, j)
    BY <1>2
  <2> DEFINE t == [Idle EXCEPT !.pc = IF j[1] = "execute" THEN "begin" ELSE "timer",
                               !.job = j, !.cur = j[2]]
  <2>2. Become(i, t) /\ t.pc \in {"begin", "timer"} /\ th[i].pc = "idle" /\ UNCHANGED <<wf, late>>
    BY <2>1 DEF Deliver, Idle, At, run, world
  <2> HIDE DEF t
  <2>3. QED
    BY <2>2, BecomingAside
<1>3. CASE Sweep(i)
  BY <1>3, Standing DEF Sweep, At, Become, Idle, run, Aside
<1>4. CASE Cancel(i)
  BY <1>4, Standing DEF Cancel, At, Become, Idle, run, Aside
<1>5. CASE Redeliver(i)
  BY <1>5 DEF Redeliver, run, rows, Aside
<1>6. CASE Crash(i)
  BY <1>6 DEF Ends
<1>7. QED
  BY <1>1, <1>2, <1>3, <1>4, <1>5, <1>6, NeverHappens DEF Start, Operator

-----------------------------------------------------------------------------
(***************************************************************************)
(* The order of compensation.                                              *)
(***************************************************************************)
\* Whoever undoes after an action undid before it, or has just listed what there is to undo.
LEMMA Undoers ==
  ASSUME RowInv, NEW i \in Threads, Ends(i) \/ Aside(i), th'[i].pc \in Compensating
  PROVE  th' = th \/ Compensate(i) \/ Undo(i) \/ Undoing(i)
<1>1. CASE Aside(i)
  BY <1>1 DEF Aside
<1>2. CASE Finish(i) \/ CloseRun(i) \/ Crash(i)
  <2>1. Rest(i) => th'[i].pc = "idle"
    BY Standing DEF Rest, Become, Idle
  <2>2. Goto(i, "compensate") => th'[i].pc = "compensate"
    BY Standing DEF Goto, Activation
  <2>3. th' = [th EXCEPT ![i].pc = "compensate", ![i].snap = None] => th'[i].pc = "compensate"
    BY Standing DEF Activation
  <2>4. QED
    BY <1>2, <2>1, <2>2, <2>3 DEF Finish, CloseRun, Crash
<1>3. QED
  BY <1>1, <1>2 DEF Ends

\* What such an action leaves to be undone.
LEMMA StillListed ==
  ASSUME RowInv, UndoInv, NEW i \in Threads, Compensate(i) \/ Undo(i) \/ Undoing(i),
         th'[i].pc \in Compensating, NEW e \in Compensable, status'[e] = "completed",
         status[e] = "completed"
  PROVE  e \in th'[i].todo
<1>1. e \in Steps
  BY EngineAssumption
<1>2. CASE Compensate(i)
  <2> DEFINE D == {s \in Compensable : status[s] = "completed"}
  <2>1. th'[i] = ToUndo(th[i], D) /\ e \in D
    BY <1>2, Standing DEF Compensate, Become
  <2> HIDE DEF D
  <2>2. QED
    BY <2>1, Standing DEF ToUndo, Activation
<1>3. CASE Undo(i)
  <2>1. PICK s \in th[i].todo :
          /\ status' = [status EXCEPT ![s] = "compensating"]
          /\ th' = [th EXCEPT ![i].pc = "undoing", ![i].cur = s, ![i].todo = @ \ {s}]
    BY <1>3 DEF Undo, SetStatus
  <2>2. e # s
    <3>1. s \in Steps => status'[s] = "compensating"
      BY <2>1, Standing DEF Rows
    <3>2. QED
      BY <1>1, <3>1
  <2>3. e \in th[i].todo
    BY <1>3 DEF UndoInv, Undo, At
  <2>4. th'[i].todo = th[i].todo \ {s}
    BY <2>1, Standing DEF Activation
  <2>5. QED
    BY <2>2, <2>3, <2>4
<1>4. CASE Undoing(i)
  <2>1. e \in th[i].todo
    BY <1>4 DEF UndoInv, Undoing, At
  <2>2. th'[i] = ToUndo(th[i], th[i].todo)
    BY <1>4, Standing DEF Undoing, Become
  <2>3. QED
    BY <2>1, <2>2, Standing DEF ToUndo, Activation
<1>5. QED
  BY <1>2, <1>3, <1>4

\* A step starts being undone only when nothing built on it is in place.
LEMMA OrderKept ==
  ASSUME RowInv, UndoInv, NEW i \in Threads, Plays(i), Ends(i) \/ Aside(i),
         NEW s \in Steps, NEW e \in Compensable, s \in Deps[e],
         status'[s] \in {"compensating", "compensated"}, status'[e] = "completed"
  PROVE  FALSE
<1>1. e \in Steps /\ Lawful(status, status') /\ SoundRows(status)
  BY EngineAssumption, Standing DEF Plays
<1>2. CASE status[e] # "completed"
  <2>1. status[e] = "running" /\ Changes(e) /\ ~OverIn(status)
    BY <1>1, <1>2 DEF Lawful, Changes, OverIn
  <2>2. status'[s] = status[s]
    BY <1>1, <2>1 DEF Plays, Shows, Changes, Lawful
  <2>3. QED
    BY <1>1, <2>1, <2>2 DEF SoundRows
<1>3. CASE status[e] = "completed"
  <2>1. status[s] \notin {"compensating", "compensated"}
    BY <1>3 DEF UndoInv, UndoneBeforeDependencies
  <2>2. Changes(s) /\ th[i].pc \in {"undo", "undoing"}
    <3>1. status[s] = "completed" /\ Changes(s)
      BY <1>1, <2>1 DEF Lawful, Changes
    <3>2. QED
      BY <3>1 DEF Plays, Shows
  <2>3. e \in th[i].todo
    BY <1>3, <2>2 DEF UndoInv
  <2>4. CASE Undo(i)
    <3>1. PICK r \in th[i].todo : /\ \A t \in th[i].todo : r \notin Deps[t]
                                  /\ status' = [status EXCEPT ![r] = "compensating"]
      BY <2>4 DEF Undo, SetStatus
    <3>2. s = r
      BY <2>2, <3>1, Standing DEF Changes
    <3>3. QED
      BY <2>3, <3>1, <3>2
  <2>5. CASE Undoing(i)
    <3>1. status' = [status EXCEPT ![th[i].cur] = "compensated"] /\ th[i].pc = "undoing"
      BY <2>5 DEF Undoing, SetStatus, At
    <3>2. status[th[i].cur] \in {"compensating", "compensated"}
      BY <3>1, Standing DEF GoodCall, Undoes
    <3>3. s # th[i].cur
      BY <2>1, <3>2
    <3>4. QED
      BY <2>2, <3>1, <3>3, Standing DEF Changes
  <2>6. CASE UNCHANGED status
    BY <2>2, <2>6 DEF Changes
  <2>7. Undo(i) \/ Undoing(i) \/ UNCHANGED status
    <3>1. CASE Aside(i)
      BY <2>2, <3>1 DEF Aside
    <3>2. CASE Finish(i) \/ CloseRun(i) \/ Compensate(i) \/ Crash(i)
      BY <3>2 DEF Finish, CloseRun, Compensate, Crash, rows
    <3>3. QED
      BY <3>1, <3>2 DEF Ends
  <2>8. QED
    BY <2>4, <2>5, <2>6, <2>7
<1>4. QED
  BY <1>2, <1>3

\* Once everything has settled nothing becomes completed.
LEMMA NothingNewDone ==
  ASSUME RowInv, NEW i \in Threads, Plays(i), OverIn(status),
         NEW e \in Steps, status'[e] = "completed"
  PROVE  status[e] = "completed"
BY DEF Plays, Lawful, OverIn

LEMMA UndoInvKept ==
  ASSUME RowInv, UndoInv, NEW i \in Threads, Plays(i), Ends(i) \/ Aside(i)
  PROVE  UndoInv'
<1>1. UndoneBeforeDependencies'
  BY OrderKept DEF UndoneBeforeDependencies
<1>2. ASSUME NEW k \in Threads, NEW e \in Compensable,
             th'[k].pc \in Compensating, status'[e] = "completed"
      PROVE  e \in th'[k].todo
  <2>1. e \in Steps
    BY EngineAssumption
  <2>2. CASE th'[k] = th[k]
    <3>1. OverIn(status)
      BY <1>2, <2>2, Standing DEF GoodCall, Undoes
    <3>2. QED
      BY <1>2, <2>1, <2>2, <3>1, NothingNewDone DEF UndoInv
  <2>3. CASE th'[k] # th[k]
    <3>1. k = i
      BY <2>3 DEF Plays
    <3>2. Compensate(i) \/ Undo(i) \/ Undoing(i)
      BY <1>2, <2>3, <3>1, Undoers
    <3>3. status[e] = "completed"
      <4>1. CASE Compensate(i)
        BY <1>2, <4>1 DEF Compensate, rows
      <4>2. CASE Undo(i) \/ Undoing(i)
        <5>1. OverIn(status)
          BY <4>2, Standing DEF GoodCall, Undoes, Undo, Undoing, At
        <5>2. QED
          BY <1>2, <2>1, <5>1, NothingNewDone
      <4>3. QED
        BY <3>2, <4>1, <4>2
    <3>4. QED
      BY <1>2, <3>1, <3>2, <3>3, StillListed
  <2>4. QED
    BY <2>2, <2>3
<1>3. QED
  BY <1>1, <1>2 DEF UndoInv

LEMMA UndoInvInit ==
  ASSUME Orderly, Init
  PROVE  UndoInv
<1>1. status = [s \in Steps |-> "pending"]
  BY NoWaits DEF Init, Orderly, RowSet
<1>2. \A i \in Threads : th[i].pc = "idle"
  BY DEF Init, Idle
<1>3. QED
  BY <1>1, <1>2, GraphAssumption, EngineAssumption DEF UndoInv, UndoneBeforeDependencies

\* Who acts plays by the rules, and ends the run or keeps aside.
LEMMA Acts ==
  ASSUME Orderly, RowInv, Next
  PROVE  (\E i \in Threads : Plays(i) /\ (Ends(i) \/ Aside(i))) \/ PassDeadline
<1>1. Waits = {}
  BY DEF Orderly
<1>2. ASSUME NEW i \in Threads,
             Step(i) \/ Start(i) \/ Operator(i) \/ Crash(i) \/ Throw(i) \/ Redeliver(i)
      PROVE  Plays(i)
  BY <1>1, <1>2, ThreadPlays
<1>3. QED
  BY <1>2, Otherwise DEF Next

LEMMA UndoInvStep ==
  ASSUME Orderly, RowInv, UndoInv, [Next]_vars
  PROVE  UndoInv'
<1>1. CASE UNCHANGED <<status, th>>
  BY <1>1 DEF UndoInv, UndoneBeforeDependencies
<1>2. CASE UNCHANGED vars
  BY <1>1, <1>2 DEF vars
<1>3. CASE Next
  BY <1>1, <1>3, Acts, UndoInvKept DEF PassDeadline, rows
<1>4. QED
  BY <1>2, <1>3

-----------------------------------------------------------------------------
(***************************************************************************)
(* The verdict.                                                            *)
(***************************************************************************)
\* Rows that have settled keep their verdict.
LEMMA VerdictStays ==
  ASSUME RowInv, NEW i \in Threads, Plays(i), OverIn(status)
  PROVE  OverIn(status') /\ VerdictOf(status') = VerdictOf(status)
<1>1. Lawful(status, status')
  BY DEF Plays
<1>2. \A s \in Steps : status'[s] = "failed" <=> status[s] = "failed"
  BY <1>1 DEF Lawful, OverIn
<1>3. FailedIn(status') = FailedIn(status)
  BY <1>2 DEF FailedIn
<1>4. QED
  BY <1>1, <1>3, OverStays DEF VerdictOf

\* Only a settle writes a verdict, and it is the one of the rows.
LEMMA Verdict ==
  ASSUME RowInv, EndInv, NEW i \in Threads, Finish(i)
  PROVE  /\ OverIn(status) /\ UNCHANGED status /\ wf' = VerdictOf(status)
         /\ wf # "running" => wf' = wf
         /\ wf' = "failed" => th'[i].pc = "compensate"
         /\ wf' = "completed" => th'[i].pc = "idle"
<1>1. th[i].pc = "finish" /\ UNCHANGED status
  BY DEF Finish, At, rows
<1>2. /\ OverIn(status)
      /\ (\E s \in Steps : th[i].snap[s] = "failed") <=> FailedIn(status) # {}
  BY <1>1, SeenSettled DEF FailedIn
<1>3. CASE FailedIn(status) # {}
  <2>1. wf' = "failed" /\ th' = [th EXCEPT ![i].pc = "compensate", ![i].snap = None]
    BY <1>2, <1>3 DEF Finish
  <2>2. th'[i].pc = "compensate"
    BY <2>1, Standing DEF Activation
  <2>3. QED
    BY <1>1, <1>2, <1>3, <2>1, <2>2 DEF VerdictOf, EndInv
<1>4. CASE FailedIn(status) = {}
  <2>1. wf' = "completed" /\ Rest(i)
    BY <1>2, <1>4 DEF Finish
  <2>2. th'[i].pc = "idle"
    BY <2>1, Standing DEF Rest, Become, Idle
  <2>3. QED
    BY <1>1, <1>2, <1>4, <2>1, <2>2 DEF VerdictOf, EndInv
<1>5. QED
  BY <1>3, <1>4

\* What no verdict hangs on: nobody cancels or expires the run, and only Finish writes.
LEMMA NotClosing ==
  ASSUME Uninterrupted, RowInv, EndInv, NEW i \in Threads, Plays(i), Ends(i) \/ Aside(i)
  PROVE  /\ \A k \in Threads : th'[k].pc \notin Closing
         /\ UNCHANGED wf \/ Finish(i)
<1>1. ~late /\ ~Spend("cancel")
  BY DEF RowInv, Spared, Uninterrupted, Spend, Events
<1>2. ~CloseRun(i)
  BY DEF CloseRun, EndInv, At
<1>3. UNCHANGED wf \/ Finish(i)
  BY <1>2 DEF Ends, Aside, Compensate, Undo, Undoing, Crash, run
<1>4. th'[i].pc \notin Closing
  <2>1. CASE Aside(i)
    BY <1>1, <2>1 DEF Aside, EndInv
  <2>2. CASE Finish(i)
    BY <2>2, Verdict DEF VerdictOf
  <2>3. CASE Compensate(i)
    <3>1. \E D : th'[i] = ToUndo(th[i], D)
      BY <2>3, Standing DEF Compensate, Become
    <3>2. QED
      BY <3>1, Continuations, Standing
  <2>4. CASE Undo(i)
    <3>1. th'[i].pc = "undoing"
      BY <2>4, Standing DEF Undo, Activation
    <3>2. QED
      BY <3>1
  <2>5. CASE Undoing(i)
    <3>1. th'[i] = ToUndo(th[i], th[i].todo)
      BY <2>5, Standing DEF Undoing, Become
    <3>2. QED
      BY <3>1, Continuations, Standing
  <2>6. CASE Crash(i)
    BY <2>6, Standing DEF Crash, Rest, Become, Idle
  <2>7. QED
    BY <1>2, <2>1, <2>2, <2>3, <2>4, <2>5, <2>6 DEF Ends
<1>5. QED
  BY <1>3, <1>4 DEF Plays, EndInv

LEMMA EndInvKept ==
  ASSUME Uninterrupted, RowInv, EndInv, NEW i \in Threads, Plays(i), Ends(i) \/ Aside(i)
  PROVE  EndInv'
<1>1. \A k \in Threads : th'[k].pc \notin Closing
  BY NotClosing
<1>2. wf' # "running" => OverIn(status') /\ wf' = VerdictOf(status')
  <2>1. CASE UNCHANGED wf
    BY <2>1, VerdictStays DEF EndInv
  <2>2. CASE Finish(i)
    BY <2>2, Verdict
  <2>3. QED
    BY <2>1, <2>2, NotClosing
<1>3. wf = "failed" => wf' = "failed"
  BY NotClosing, Verdict
<1>4. ASSUME NEW k \in Threads, th'[k].pc \in {"compensate"} \cup Compensating
      PROVE  wf' = "failed"
  <2>1. CASE th'[k] = th[k]
    BY <1>3, <1>4, <2>1 DEF EndInv
  <2>2. CASE th'[k] # th[k]
    <3>1. k = i
      BY <2>2 DEF Plays
    <3>2. CASE th'[i].pc \in Compensating
      <4>1. th[i].pc \in {"compensate"} \cup Compensating
        BY <2>2, <3>1, <3>2, Undoers DEF Compensate, Undo, Undoing, At
      <4>2. QED
        BY <1>3, <4>1 DEF EndInv
    <3>3. CASE th'[i].pc = "compensate"
      <4>1. Finish(i)
        <5>1. ~Aside(i) /\ ~CloseRun(i)
          BY <2>2, <3>1, <3>3 DEF Aside, CloseRun, EndInv, At
        <5>2. ~Crash(i)
          BY <3>3, Standing DEF Crash, Rest, Become, Idle
        <5>3. ~Compensate(i) /\ ~Undoing(i)
          BY <3>3, Standing, Continuations DEF Compensate, Undoing, Become
        <5>4. ~Undo(i)
          <6>1. Undo(i) => th'[i].pc = "undoing"
            BY Standing DEF Undo, Activation
          <6>2. QED
            BY <3>3, <6>1
        <5>5. QED
          BY <5>1, <5>2, <5>3, <5>4 DEF Ends
      <4>2. QED
        BY <3>3, <4>1, Verdict DEF VerdictOf
    <3>4. QED
      BY <1>4, <3>1, <3>2, <3>3
  <2>3. QED
    BY <2>1, <2>2
<1>5. ASSUME NEW s \in Steps, status'[s] \in {"compensating", "compensated"}
      PROVE  wf' = "failed"
  <2>1. CASE ~Changes(s)
    BY <1>3, <1>5, <2>1 DEF EndInv, Changes
  <2>2. CASE Changes(s)
    <3>1. status[s] \in Effects
      BY <1>5, <2>2 DEF Plays, Lawful, Changes
    <3>2. th[i].pc \in Compensating
      BY <2>2, <3>1 DEF Plays, Shows
    <3>3. QED
      BY <1>3, <3>2 DEF EndInv
  <2>3. QED
    BY <2>1, <2>2
<1>6. QED
  BY <1>1, <1>2, <1>4, <1>5 DEF EndInv

LEMMA EndInvInit ==
  ASSUME Orderly, Init
  PROVE  EndInv
<1>1. status = [s \in Steps |-> "pending"] /\ wf = "running"
  BY NoWaits DEF Init, Orderly, RowSet
<1>2. \A i \in Threads : th[i].pc = "idle"
  BY DEF Init, Idle
<1>3. QED
  BY <1>1, <1>2 DEF EndInv

LEMMA EndInvStep ==
  ASSUME Orderly, Uninterrupted, RowInv, EndInv, [Next]_vars
  PROVE  EndInv'
<1>1. CASE UNCHANGED <<wf, status, th>>
  BY <1>1 DEF EndInv, VerdictOf, FailedIn, OverIn
<1>2. CASE UNCHANGED vars
  BY <1>1, <1>2 DEF vars
<1>3. CASE Next
  BY <1>1, <1>3, Acts, EndInvKept DEF PassDeadline, rows, run
<1>4. QED
  BY <1>2, <1>3

-----------------------------------------------------------------------------
(***************************************************************************)
(* When no operator cancels and no deadline passes, the workflow row says  *)
(* what the step rows say: it is completed only over completed and skipped *)
(* steps, failed only once every step has settled and one has failed, and  *)
(* its counters count them (terminateIfSettled, completeStep, failStep).   *)
(***************************************************************************)
THEOREM VerdictsAreJustified ==
  ASSUME OneSweeper, Orderly, Uninterrupted
  PROVE  Spec => []RunRowMatchesSteps
<1> DEFINE Inv == RowInv /\ EndInv /\ Tallied
<1>1. Init => Inv
  BY RowInvInit, EndInvInit, TallyInit
<1>2. Inv /\ [Next]_vars => Inv'
  BY RowInvStep, EndInvStep, TallyStep
<1>3. Inv => RunRowMatchesSteps
  <2> SUFFICES ASSUME Inv PROVE RunRowMatchesSteps
    OBVIOUS
  <2>1. CountsMatchRows
    BY DEF Tallied, FailedIn, CountsMatchRows
  <2>2. ASSUME wf = "completed", NEW s \in Steps
        PROVE  status[s] \in {"completed", "skipped"}
    BY <2>2 DEF EndInv, OverIn, VerdictOf, FailedIn
  <2>3. ASSUME wf = "failed"
        PROVE  /\ \A s \in Steps : status[s] \in TerminalStatuses \cup {"compensating"}
               /\ \E s \in Steps : status[s] = "failed"
    BY <2>3 DEF EndInv, OverIn, VerdictOf, FailedIn, TerminalStatuses
  <2>4. QED
    BY <2>1, <2>2, <2>3 DEF RunRowMatchesSteps, VerdictMatchesRows
<1>4. QED
  BY <1>1, <1>2, <1>3, PTL DEF Spec

-----------------------------------------------------------------------------
(***************************************************************************)
(* What an action of a run that nobody interrupts does.                    *)
(***************************************************************************)
LEMMA UninterruptedActs ==
  ASSUME Orderly, Uninterrupted, RowInv, EndInv, [Next]_vars
  PROVE  \/ UNCHANGED <<wf, status>>
         \/ \E i \in Threads : Plays(i) /\ (UNCHANGED wf \/ Finish(i))
<1>1. CASE UNCHANGED vars
  BY <1>1 DEF vars
<1>2. CASE Next
  BY <1>2, Acts, NotClosing DEF PassDeadline, rows, run
<1>3. QED
  BY <1>1, <1>2

\* A settled row changes only while a failed run is being undone.
LEMMA RowsStay ==
  ASSUME RowInv, EndInv, NEW i \in Threads, Plays(i), NEW s \in Steps,
         status[s] \in TerminalStatuses, status'[s] # status[s]
  PROVE  /\ wf = "failed"
         /\ <<status[s], status'[s]>> \in {"completed", "compensated"} \X {"compensating"}
<1>1. OverIn(status) /\ <<status[s], status'[s]>> \in Undoings
  BY DEF Plays, Lawful, TerminalStatuses
<1>2. status[s] \in Effects /\ Changes(s)
  BY <1>1 DEF Changes
<1>3. th[i].pc \in Compensating
  BY <1>2 DEF Plays, Shows
<1>4. QED
  BY <1>1, <1>3 DEF EndInv, TerminalStatuses

(***************************************************************************)
(* Neither a settled row nor a verdict comes back: when nobody retries the *)
(* run, a settled step changes only to be undone, in a failed run, and the *)
(* verdict is written once, by whichever of the concurrent settles comes   *)
(* first (terminateIfSettled, compensateWorkflow).                         *)
(***************************************************************************)
THEOREM NothingComesBack ==
  ASSUME OneSweeper, Orderly, Uninterrupted
  PROVE  Spec => NothingRevives
<1> DEFINE Inv == RowInv /\ EndInv
<1> DEFINE Rowwise == \A s \in Steps :
       status[s] \in TerminalStatuses /\ status'[s] # status[s] =>
         wf = "failed" /\ <<status[s], status'[s]>> \in
           ({"completed", "compensated"} \X {"compensating"})
             \cup ({"failed", "skipped", "compensated"} \X {"pending"})
<1> DEFINE Once == wf # "running" /\ wf' # wf => wf = "failed" /\ \E i \in Threads : At(i, "reopen")
<1>1. Init => Inv
  BY RowInvInit, EndInvInit
<1>2. Inv /\ [Next]_vars => Inv'
  BY RowInvStep, EndInvStep
<1>3. Inv /\ [Next]_vars => [Rowwise]_vars
  BY UninterruptedActs, RowsStay
<1>4. Inv /\ [Next]_vars => [Once]_vars
  BY UninterruptedActs, Verdict
<1>5. Spec => [][Rowwise]_vars
  BY <1>1, <1>2, <1>3, PTL DEF Spec
<1>6. Spec => [][Once]_vars
  BY <1>1, <1>2, <1>4, PTL DEF Spec
<1>7. QED
  BY <1>5, <1>6 DEF NothingRevives, TerminalStays, VerdictIsFinal

(***************************************************************************)
(* In particular a late answer, a duplicate or a sweep never overwrites a  *)
(* row that has settled (markStepRunning, completeStep, failStep).         *)
(***************************************************************************)
COROLLARY SettledRowsStay ==
  ASSUME OneSweeper, Orderly, Uninterrupted
  PROVE  Spec => TerminalStays
BY NothingComesBack, PTL DEF NothingRevives

-----------------------------------------------------------------------------
(***************************************************************************)
(* The promise of DagRun.                                                  *)
(***************************************************************************)
Shown == [s \in Steps |-> RowOf(status[s])]

LEMMA SameQuestions ==
  /\ \A st : Promise!SkipPlan(st) = SkipPlan(st)
  /\ \A st : Promise!ReadyPlan(st) = ReadyPlan(st)
  /\ \A st : Promise!AllTerminal(st) <=> AllTerminal(st)
<1>1. \A st : Promise!Pending(st) = Pending(st)
  BY DEF Promise!Pending, Pending
<1>2. \A st, P, s : Promise!DepStates(st, P, s) = DepStates(st, P, s)
  BY DEF Promise!DepStates, DepStates, Promise!StatusOf, StatusOf
<1>3. \A st, P, s : Promise!Blocked(st, P, s) <=> Blocked(st, P, s)
  BY <1>2 DEF Promise!Blocked, Blocked, Promise!TerminalStatuses, TerminalStatuses
<1>4. \A st, P, s : Promise!Satisfied(st, P, s) <=> Satisfied(st, P, s)
  BY <1>2 DEF Promise!Satisfied, Satisfied, Promise!TerminalStatuses, TerminalStatuses
<1>5. \A st, P : Promise!Closed(st, P) <=> Closed(st, P)
  BY <1>1, <1>3 DEF Promise!Closed, Closed
<1>6. \A st : Promise!SkipPlan(st) = SkipPlan(st)
  BY <1>1, <1>5 DEF Promise!SkipPlan, SkipPlan
<1>7. \A st : Promise!ReadyPlan(st) = ReadyPlan(st)
  BY <1>1, <1>4, <1>6 DEF Promise!ReadyPlan, ReadyPlan
<1>8. \A st : Promise!AllTerminal(st) <=> AllTerminal(st)
  BY DEF Promise!AllTerminal, AllTerminal, Promise!TerminalStatuses, TerminalStatuses
<1>9. QED
  BY <1>6, <1>7, <1>8

\* Until every step has settled the rows are the promised ones.
LEMMA ShownAsIs ==
  ASSUME NEW st \in RowSet, \A s \in Steps : st[s] \notin {"compensating", "compensated"}
  PROVE  [s \in Steps |-> RowOf(st[s])] = st
BY DEF RowSet, RowOf, Settled, Effects

LEMMA PromiseInit ==
  ASSUME Orderly, Init
  PROVE  Promise!Init
<1>1. wf = "running" /\ status = [s \in Steps |-> "pending"]
  BY NoWaits DEF Init, Orderly, RowSet
<1>2. Shown = [s \in Steps |-> "pending"]
  BY <1>1 DEF Shown, RowOf
<1>3. Promise!Began([s \in Steps |-> "pending"], {}) = [s \in Steps |-> "pending"]
  BY DEF Promise!Began
<1>4. QED
  BY <1>1, <1>2, <1>3 DEF Promise!Init, Shown

\* Undoing does not show, and the verdict is the promised one.
LEMMA SettledImplements ==
  ASSUME RowInv, EndInv, NEW i \in Threads, Plays(i), UNCHANGED wf \/ Finish(i),
         OverIn(status)
  PROVE  Promise!Next \/ UNCHANGED <<wf, Shown>>
<1>1. \A s \in Steps : RowOf(status'[s]) = RowOf(status[s])
  BY DEF Plays, Lawful, OverIn, Settled, Effects, Undoings, RowOf
<1>2. UNCHANGED Shown
  BY <1>1 DEF Shown
<1>3. CASE wf' # wf
  <2>1. wf = "running" /\ wf' = VerdictOf(status)
    BY <1>3, Verdict
  <2>2. AllTerminal(Shown)
    BY DEF AllTerminal, Shown, OverIn, Settled, Effects, RowOf, TerminalStatuses
  <2>3. \A s \in Steps : Shown[s] = "failed" <=> status[s] = "failed"
    BY DEF Shown, OverIn, Settled, Effects, RowOf
  <2>4. wf' = IF \E s \in Steps : Shown[s] = "failed" THEN "failed" ELSE "completed"
    BY <2>1, <2>3 DEF VerdictOf, FailedIn
  <2>5. Promise!Finish
    BY <1>2, <2>1, <2>2, <2>4, SameQuestions DEF Promise!Finish, Shown
  <2>6. QED
    BY <2>5 DEF Promise!Next
<1>4. QED
  BY <1>2, <1>3

\* Before that each change of a row is one the promise allows.
LEMMA ChangeImplements ==
  ASSUME RowInv, EndInv, NEW i \in Threads, Plays(i), ~OverIn(status), UNCHANGED wf,
         status \in RowSet, Shown = status, Shown' = status'
  PROVE  Promise!Next \/ UNCHANGED Shown
<1>1. CASE \A s \in Steps : ~Changes(s)
  <2>1. \A s \in Steps : RowOf(status'[s]) = RowOf(status[s])
    BY <1>1 DEF Changes
  <2>2. QED
    BY <2>1 DEF Shown
<1>2. CASE \E s \in Steps : Changes(s)
  <2>1. PICK s \in Steps : /\ Changes(s) /\ \A r \in Steps \ {s} : ~Changes(r)
                           /\ status[s] = "pending" /\ status'[s] = "skipped" => s \in SkipPlan(status)
    BY <1>2 DEF Plays, Shows, EndInv
  <2>2. status' = [status EXCEPT ![s] = status'[s]]
    BY <2>1 DEF Plays, Lawful, RowSet, Changes
  <2>3. \A x : [status EXCEPT ![s] = x] = Promise!Began([status EXCEPT ![s] = x], {})
    BY DEF Promise!Began, RowSet
  <2>4. CASE status[s] = "pending" /\ status'[s] = "skipped"
    <3>1. Promise!Prune(s)
      BY <2>1, <2>2, <2>4, SameQuestions DEF Promise!Prune, Shown
    <3>2. QED
      BY <3>1 DEF Promise!Next
  <2>5. CASE status[s] = "pending" /\ status'[s] = "running" /\ Satisfied(status, SkipPlan(status), s)
    <3>1. s \in ReadyPlan(status)
      BY <2>5, SatisfiedIsNotPlanned DEF ReadyPlan, Pending
    <3>2. [status EXCEPT ![s] = "running"] = Promise!Began(status, {s})
      BY DEF Promise!Began, RowSet
    <3>3. Promise!Start({s})
      BY <2>2, <2>5, <3>1, <3>2, SameQuestions DEF Promise!Start, Shown
    <3>4. QED
      BY <3>3 DEF Promise!Next
  <2>6. CASE status[s] = "running" /\ status'[s] = "pending"
    <3>1. Promise!GiveBack(s)
      BY <2>2, <2>6 DEF Promise!GiveBack, Shown
    <3>2. QED
      BY <3>1 DEF Promise!Next
  <2>7. CASE status[s] = "running" /\ status'[s] \in {"completed", "failed", "skipped"}
    <3>1. Promise!Settle(s, status'[s], {})
      BY <2>2, <2>3, <2>7 DEF Promise!Settle, Shown
    <3>2. QED
      BY <2>7, <3>1 DEF Promise!Next
  <2>8. QED
    BY <2>1, <2>4, <2>5, <2>6, <2>7 DEF Plays, Lawful, Changes
<1>3. QED
  BY <1>1, <1>2

LEMMA PromiseStep ==
  ASSUME Orderly, Uninterrupted, RowInv, EndInv, [Next]_vars
  PROVE  [Promise!Next]_(Promise!vars)
<1>1. CASE UNCHANGED <<wf, status>>
  BY <1>1 DEF Promise!vars
<1>2. ASSUME NEW i \in Threads, Plays(i), UNCHANGED wf \/ Finish(i)
      PROVE  [Promise!Next]_(Promise!vars)
  <2>1. CASE OverIn(status)
    BY <1>2, <2>1, SettledImplements DEF Promise!vars, Shown
  <2>2. CASE ~OverIn(status)
    <3>1. UNCHANGED wf
      BY <1>2, <2>2, Verdict
    <3>2. /\ status \in RowSet /\ status' \in RowSet
          /\ \A s \in Steps : /\ status[s] \notin {"compensating", "compensated"}
                              /\ status'[s] \notin {"compensating", "compensated"}
      BY <1>2, <2>2, Standing DEF Plays, Lawful, SoundRows
    <3>3. Shown = status /\ Shown' = status'
      BY <3>2, ShownAsIs DEF Shown
    <3>4. QED
      BY <1>2, <2>2, <3>1, <3>2, <3>3, ChangeImplements DEF Promise!vars, Shown
  <2>3. QED
    BY <2>1, <2>2
<1>3. QED
  BY <1>1, <1>2, UninterruptedActs

(***************************************************************************)
(* The engine implements DagRun: whatever stale snapshots its calls act    *)
(* on, whichever of them die and however often their jobs are delivered, a *)
(* step starts only when the rows of that moment satisfy its join, is      *)
(* pruned only when they doom it, settles once, and the run ends when all  *)
(* have settled (dispatchNewlyReady, settle, docs/core/dags.md), in every  *)
(* orderly run with one sweeper that nobody cancels and no deadline ends.  *)
(***************************************************************************)
THEOREM EngineImplementsPromise ==
  ASSUME OneSweeper, Orderly, Uninterrupted
  PROVE  Spec => ImplementsDagRun
<1> DEFINE Inv == RowInv /\ EndInv
<1>1. Init => Inv /\ Promise!Init
  BY RowInvInit, EndInvInit, PromiseInit
<1>2. Inv /\ [Next]_vars => Inv'
  BY RowInvStep, EndInvStep
<1>3. Inv /\ [Next]_vars => [Promise!Next]_(Promise!vars)
  BY PromiseStep
<1>4. QED
  BY <1>1, <1>2, <1>3, PTL DEF Spec, ImplementsDagRun, Promise!Spec

-----------------------------------------------------------------------------
(***************************************************************************)
(* What a failed run leaves behind.                                        *)
(***************************************************************************)
LEMMA NoDeath ==
  ASSUME Undisturbed, RowInv, NEW i \in Threads
  PROVE  ~Crash(i)
<1>1. ~Spend("crash") /\ ~Spend("callercrash") /\ ~Spend("deadletter")
  BY NothingForbidden DEF RowInv, Spared, Undisturbed, Spend, Events, Forbidden
<1>2. QED
  BY <1>1 DEF Crash

\* Calls that are undoing go on undoing while another call acts.
LEMMA StillUndoing ==
  ASSUME NEW i \in Threads, NEW k \in Threads, Plays(i),
         th[k].pc \in {"compensate"} \cup Compensating,
         th[i].pc \notin {"compensate"} \cup Compensating
  PROVE  th'[k] = th[k]
BY DEF Plays

\* In a run that is over, what is in place was in place.
LEMMA InPlaceBefore ==
  ASSUME RowInv, EndInv, wf # "running", NEW i \in Threads, Plays(i),
         NEW e \in Compensable, status'[e] = "completed"
  PROVE  status[e] = "completed"
<1>1. e \in Steps
  BY EngineAssumption
<1>2. QED
  BY <1>1, NothingNewDone DEF EndInv

LEMMA AsideLeavesClean ==
  ASSUME RowInv, EndInv, CleanInv, NEW i \in Threads, Plays(i), Aside(i)
  PROVE  CleanInv'
<1>1. CASE UNCHANGED <<th, status>>
  BY <1>1 DEF Aside, CleanInv
<1>2. CASE th[i].pc \notin {"compensate"} \cup Compensating
  <2>1. ASSUME NEW s \in Steps, status'[s] = "compensating"
        PROVE  \E k \in Threads : th'[k].pc = "undoing" /\ th'[k].cur = s
    <3>1. status[s] = "compensating"
      BY <1>2, <2>1 DEF Plays, Shows, Changes, Lawful, Undoings, Effects
    <3>2. PICK k \in Threads : th[k].pc = "undoing" /\ th[k].cur = s
      BY <3>1 DEF CleanInv
    <3>3. QED
      BY <1>2, <3>2, StillUndoing
  <2>2. ASSUME wf' = "failed", NEW e \in Compensable, status'[e] = "completed"
        PROVE  \E k \in Threads : th'[k].pc \in {"compensate"} \cup Compensating
    <3>1. wf = "failed"
      BY <2>2 DEF Aside
    <3>2. status[e] = "completed"
      BY <2>2, <3>1, InPlaceBefore
    <3>3. PICK k \in Threads : th[k].pc \in {"compensate"} \cup Compensating
      BY <3>1, <3>2 DEF CleanInv
    <3>4. QED
      BY <1>2, <3>3, StillUndoing
  <2>3. QED
    BY <2>1, <2>2 DEF CleanInv
<1>3. QED
  BY <1>1, <1>2 DEF Aside

LEMMA FinishLeavesClean ==
  ASSUME RowInv, EndInv, CleanInv, NEW i \in Threads, Plays(i), Finish(i)
  PROVE  CleanInv'
<1>1. UNCHANGED status /\ th[i].pc = "finish" /\ (wf' = "failed" => th'[i].pc = "compensate")
  BY Verdict DEF Finish, At
<1>2. ASSUME NEW s \in Steps, status'[s] = "compensating"
      PROVE  \E k \in Threads : th'[k].pc = "undoing" /\ th'[k].cur = s
  <2>1. PICK k \in Threads : th[k].pc = "undoing" /\ th[k].cur = s
    BY <1>1, <1>2 DEF CleanInv
  <2>2. QED
    BY <1>1, <2>1, StillUndoing
<1>3. QED
  BY <1>1, <1>2 DEF CleanInv

LEMMA UndoingLeavesClean ==
  ASSUME RowInv, UndoInv, EndInv, CleanInv, NEW i \in Threads, Plays(i),
         Compensate(i) \/ Undo(i) \/ Undoing(i)
  PROVE  CleanInv'
<1>1. wf' = wf
  BY DEF Compensate, Undo, Undoing, run
<1>2. CASE Compensate(i)
  <2>1. /\ UNCHANGED status /\ th[i].pc = "compensate"
        /\ th'[i] = ToUndo(th[i], {s \in Compensable : status[s] = "completed"})
    BY <1>2, Standing DEF Compensate, Become, At, rows
  <2>2. (\E e \in Compensable : status[e] = "completed") => th'[i].pc = "undo"
    BY <2>1, Standing DEF ToUndo, Activation
  <2>3. ASSUME NEW s \in Steps, status'[s] = "compensating"
        PROVE  \E k \in Threads : th'[k].pc = "undoing" /\ th'[k].cur = s
    <3>1. PICK k \in Threads : th[k].pc = "undoing" /\ th[k].cur = s
      BY <2>1, <2>3 DEF CleanInv
    <3>2. k # i
      BY <2>1, <3>1
    <3>3. QED
      BY <3>1, <3>2 DEF Plays
  <2>4. QED
    BY <2>1, <2>2, <2>3 DEF CleanInv
<1>3. CASE Undo(i)
  <2>1. PICK r \in th[i].todo :
          /\ status' = [status EXCEPT ![r] = "compensating"]
          /\ th' = [th EXCEPT ![i].pc = "undoing", ![i].cur = r, ![i].todo = @ \ {r}]
    BY <1>3 DEF Undo, SetStatus
  <2>2. th[i].pc = "undo" /\ th'[i].pc = "undoing" /\ th'[i].cur = r
    <3>1. th[i].pc = "undo"
      BY <1>3 DEF Undo, At
    <3>2. QED
      BY <2>1, <3>1, Standing DEF Activation
  <2>3. ASSUME NEW s \in Steps \ {r}, status'[s] = "compensating"
        PROVE  \E k \in Threads : th'[k].pc = "undoing" /\ th'[k].cur = s
    <3>1. status[s] = "compensating"
      BY <2>1, <2>3, Standing DEF Rows
    <3>2. PICK k \in Threads : th[k].pc = "undoing" /\ th[k].cur = s
      BY <3>1 DEF CleanInv
    <3>3. k # i
      BY <2>2, <3>2
    <3>4. QED
      BY <3>2, <3>3 DEF Plays
  <2>4. QED
    BY <2>2, <2>3 DEF CleanInv
<1>4. CASE Undoing(i)
  <2>1. /\ status' = [status EXCEPT ![th[i].cur] = "compensated"] /\ th[i].pc = "undoing"
        /\ th'[i] = ToUndo(th[i], th[i].todo)
    BY <1>4, Standing DEF Undoing, SetStatus, Become, At
  <2>2. ASSUME NEW s \in Steps, status'[s] = "compensating"
        PROVE  \E k \in Threads : th'[k].pc = "undoing" /\ th'[k].cur = s
    <3>1. s # th[i].cur /\ status[s] = "compensating"
      BY <2>1, <2>2, Standing DEF Rows
    <3>2. PICK k \in Threads : th[k].pc = "undoing" /\ th[k].cur = s
      BY <3>1 DEF CleanInv
    <3>3. QED
      BY <3>1, <3>2 DEF Plays
  <2>3. ASSUME wf' = "failed", NEW e \in Compensable, status'[e] = "completed"
        PROVE  th'[i].pc = "undo"
    <3>1. e \in th[i].todo
      BY <1>1, <2>1, <2>3, InPlaceBefore DEF UndoInv
    <3>2. QED
      BY <2>1, <3>1, Standing DEF ToUndo, Activation
  <2>4. QED
    BY <2>2, <2>3 DEF CleanInv
<1>5. QED
  BY <1>2, <1>3, <1>4

LEMMA CleanInvStep ==
  ASSUME Orderly, Undisturbed, RowInv, UndoInv, EndInv, CleanInv, [Next]_vars
  PROVE  CleanInv'
<1>1. CASE UNCHANGED <<wf, status, th>>
  BY <1>1 DEF CleanInv
<1>2. CASE UNCHANGED vars
  BY <1>1, <1>2 DEF vars
<1>3. ASSUME NEW i \in Threads, Plays(i), Ends(i) \/ Aside(i)
      PROVE  CleanInv'
  <2>1. ~CloseRun(i)
    BY DEF CloseRun, EndInv, At
  <2>2. QED
    BY <1>3, <2>1, NoDeath, AsideLeavesClean, FinishLeavesClean, UndoingLeavesClean DEF Ends
<1>4. CASE Next
  BY <1>1, <1>3, <1>4, Acts DEF PassDeadline, rows, run
<1>5. QED
  BY <1>2, <1>4

LEMMA CleanInvInit ==
  ASSUME Orderly, Init
  PROVE  CleanInv
<1>1. wf = "running" /\ status = [s \in Steps |-> "pending"]
  BY NoWaits DEF Init, Orderly, RowSet
<1>2. QED
  BY <1>1 DEF CleanInv

(***************************************************************************)
(* Effects come apart in the opposite order they were made, also when      *)
(* several settles undo the run at once, or one of them dies half way      *)
(* (sagaCompensationOrder, compensateWorkflow).                            *)
(***************************************************************************)
THEOREM UndoneInOrder ==
  ASSUME OneSweeper, Orderly
  PROVE  Spec => []UndoneBeforeDependencies
<1>1. Init => RowInv /\ UndoInv
  BY RowInvInit, UndoInvInit
<1>2. RowInv /\ UndoInv /\ [Next]_vars => (RowInv /\ UndoInv)'
  BY RowInvStep, UndoInvStep
<1>3. UndoInv => UndoneBeforeDependencies
  BY DEF UndoInv
<1>4. QED
  BY <1>1, <1>2, <1>3, PTL DEF Spec

(***************************************************************************)
(* What a failed run has done is all undone, and in the right order, when  *)
(* nobody interrupts the run and no call dies (compensateWorkflow).        *)
(***************************************************************************)
THEOREM FailedRunsAreUndone ==
  ASSUME OneSweeper, Orderly, Undisturbed
  PROVE  Spec => []UndoneCleanly
<1> DEFINE Inv == RowInv /\ UndoInv /\ EndInv /\ CleanInv
<1>1. Uninterrupted
  BY DEF Undisturbed
<1>2. Init => Inv
  BY RowInvInit, UndoInvInit, EndInvInit, CleanInvInit
<1>3. Inv /\ [Next]_vars => Inv'
  BY <1>1, RowInvStep, UndoInvStep, EndInvStep, CleanInvStep
<1>4. Inv => UndoneCleanly
  <2>1. Quiet => \A i \in Threads : th[i].pc = "idle"
    BY DEF Quiet, At
  <2>2. \A s \in Compensable : s \in Steps
    BY EngineAssumption
  <2>3. QED
    BY <2>1, <2>2 DEF CleanInv, UndoInv, UndoneCleanly, NothingLeftInPlace
<1>5. QED
  BY <1>2, <1>3, <1>4, PTL DEF Spec

(***************************************************************************)
(* And when such a run is over and quiet, every step of it has settled and *)
(* nothing is left in place (settle, compensateWorkflow).                  *)
(***************************************************************************)
THEOREM RunsEndClean ==
  ASSUME OneSweeper, Orderly, Undisturbed
  PROVE  Spec => []EndsClean
<1> DEFINE Inv == RowInv /\ UndoInv /\ EndInv /\ CleanInv
<1>1. Uninterrupted
  BY DEF Undisturbed
<1>2. Init => Inv
  BY RowInvInit, UndoInvInit, EndInvInit, CleanInvInit
<1>3. Inv /\ [Next]_vars => Inv'
  BY <1>1, RowInvStep, UndoInvStep, EndInvStep, CleanInvStep
<1>4. Inv => EndsClean
  <2> SUFFICES ASSUME Inv, wf # "running", Quiet
               PROVE  AllTerminal(status) /\ (wf = "failed" =>
                        \A s \in Compensable : status[s] \notin {"completed", "compensating"})
    BY DEF EndsClean, SettledWhenOver, NothingLeftInPlace
  <2>1. \A i \in Threads : th[i].pc = "idle"
    BY DEF Quiet, At
  <2>2. \A s \in Steps : status[s] # "compensating"
    BY <2>1 DEF CleanInv
  <2>3. AllTerminal(status)
    BY <2>2 DEF EndInv, OverIn, AllTerminal, TerminalStatuses
  <2>4. QED
    BY <2>1, <2>2, <2>3, EngineAssumption DEF CleanInv
<1>5. QED
  BY <1>2, <1>3, <1>4, PTL DEF Spec

-----------------------------------------------------------------------------
(***************************************************************************)
(* Why no run is stranded.  Three things a live run may owe: a job for a   *)
(* step that is due, the skip of a step that can never run, the verdict    *)
(* once every step has settled.  A job in the queue or a call in progress  *)
(* sees to each: a call that has read what it needs, one that has yet to   *)
(* read all rows, or one on its way to that.  A call that ends the run     *)
(* whatever its rows say owes nothing.                                     *)
(*                                                                         *)
(* The engine does leave runs behind (README, section 5): a step declined  *)
(* by its guard, a caller that dies, a call that dies after it has failed  *)
(* its step.  An attended run has none of these; its definition is one     *)
(* validateDefinition admits.                                              *)
(***************************************************************************)
Acyclic == \A S \in SUBSET Steps : S # {} => \E s \in S : Deps[s] \cap S = {}

Attended ==
  /\ Steps # {} /\ Acyclic
  /\ Never("declined") /\ Never("callercrash")
  /\ \A b \in Budgets : b["crash"] = 0 \/ (b["fatal"] = 0 /\ b["transient"] = 0)

Exec(s) == <<"execute", s>>

\* A step whose dependencies have settled so that it may run.
Due(st, s) ==
  st[s] = "pending" /\ (\A d \in Deps[s] : st[d] \in Settled) /\ Satisfied(st, {}, s)

\* About to read all rows: for the frontier, or to settle.
Advances(t, st) == t.pc = "frontier" \/ (t.pc = "begin" /\ st[t.cur] = "completed")
Settles(t) == t.pc = "list" \/ (t.pc \in Sweeping /\ t.tries = 1)

Launches(t, s) ==
  \/ t.pc \in {"begin", "claim", "resend", "sweepSend"} /\ t.cur = s
  \/ t.pc \in {"advance", "send", "unblock"} /\ s \in t.todo
  \/ t.pc \in {"cascade", "reread"} /\ Deps[s] \cap t.marks # {}

Prunes(t, s) ==
  \/ Settles(t)
  \/ t.pc = "cascade" /\ s \in t.todo
  \/ t.pc \in {"advance", "send"} /\ s \in SkipPlan(t.snap)

Concludes(t) ==
  \/ Settles(t)
  \/ t.pc \in {"cascade", "reread", "terminate", "finish"}
  \/ t.pc \in {"advance", "send"} /\ (SkipPlan(t.snap) # {} \/ AllTerminal(t.snap))

\* A job for a completed step drives the advance again, so does a call that has taken it.
Driven ==
  \/ \E s \in Steps : status[s] = "completed" /\ queue[Exec(s)] > 0
  \/ \E i \in Threads : Advances(th[i], status)

\* Somebody is ending the run, or will find that its deadline has passed.
Interrupted ==
  \/ \E i \in Threads : th[i].pc \in Closing \/ (late /\ th[i].pc = "begin")
  \/ late /\ \E s \in Steps : queue[Exec(s)] > 0

(***************************************************************************)
(* What a completion commits is up to date although the rows go on         *)
(* changing: whatever settled since was in the plan it read.               *)
(***************************************************************************)
Abreast(t, st) ==
  /\ t.snap[t.cur] = "completed"
  /\ t.todo = ReadyPlan(t.snap)
  /\ SkipPlan(st) \subseteq SkipPlan(t.snap)
  /\ \A r \in Steps \ {t.cur} :
       /\ st[r] \in Settled => t.snap[r] = st[r] \/ (st[r] = "skipped" /\ r \in SkipPlan(t.snap))
       /\ st[r] = "pending" /\ t.cur \in Deps[r] => t.snap[r] = "pending"

(***************************************************************************)
(* What ties a call to its job: redelivered, the job of a dead call takes  *)
(* up what the call has left.                                              *)
(***************************************************************************)
Mortal == budget["crash"] > 0

OfJob == {"begin", "claim", "inputs", "handler", "requeue", "resend", "fail", "complete", "commit"}

AfterCompletion ==
  {"frontier", "advance", "send", "cascade", "reread", "unblock", "terminate", "finish"}

Linked(t, st) ==
  /\ t.pc \notin {"timer", "decline", "suspend", "compensate", "undo", "undoing"}
  /\ t.pc \in OfJob => t.job # None
  /\ t.job # None => t.job = Exec(t.cur)
  /\ t.pc \in Sweeping \cup {"cancel", "cancelled"} => t.job = None
  /\ t.pc = "cascade" => t.todo \subseteq t.marks
  /\ Mortal => /\ t.pc # "fail"
               /\ t.pc = "list" => t.job = None
               /\ t.pc \in AfterCompletion /\ t.job # None => st[t.cur] = "completed"

Live ==
  /\ \A s \in Steps : status[s] \notin {"compensating", "compensated"}
  /\ \A i \in Threads : /\ Linked(th[i], status)
                        /\ th[i].pc = "commit" => lock = i
                        /\ th[i].pc \in {"expire", "expired"} => late
  /\ \A s \in Steps : queue[<<"timeout", s>>] = 0
  /\ Mortal => budget["fatal"] = 0 /\ budget["transient"] = 0

Tended ==
  /\ \A i \in Threads : th[i].pc = "commit" => Abreast(th[i], status)
  /\ \A s \in Steps : Due(status, s) =>
       queue[Exec(s)] > 0 \/ Driven \/ \E i \in Threads : Launches(th[i], s)
  /\ \A s \in SkipPlan(status) : Driven \/ \E i \in Threads : Prunes(th[i], s)
  /\ OverIn(status) => Driven \/ \E i \in Threads : Concludes(th[i])

MoveInv == wf = "running" => Live /\ (Interrupted \/ Tended)

-----------------------------------------------------------------------------
(***************************************************************************)
(* Rows: what a change makes due, and that it dooms nothing by itself.     *)
(***************************************************************************)
\* What is due is ready, in whatever reading shows its dependencies as they are.
LEMMA DueIsReady ==
  ASSUME NEW st, NEW nx, NEW s \in Steps, Due(nx, s), st[s] = "pending",
         \A d \in Deps[s] : StatusOf(st, SkipPlan(st), d) = nx[d]
  PROVE  s \in ReadyPlan(st)
<1>1. DepStates(st, SkipPlan(st), s) = DepStates(nx, {}, s)
  BY DEF DepStates, StatusOf
<1>2. Satisfied(st, SkipPlan(st), s)
  BY <1>1 DEF Satisfied, Due
<1>3. QED
  BY <1>2, SatisfiedIsNotPlanned DEF ReadyPlan, Pending

LEMMA DueNow ==
  ASSUME NEW st, NEW s \in Steps, Due(st, s)
  PROVE  s \in ReadyPlan(st)
<1>1. \A d \in Deps[s] : d \notin SkipPlan(st)
  BY DEF Due, SkipPlan, Pending
<1>2. QED
  BY <1>1, DueIsReady DEF StatusOf, Due

\* A step that has just become due was not pending, or one of its dependencies
\* has just settled, and not failed.
LEMMA NewlyDue ==
  ASSUME NEW st, NEW nx, NEW s \in Steps, Due(nx, s), ~Due(st, s)
  PROVE  \/ st[s] # "pending"
         \/ \E d \in Deps[s] : nx[d] # st[d] /\ nx[d] \in Settled \ {"failed"}
<1> SUFFICES ASSUME st[s] = "pending",
                    \A d \in Deps[s] : nx[d] # st[d] => nx[d] \notin Settled \ {"failed"}
             PROVE  FALSE
  OBVIOUS
<1>1. \A d \in Deps[s] : nx[d] # "failed"
  BY DEF Due, Satisfied, DepStates, StatusOf
<1>2. \A d \in Deps[s] : nx[d] = st[d]
  BY <1>1 DEF Due
<1>3. DepStates(st, {}, s) = DepStates(nx, {}, s)
  BY <1>2 DEF DepStates, StatusOf
<1>4. QED
  BY <1>2, <1>3 DEF Due, Satisfied

\* A completion blocks nothing, so it is enough that what else settled is seen alike.
LEMMA BlockedByTheSame ==
  ASSUME NEW st, NEW nx, NEW P, NEW Q, NEW s, Blocked(nx, P, s),
         \A d \in Deps[s] : StatusOf(nx, P, d) \in TerminalStatuses \ {"completed"} =>
                              StatusOf(st, Q, d) = StatusOf(nx, P, d)
  PROVE  Blocked(st, Q, s)
<1>1. CASE s \notin AnyJoin
  BY <1>1 DEF Blocked, DepStates
<1>2. CASE s \in AnyJoin /\ "failed" \in DepStates(nx, P, s)
  BY <1>2 DEF Blocked, DepStates, TerminalStatuses
<1>3. CASE /\ s \in AnyJoin /\ DepStates(nx, P, s) # {}
           /\ DepStates(nx, P, s) \subseteq TerminalStatuses \ {"completed"}
  <2>1. DepStates(st, Q, s) = DepStates(nx, P, s)
    BY <1>3 DEF DepStates
  <2>2. QED
    BY <1>3, <2>1 DEF Blocked
<1>4. QED
  BY <1>1, <1>2, <1>3 DEF Blocked

\* Only a failure dooms a step that was not doomed.
LEMMA NothingNewDoomed ==
  ASSUME NEW st, NEW nx, SoundRows(st), ~OverIn(st), Lawful(st, nx),
         \A s \in Steps : st[s] = "running" => StartableIn(st, s),
         \A s \in Steps : nx[s] = "failed" => st[s] = "failed",
         \A s \in Steps : nx[s] = "skipped" /\ st[s] # "skipped" => s \in SkipPlan(st)
  PROVE  SkipPlan(nx) \subseteq SkipPlan(st)
<1> DEFINE P == {s \in Pending(nx) : s \in SkipPlan(st)}
<1>1. P \in SUBSET Pending(nx)
  OBVIOUS
<1>2. \A d \in Steps : StatusOf(nx, P, d) \in TerminalStatuses \ {"completed"} =>
                         StatusOf(st, SkipPlan(st), d) = StatusOf(nx, P, d)
  <2> SUFFICES ASSUME NEW d \in Steps, StatusOf(nx, P, d) \in TerminalStatuses \ {"completed"}
               PROVE  StatusOf(st, SkipPlan(st), d) = StatusOf(nx, P, d)
    OBVIOUS
  <2>1. CASE d \in P
    BY <2>1 DEF StatusOf
  <2>2. CASE d \notin P
    <3>1. nx[d] \in {"failed", "skipped", "compensated"} /\ StatusOf(nx, P, d) = nx[d]
      BY <2>2 DEF StatusOf, TerminalStatuses
    <3>2. nx[d] # "compensated"
      BY DEF SoundRows, Lawful
    <3>3. CASE nx[d] = st[d]
      <4>1. d \notin SkipPlan(st)
        BY <3>1, <3>3 DEF SkipPlan, Pending
      <4>2. QED
        BY <3>1, <3>3, <4>1 DEF StatusOf
    <3>4. CASE nx[d] = "skipped" /\ d \in SkipPlan(st)
      BY <3>1, <3>4 DEF StatusOf
    <3>5. QED
      BY <3>1, <3>2, <3>3, <3>4
  <2>3. QED
    BY <2>1, <2>2
<1>3. Closed(nx, P)
  <2> SUFFICES ASSUME NEW t \in Pending(nx), Blocked(nx, P, t)
               PROVE  t \in SkipPlan(st)
    BY DEF Closed
  <2>1. t \in Steps /\ nx[t] = "pending" /\ \A d \in Deps[t] : d \in Steps
    BY GraphAssumption DEF Pending
  <2>2. Blocked(st, SkipPlan(st), t)
    <3> HIDE DEF P
    <3>1. QED
      BY <1>2, <2>1, BlockedByTheSame
  <2>3. st[t] = "pending"
    <3>1. SUFFICES ASSUME st[t] = "running" PROVE FALSE
      BY <2>1 DEF Lawful
    <3>2. Satisfied(st, SkipPlan(st), t) /\ SkipPlan(st) \in SUBSET Pending(st)
      BY <2>1, <3>1 DEF StartableIn, SkipPlan
    <3>3. QED
      BY <2>2, <3>2, SatisfiedIsNotBlocked
  <2>4. QED
    BY <2>1, <2>2, <2>3, SkipPlanClosed DEF Closed, Pending
<1>4. SkipPlan(nx) \subseteq P
  BY <1>1, <1>3 DEF SkipPlan
<1>5. QED
  BY <1>4

\* Once its dependencies have settled a pending step is due or planned to be skipped.
LEMMA SettledDecides ==
  ASSUME NEW st \in RowSet, NEW s \in Steps, st[s] = "pending",
         \A d \in Deps[s] : st[d] \in {"completed", "failed", "skipped"}
  PROVE  Due(st, s) \/ s \in SkipPlan(st)
<1>1. DepStates(st, {}, s) \subseteq {"completed", "failed", "skipped"}
  BY DEF DepStates, StatusOf
<1>2. CASE Satisfied(st, {}, s)
  BY <1>2 DEF Due
<1>3. CASE ~Satisfied(st, {}, s)
  <2>1. Blocked(st, {}, s)
    BY <1>1, <1>3 DEF Satisfied, Blocked, TerminalStatuses
  <2>2. \A d \in Deps[s] : StatusOf(st, SkipPlan(st), d) = StatusOf(st, {}, d)
    BY DEF StatusOf, SkipPlan, Pending
  <2>3. Blocked(st, SkipPlan(st), s)
    BY <2>1, <2>2, BlockedCarriesOver
  <2>4. QED
    BY <2>3, SkipPlanClosed DEF Closed, Pending
<1>4. QED
  BY <1>2, <1>3

-----------------------------------------------------------------------------
(***************************************************************************)
(* What a step of thread i owes the run: it does not lose a job, keeps its *)
(* links, and whatever it makes owed, or saw to before, is seen to after.  *)
(***************************************************************************)
Orders(i) ==
  /\ Linked(th'[i], status')
  /\ lock' = lock \/ lock = None \/ lock = i
  /\ th'[i].pc = "commit" => lock' = i
  /\ th'[i].pc \in {"expire", "expired"} => late
  /\ \A s \in Steps : /\ queue[Exec(s)] > 0 =>
                           queue'[Exec(s)] > 0 \/ (th'[i].pc = "begin" /\ th'[i].cur = s)
                      /\ queue'[<<"timeout", s>>] = 0
  /\ th[i].pc \in Closing \/ (late /\ th[i].pc = "begin") => Interrupted'

Tends(i) ==
  /\ th'[i].pc = "commit" => Abreast(th'[i], status')
  /\ \A s \in Steps : Changes(s) =>
       /\ lock # None /\ lock # i => status'[s] \notin {"completed", "failed"}
       /\ status[s] = "running" => status'[s] # "skipped"
  /\ \A s \in Steps : Due(status', s) /\ (~Due(status, s) \/ Launches(th[i], s) \/ Advances(th[i], status)) =>
       queue'[Exec(s)] > 0 \/ Driven' \/ Launches(th'[i], s)
  /\ \A s \in SkipPlan(status') :
       s \notin SkipPlan(status) \/ Prunes(th[i], s) \/ Advances(th[i], status) =>
         Driven' \/ Prunes(th'[i], s)
  /\ OverIn(status') /\ (~OverIn(status) \/ Concludes(th[i]) \/ Advances(th[i], status)) =>
       Driven' \/ Concludes(th'[i])

\* No credit is given for what may go wrong.
Shrinks ==
  /\ budget' \in [Events -> Nat]
  /\ \A e \in Events : budget'[e] <= budget[e]

\* What the rows of a live run may do.
LEMMA LiveRows ==
  ASSUME RowInv, Live, NEW i \in Threads, Plays(i)
  PROVE  /\ \A s \in Steps : status'[s] \notin {"compensating", "compensated"}
         /\ \A s \in Steps : status[s] = "completed" => status'[s] = "completed"
<1>1. th[i].pc \notin Compensating
  BY DEF Live, Linked
<1>2. QED
  BY <1>1 DEF Plays, Shows, Lawful, Changes, Live

LEMMA LiveKept ==
  ASSUME RowInv, Live, NEW i \in Threads, Plays(i), Orders(i), UNCHANGED late, Shrinks
  PROVE  Live'
<1>0. Mortal' => Mortal /\ budget'["fatal"] = 0 /\ budget'["transient"] = 0
  BY DEF Shrinks, Mortal, RowInv, TypeOK, Live, Events
<1>1. ASSUME NEW k \in Threads \ {i}
      PROVE  /\ Linked(th[k], status')
             /\ th[k].pc = "commit" => lock' = k
  <2>1. Linked(th[k], status) /\ (th[k].pc = "commit" => lock = k) /\ None # k
    BY EngineAssumption DEF Live
  <2>2. th[k].job # None => th[k].cur \in Steps
    BY <2>1, Standing DEF GoodCall, JobOf, Linked, Exec, Job
  <2>3. Linked(th[k], status')
    BY <2>1, <2>2, LiveRows DEF Linked
  <2>4. QED
    BY <2>1, <2>3 DEF Orders
<1>2. \A k \in Threads \ {i} : th'[k] = th[k]
  BY DEF Plays
<1>3. QED
  <2>1. \A k \in Threads : Linked(th'[k], status')
    BY <1>1, <1>2 DEF Orders
  <2>2. \A k \in Threads : Linked(th[k], status)'
    BY <1>0, <2>1 DEF Linked
  <2>3. QED
    BY <1>0, <1>1, <1>2, <2>2, LiveRows DEF Live, Orders

\* A job that would drive the advance, and a call that will, do not get lost.
LEMMA InterruptionStays ==
  ASSUME NEW i \in Threads, Plays(i), Orders(i), UNCHANGED late, Interrupted
  PROVE  Interrupted'
<1>1. CASE \E k \in Threads : th[k].pc \in Closing \/ (late /\ th[k].pc = "begin")
  BY <1>1 DEF Plays, Orders, Interrupted
<1>2. CASE late /\ \E s \in Steps : queue[Exec(s)] > 0
  BY <1>2 DEF Orders, Interrupted
<1>3. QED
  BY <1>1, <1>2 DEF Interrupted

LEMMA DrivenStays ==
  ASSUME RowInv, Live, NEW i \in Threads, Plays(i), Orders(i), Driven
  PROVE  Driven' \/ Advances(th[i], status)
<1>1. ASSUME NEW s \in Steps, status[s] = "completed", queue[Exec(s)] > 0
      PROVE  Driven'
  BY <1>1, LiveRows DEF Orders, Driven, Advances
<1>2. ASSUME NEW k \in Threads \ {i}, Advances(th[k], status)
      PROVE  Driven'
  <2>1. th'[k] = th[k]
    BY DEF Plays
  <2>2. th[k].pc = "begin" => th[k].cur \in Steps
    BY Standing DEF ActivationOK, AboutStep
  <2>3. Advances(th'[k], status')
    BY <1>2, <2>1, <2>2, LiveRows DEF Advances
  <2>4. QED
    BY <2>3 DEF Driven
<1>3. QED
  BY <1>1, <1>2 DEF Driven

\* An open completion stays abreast of what others do.
LEMMA AbreastStays ==
  ASSUME RowInv, Live, NEW i \in Threads, Plays(i), Tends(i), th[i].pc \notin {"cancel", "expire"},
         NEW k \in Threads \ {i}, th[k].pc = "commit", Abreast(th[k], status)
  PROVE  Abreast(th[k], status')
<1> DEFINE t == th[k]
<1>1. t.cur \in Steps /\ status[t.cur] = "running" /\ Owns(k, t.cur)
  BY Claimed DEF Owning
<1>2. lock # None /\ lock # i
  BY EngineAssumption DEF Live
<1>3. SoundRows(status) /\ Lawful(status, status') /\ ~OverIn(status)
  BY <1>1, Standing DEF Plays, OverIn
<1>4. \A s \in Steps : Changes(s) =>
        \/ status[s] = "pending" /\ status'[s] = "skipped" /\ s \in SkipPlan(status)
        \/ status[s] = "pending" /\ status'[s] = "running"
        \/ status[s] = "running" /\ status'[s] = "pending"
  <2>1. \A s \in Steps : Changes(s) /\ status[s] = "pending" /\ status'[s] = "skipped" => s \in SkipPlan(status)
    BY DEF Plays, Shows, Changes
  <2>2. QED
    BY <1>2, <1>3, <2>1 DEF Lawful, Tends, Changes
<1>5. SkipPlan(status') \subseteq SkipPlan(status)
  BY <1>3, <1>4, NothingNewDoomed DEF RowInv, RunningMayRun, Changes
<1>6. \A r \in Steps : status[r] = "running" => t.cur \notin Deps[r]
  <2> SUFFICES ASSUME NEW r \in Steps, status[r] = "running", t.cur \in Deps[r]
               PROVE  FALSE
    OBVIOUS
  <2>1. Satisfied(status, SkipPlan(status), r)
    BY <1>3 DEF RowInv, RunningMayRun, StartableIn
  <2>2. StatusOf(status, SkipPlan(status), t.cur) = "running"
    BY <1>1 DEF StatusOf, SkipPlan, Pending
  <2>3. "running" \in DepStates(status, SkipPlan(status), r)
    BY <2>2 DEF DepStates
  <2>4. QED
    BY <2>1, <2>3 DEF Satisfied, TerminalStatuses
<1>7. ASSUME NEW r \in Steps \ {t.cur}
      PROVE  /\ status'[r] \in Settled =>
                  t.snap[r] = status'[r] \/ (status'[r] = "skipped" /\ r \in SkipPlan(t.snap))
             /\ status'[r] = "pending" /\ t.cur \in Deps[r] => t.snap[r] = "pending"
  BY <1>4, <1>6 DEF Abreast, Changes
<1>8. QED
  BY <1>5, <1>7 DEF Abreast

LEMMA TendedKept ==
  ASSUME RowInv, Live, Tended, NEW i \in Threads, Plays(i), Orders(i), Tends(i), UNCHANGED late,
         ~Interrupted'
  PROVE  Tended'
<1>1. \A k \in Threads \ {i} : th'[k] = th[k]
  BY DEF Plays
<1>2. th[i].pc \notin {"cancel", "expire"}
  BY DEF Orders
<1>3. \A k \in Threads : th'[k].pc = "commit" => Abreast(th'[k], status')
  BY <1>1, <1>2, AbreastStays DEF Tended, Tends
<1>4. ASSUME NEW s \in Steps, Due(status', s)
      PROVE  queue'[Exec(s)] > 0 \/ Driven' \/ \E k \in Threads : Launches(th'[k], s)
  <2>1. CASE ~Due(status, s) \/ Launches(th[i], s) \/ Advances(th[i], status)
    BY <1>4, <2>1 DEF Tends
  <2>2. CASE Due(status, s) /\ ~Launches(th[i], s) /\ ~Advances(th[i], status)
    <3>1. queue[Exec(s)] > 0 \/ Driven \/ \E k \in Threads \ {i} : Launches(th[k], s)
      BY <2>2 DEF Tended
    <3>2. CASE queue[Exec(s)] > 0
      BY <3>2 DEF Orders, Launches
    <3>3. CASE Driven
      BY <2>2, <3>3, DrivenStays
    <3>4. QED
      BY <1>1, <3>1, <3>2, <3>3
  <2>3. QED
    BY <2>1, <2>2
<1>5. ASSUME NEW s \in SkipPlan(status')
      PROVE  Driven' \/ \E k \in Threads : Prunes(th'[k], s)
  <2>1. CASE s \notin SkipPlan(status) \/ Prunes(th[i], s) \/ Advances(th[i], status)
    BY <2>1 DEF Tends
  <2>2. CASE s \in SkipPlan(status) /\ ~Prunes(th[i], s) /\ ~Advances(th[i], status)
    <3>1. Driven \/ \E k \in Threads \ {i} : Prunes(th[k], s)
      BY <2>2 DEF Tended
    <3>2. QED
      BY <1>1, <2>2, <3>1, DrivenStays
  <2>3. QED
    BY <2>1, <2>2
<1>6. ASSUME OverIn(status')
      PROVE  Driven' \/ \E k \in Threads : Concludes(th'[k])
  <2>1. CASE ~OverIn(status) \/ Concludes(th[i]) \/ Advances(th[i], status)
    BY <1>6, <2>1 DEF Tends
  <2>2. CASE OverIn(status) /\ ~Concludes(th[i]) /\ ~Advances(th[i], status)
    <3>1. Driven \/ \E k \in Threads \ {i} : Concludes(th[k])
      BY <2>2 DEF Tended
    <3>2. QED
      BY <1>1, <2>2, <3>1, DrivenStays
  <2>3. QED
    BY <2>1, <2>2
<1>7. QED
  BY <1>3, <1>4, <1>5, <1>6 DEF Tended

LEMMA MoveInvInit ==
  ASSUME Orderly, Attended, Init
  PROVE  MoveInv
<1>1. status = [s \in Steps |-> "pending"]
  <2>1. [s \in Steps |-> "pending"] \in RowSet
    BY DEF RowSet
  <2>2. QED
    BY <2>1, NoWaits DEF Init, Orderly
<1>2. queue = Put([j \in Job |-> 0], {Exec(s) : s \in Roots})
  BY NoWaits DEF Init, Orderly, Exec
<1>3. \A i \in Threads : th[i] = Idle /\ Idle.pc = "idle" /\ Idle.job = None
  BY DEF Init, Idle
<1>4. Live
  <2>1. \A s \in Steps : queue[<<"timeout", s>>] = 0
    BY <1>2 DEF Put, Job, Exec
  <2>2. Mortal => budget["fatal"] = 0 /\ budget["transient"] = 0
    BY DEF Init, Attended, Mortal
  <2>3. QED
    BY <1>1, <1>3, <2>1, <2>2 DEF Live, Linked, OfJob, Sweeping, AfterCompletion
<1>5. ASSUME NEW s \in Steps, Due(status, s)
      PROVE  queue[Exec(s)] > 0
  <2>1. \A d \in Deps[s] : d \in Steps
    BY GraphAssumption
  <2>2. Deps[s] = {}
    BY <1>1, <1>5, <2>1 DEF Due
  <2>3. s \in Roots /\ Exec(s) \in Job
    BY <2>2 DEF Roots, Exec, Job
  <2>4. QED
    BY <1>2, <2>3, EngineAssumption DEF Put
<1>6. SkipPlan(status) = {}
  <2>1. ASSUME NEW s \in Pending(status) PROVE ~Blocked(status, {}, s)
    <3>1. s \in Steps /\ \A d \in Deps[s] : d \in Steps
      BY <2>1, GraphAssumption DEF Pending
    <3>2. DepStates(status, {}, s) \subseteq {"pending"}
      BY <1>1, <3>1 DEF DepStates, StatusOf
    <3>3. QED
      BY <3>2 DEF Blocked, TerminalStatuses
  <2>2. Closed(status, {})
    BY <2>1 DEF Closed
  <2>3. QED
    BY <2>2 DEF SkipPlan
<1>7. ~OverIn(status)
  BY <1>1 DEF OverIn, Attended
<1>8. Tended
  BY <1>3, <1>5, <1>6, <1>7 DEF Tended
<1>9. QED
  BY <1>4, <1>8 DEF MoveInv

\* Where nothing is in progress nothing sees to what is owed, so nothing is.
LEMMA QuietOwesNothing ==
  ASSUME Attended, RowInv, MoveInv
  PROVE  NoStrandedRun
<1> SUFFICES ASSUME wf = "running", Quiet, \A s \in Steps : status[s] \notin {"running", "waiting"}
             PROVE  FALSE
  BY DEF NoStrandedRun
<1>1. /\ \A i \in Threads : th[i].pc = "idle"
      /\ \A s \in Steps : queue[Exec(s)] = 0
  BY DEF Quiet, At, Exec, Job
<1>2. ~Interrupted /\ ~Driven
  BY <1>1 DEF Interrupted, Driven, Advances
<1>3. \A i \in Threads : ~Concludes(th[i]) /\ \A s : ~Launches(th[i], s) /\ ~Prunes(th[i], s)
  BY <1>1 DEF Concludes, Launches, Prunes, Settles, Sweeping
<1>4. /\ \A s \in Steps : ~Due(status, s)
      /\ SkipPlan(status) = {} /\ ~OverIn(status)
  BY <1>1, <1>2, <1>3 DEF MoveInv, Tended
<1>5. status \in RowSet /\ \A s \in Steps : status[s] \in {"pending", "completed", "failed", "skipped"}
  BY Standing DEF SoundRows, RowSet, MoveInv, Live
<1>6. Pending(status) # {} /\ Pending(status) \in SUBSET Steps
  BY <1>4, <1>5 DEF Pending, OverIn
<1>7. PICK s \in Pending(status) : Deps[s] \cap Pending(status) = {}
  BY <1>6 DEF Attended, Acyclic
<1>8. s \in Steps /\ status[s] = "pending" /\ \A d \in Deps[s] : d \in Steps
  BY GraphAssumption DEF Pending
<1>9. \A d \in Deps[s] : status[d] \in {"completed", "failed", "skipped"}
  BY <1>5, <1>7, <1>8 DEF Pending
<1>10. QED
  BY <1>4, <1>5, <1>8, <1>9, SettledDecides

-----------------------------------------------------------------------------
(***************************************************************************)
(* How an action sees to it.                                               *)
(***************************************************************************)
Moves(i) == Orders(i) /\ (Tended /\ ~Interrupted' => Tends(i))

\* Where a call sees to nothing.
Bare == {"idle", "inputs", "handler", "requeue", "fail", "complete", "commit",
         "cancel", "cancelled", "expire", "expired"}

LEMMA BareSeesToNothing ==
  ASSUME NEW t, t.pc \in Bare \/ (t.pc = "sweep" /\ t.tries # 1)
  PROVE  /\ \A s : ~Launches(t, s) /\ ~Prunes(t, s)
         /\ ~Concludes(t) /\ \A st : ~Advances(t, st)
BY DEF Bare, Launches, Prunes, Settles, Concludes, Advances, Sweeping

\* A dispatch takes nothing from the queue.
LEMMA PutKeeps ==
  ASSUME RowInv, Live, NEW D, queue' = Put(queue, {Exec(s) : s \in D})
  PROVE  \A s \in Steps : /\ queue[Exec(s)] > 0 => queue'[Exec(s)] > 0
                          /\ queue'[<<"timeout", s>>] = 0
<1>1. \A s \in Steps : /\ Exec(s) \in Job /\ <<"timeout", s>> \in Job
                       /\ <<"timeout", s>> \notin {Exec(r) : r \in D}
  BY DEF Exec, Job
<1>2. \A j \in Job : /\ queue[j] > 0 => queue'[j] > 0
                     /\ j \notin {Exec(r) : r \in D} => queue'[j] = queue[j]
  BY DEF Put, RowInv, TypeOK
<1>3. QED
  BY <1>1, <1>2 DEF Live

\* A call that takes no job from the queue keeps order.
LEMMA OrderKeeps ==
  ASSUME RowInv, Live, NEW i \in Threads, NEW t, Become(i, t), Linked(t, status'),
         UNCHANGED <<lock, late>>,
         UNCHANGED queue \/ \E D : queue' = Put(queue, {Exec(s) : s \in D}),
         t.pc \notin {"commit", "expire", "expired"},
         th[i].pc \notin Closing, late => th[i].pc # "begin"
  PROVE  th'[i] = t /\ Orders(i)
<1>1. th'[i] = t
  BY Standing DEF Become
<1>2. \A s \in Steps : /\ queue[Exec(s)] > 0 => queue'[Exec(s)] > 0
                       /\ queue'[<<"timeout", s>>] = 0
  BY PutKeeps DEF Live
<1>3. QED
  BY <1>1, <1>2 DEF Orders

\* A job that is put is there.
LEMMA JobPut ==
  ASSUME RowInv, NEW D, queue' = Put(queue, {Exec(s) : s \in D}), NEW s \in Steps, s \in D
  PROVE  queue'[Exec(s)] > 0
<1>1. queue \in [Job -> Nat] /\ Exec(s) \in Job /\ MaxQueued \in Nat \ {0}
  BY EngineAssumption DEF RowInv, TypeOK, Exec, Job
<1>2. QED
  BY <1>1 DEF Put

\* An action that changes no row sees to what its call saw to.
LEMMA Watching ==
  ASSUME NEW i \in Threads, UNCHANGED status,
         th'[i].pc = "commit" => Abreast(th'[i], status), ~Advances(th[i], status),
         \A s \in Steps : Due(status, s) /\ Launches(th[i], s) =>
           queue'[Exec(s)] > 0 \/ Launches(th'[i], s),
         \A s \in SkipPlan(status) : Prunes(th[i], s) => Prunes(th'[i], s),
         OverIn(status) /\ Concludes(th[i]) => Concludes(th'[i])
  PROVE  Tends(i)
BY DEF Tends, Changes

LEMMA Resuming ==
  ASSUME NEW i \in Threads, UNCHANGED status, th'[i].pc # "commit",
         th[i].pc \in Bare \/ (th[i].pc = "sweep" /\ th[i].tries # 1)
  PROVE  Tends(i)
BY BareSeesToNothing, Watching

\* A change of one row.
LEMMA OneChange ==
  ASSUME RowInv, NEW c \in Steps, NEW x, status' = [status EXCEPT ![c] = x]
  PROVE  /\ status'[c] = x /\ \A s \in Steps \ {c} : status'[s] = status[s]
         /\ \A s \in Steps : Due(status', s) /\ ~Due(status, s) =>
              \/ s = c /\ x = "pending"
              \/ c \in Deps[s] /\ x \in Settled \ {"failed"} /\ x # status[c]
<1>1. status'[c] = x /\ \A s \in Steps \ {c} : status'[s] = status[s]
  BY Standing DEF SoundRows, RowSet
<1>2. ASSUME NEW s \in Steps, Due(status', s), ~Due(status, s)
      PROVE  \/ s = c /\ x = "pending"
             \/ c \in Deps[s] /\ x \in Settled \ {"failed"} /\ x # status[c]
  <2>1. CASE status[s] # "pending"
    BY <1>1, <1>2, <2>1 DEF Due
  <2>2. CASE status[s] = "pending"
    <3>1. PICK d \in Deps[s] : status'[d] # status[d] /\ status'[d] \in Settled \ {"failed"}
      BY <1>2, <2>2, NewlyDue
    <3>2. d \in Steps
      BY GraphAssumption
    <3>3. QED
      BY <1>1, <3>1, <3>2
  <2>3. QED
    BY <2>1, <2>2
<1>3. QED
  BY <1>1, <1>2

LEMMA OneChangeDoomsNothing ==
  ASSUME RowInv, ~OverIn(status), NEW c \in Steps, NEW x, status' = [status EXCEPT ![c] = x],
         Lawful(status, status'), x # "failed",
         x = "skipped" /\ status[c] # "skipped" => c \in SkipPlan(status)
  PROVE  SkipPlan(status') \subseteq SkipPlan(status)
<1>1. status'[c] = x /\ \A s \in Steps \ {c} : status'[s] = status[s]
  BY OneChange
<1>2. QED
  BY <1>1, Standing, NothingNewDoomed DEF RowInv, RunningMayRun

-----------------------------------------------------------------------------
LEMMA DeliverMoves ==
  ASSUME RowInv, Live, NEW i \in Threads, NEW j \in Job, Deliver(i, j)
  PROVE  Moves(i)
<1>1. /\ th[i].pc = "idle" /\ queue[j] > 0 /\ queue' = [queue EXCEPT ![j] = @ - 1]
      /\ UNCHANGED <<status, lock, late>> /\ queue \in [Job -> Nat]
  BY DEF Deliver, At, rows, world, RowInv, TypeOK
<1>2. PICK s \in Steps : j = Exec(s)
  <2>1. j[1] # "timeout"
    <3> SUFFICES ASSUME j[1] = "timeout" PROVE FALSE
      OBVIOUS
    <3>1. j[2] \in Steps /\ j = <<"timeout", j[2]>>
      BY DEF Job
    <3>2. QED
      BY <1>1, <3>1 DEF Live
  <2>2. j[2] \in Steps /\ j = <<"execute", j[2]>>
    BY <2>1 DEF Job
  <2>3. QED
    BY <2>2 DEF Exec
<1>3. th'[i].pc = "begin" /\ th'[i].cur = s /\ th'[i].job = Exec(s)
  BY <1>2, Standing DEF Deliver, Become, Idle, Exec
<1>4. Linked(th'[i], status') /\ None \notin Job
  BY <1>2, <1>3, EngineAssumption DEF Linked, Sweeping, AfterCompletion
<1>5. \A r \in Steps : /\ queue[Exec(r)] > 0 => queue'[Exec(r)] > 0 \/ r = s
                       /\ queue'[<<"timeout", r>>] = 0
  BY <1>1, <1>2 DEF Exec, Job, Live
<1>6. Orders(i)
  BY <1>1, <1>3, <1>4, <1>5 DEF Orders
<1>7. QED
  BY <1>1, <1>3, <1>6, Resuming DEF Moves, Bare

\* The job of a step that is neither pending nor completed is dropped: nothing is due.
LEMMA BeginMoves ==
  ASSUME RowInv, Live, wf = "running", NEW i \in Threads, Begin(i)
  PROVE  Moves(i)
<1> DEFINE t == th[i]
<1>1. /\ UNCHANGED <<status, queue, lock, late>> /\ t.pc = "begin"
      /\ t.cur \in Steps /\ Linked(t, status) /\ t.job = Exec(t.cur) /\ t \in Activation
  BY Standing DEF Begin, At, rows, world, Live, Linked, OfJob, ActivationOK, AboutStep
<1>2. CASE late /\ Goto(i, "expire")
  <2>1. th'[i] = [t EXCEPT !.pc = "expire"]
    BY <1>2, Standing DEF Goto
  <2>2. th'[i].pc = "expire" /\ th'[i].job = t.job /\ th'[i].cur = t.cur
    BY <2>1, Standing DEF Activation
  <2>3. Interrupted'
    BY <2>2 DEF Interrupted
  <2>4. Linked(th'[i], status')
    BY <1>1, <2>2 DEF Linked, OfJob, Sweeping, AfterCompletion
  <2>5. Orders(i)
    BY <1>1, <1>2, <2>2, <2>3, <2>4 DEF Orders, Live
  <2>6. QED
    BY <2>3, <2>5 DEF Moves
<1>3. CASE ~late
  <2>1. CASE status[t.cur] = "pending"
    <3> DEFINE u == [t EXCEPT !.pc = "claim", !.tries = attempts[t.cur] + 1]
    <3>1. Become(i, u) /\ u.pc = "claim" /\ u.cur = t.cur /\ u.job = t.job
      BY <1>1, <1>3, <2>1, Standing DEF Begin, Become, Activation, Redrive
    <3> HIDE DEF u
    <3>2. Linked(u, status')
      BY <1>1, <3>1 DEF Linked, OfJob, Sweeping, AfterCompletion
    <3>3. th'[i] = u /\ Orders(i)
      BY <1>1, <1>3, <3>1, <3>2, OrderKeeps
    <3>4. Tends(i)
      BY <1>1, <2>1, <3>1, <3>3, Watching DEF Launches, Prunes, Settles, Concludes, Advances, Sweeping
    <3>5. QED
      BY <3>3, <3>4 DEF Moves
  <2>2. CASE status[t.cur] = "completed"
    <3> DEFINE u == [t EXCEPT !.pc = "frontier"]
    <3>1. Become(i, u) /\ u.pc = "frontier" /\ u.cur = t.cur /\ u.job = t.job
      BY <1>1, <1>3, <2>2, Going, Standing DEF Begin, Activation, Redrive
    <3> HIDE DEF u
    <3>2. Linked(u, status')
      BY <1>1, <2>2, <3>1 DEF Linked, OfJob, Sweeping, AfterCompletion
    <3>3. th'[i] = u /\ Orders(i)
      BY <1>1, <1>3, <3>1, <3>2, OrderKeeps
    <3>4. Driven'
      BY <3>1, <3>3 DEF Driven, Advances
    <3>5. Tends(i)
      BY <1>1, <3>1, <3>3, <3>4 DEF Tends, Changes
    <3>6. QED
      BY <3>3, <3>5 DEF Moves
  <2>3. CASE status[t.cur] \notin {"pending", "completed"}
    <3>1. Become(i, Idle) /\ Idle.pc = "idle" /\ Idle.job = None
      BY <1>1, <1>3, <2>3 DEF Begin, Rest, Redrive, Idle
    <3>2. Linked(Idle, status')
      BY <3>1 DEF Linked, OfJob, Sweeping, AfterCompletion
    <3>3. th'[i] = Idle /\ Orders(i)
      BY <1>1, <1>3, <3>1, <3>2, OrderKeeps
    <3>4. Tends(i)
      BY <1>1, <2>3, <3>1, <3>3, Watching
      DEF Launches, Prunes, Settles, Concludes, Advances, Sweeping, Due
    <3>5. QED
      BY <3>3, <3>4 DEF Moves
  <2>4. QED
    BY <2>1, <2>2, <2>3
<1>4. QED
  BY <1>1, <1>2, <1>3 DEF Begin

LEMMA IdleIsLinked ==
  ASSUME NEW st
  PROVE  Linked(Idle, st) /\ Idle.pc = "idle"
BY DEF Idle, Linked, OfJob, Sweeping, AfterCompletion

LEMMA ClaimMoves ==
  ASSUME RowInv, Live, NEW i \in Threads, Claim(i)
  PROVE  Moves(i)
<1> DEFINE t == th[i]
           c == th[i].cur
<1>1. /\ UNCHANGED <<queue, lock, late>> /\ t.pc = "claim"
      /\ c \in Steps /\ Linked(t, status) /\ t.job = Exec(c)
  BY Standing DEF Claim, At, world, Live, Linked, OfJob, ActivationOK, AboutStep
<1>2. CASE status[c] # "pending"
  <2>1. UNCHANGED status /\ Become(i, Idle)
    BY <1>2 DEF Claim, rows, Rest
  <2>2. th'[i] = Idle /\ Orders(i) /\ Idle.pc = "idle"
    BY <1>1, <2>1, IdleIsLinked, OrderKeeps
  <2>3. Tends(i)
    BY <1>1, <1>2, <2>1, <2>2, Watching
    DEF Launches, Prunes, Settles, Concludes, Advances, Sweeping, Due
  <2>4. QED
    BY <2>2, <2>3 DEF Moves
<1>3. CASE status[c] = "pending"
  <2> DEFINE u == [t EXCEPT !.pc = "inputs"]
  <2>1. /\ status' = [status EXCEPT ![c] = "running"]
        /\ Become(i, u) /\ u.pc = "inputs" /\ u.cur = c /\ u.job = t.job
    BY <1>3, Going, Standing DEF Claim, Activation
  <2> HIDE DEF u
  <2>2. Linked(u, status')
    BY <1>1, <2>1 DEF Linked, OfJob, Sweeping, AfterCompletion
  <2>3. th'[i] = u /\ Orders(i)
    BY <1>1, <2>1, <2>2, OrderKeeps
  <2>4. /\ status'[c] = "running" /\ \A s \in Steps \ {c} : status'[s] = status[s]
        /\ \A s \in Steps : Due(status', s) => Due(status, s)
    <3> HIDE DEF c
    <3>1. status' = [status EXCEPT ![c] = "running"]
      BY <2>1
    <3>2. QED
      BY <1>1, <3>1, OneChange
  <2>5. ~OverIn(status) /\ ~OverIn(status') /\ Lawful(status, status') /\ ~Due(status', c)
    BY <1>1, <1>3, <2>4, ClaimPlays DEF OverIn, Plays, Due
  <2>6. SkipPlan(status') \subseteq SkipPlan(status)
    BY <1>1, <2>1, <2>5, OneChangeDoomsNothing
  <2>7. Tends(i)
    BY <1>1, <1>3, <2>1, <2>3, <2>4, <2>5, <2>6
    DEF Tends, Changes, Launches, Prunes, Settles, Advances, Sweeping
  <2>8. QED
    BY <2>3, <2>7 DEF Moves
<1>4. QED
  BY <1>2, <1>3

LEMMA InputsMoves ==
  ASSUME RowInv, Live, NEW i \in Threads, Inputs(i)
  PROVE  Moves(i)
<1> DEFINE t == th[i]
<1>1. /\ UNCHANGED <<status, queue, lock, late>> /\ t.pc = "inputs"
      /\ Linked(t, status)
  BY DEF Inputs, At, rows, world, Live
<1>2. PICK u : /\ Become(i, u) /\ u.pc \notin {"commit", "expire", "expired"} /\ Linked(u, status')
  <2>1. CASE Rest(i)
    BY <2>1, IdleIsLinked DEF Rest
  <2>2. CASE Goto(i, "handler")
    <3> DEFINE u == [t EXCEPT !.pc = "handler"]
    <3>1. Become(i, u) /\ u.pc = "handler" /\ u.cur = t.cur /\ u.job = t.job
      BY <2>2, Going, Standing DEF Activation
    <3> HIDE DEF u
    <3>2. Linked(u, status')
      BY <1>1, <3>1 DEF Linked, OfJob, Sweeping, AfterCompletion
    <3>3. QED
      BY <3>1, <3>2
  <2>3. QED
    BY <2>1, <2>2 DEF Inputs
<1>3. th'[i] = u /\ Orders(i)
  BY <1>1, <1>2, OrderKeeps
<1>4. QED
  BY <1>1, <1>2, <1>3, Resuming DEF Moves, Bare

LEMMA HandleMoves ==
  ASSUME Waits = {}, Attended, RowInv, Live, NEW i \in Threads, Handle(i)
  PROVE  Moves(i)
<1> DEFINE t == th[i]
<1>1. /\ UNCHANGED <<status, queue, lock, late>> /\ t.pc = "handler"
      /\ Linked(t, status)
  BY DEF Handle, At, rows, Live
<1>2. PICK p \in {"complete", "requeue", "fail"} : Goto(i, p) /\ (p = "fail" => ~Mortal)
  <2>1. PICK o \in Outcomes[t.cur] :
          /\ IF o = "ok" THEN UNCHANGED budget ELSE Spend(o)
          /\ Goto(i, CASE o = "declined"  -> "decline"
                       [] o = "ok"        -> IF t.cur \in Waits THEN "suspend" ELSE "complete"
                       [] o = "transient" -> IF t.tries < MaxAttempts[t.cur]
                                               THEN "requeue" ELSE "fail"
                       [] o = "fatal"     -> "fail")
    BY DEF Handle
  <2>2. o \in Outcome
    BY <1>1, Claimed, EngineAssumption DEF Owning
  <2>3. o # "declined" /\ (Mortal => o \notin {"transient", "fatal"})
    BY <2>1 DEF Attended, Live, RowInv, Spared, Spend, Events
  <2>4. QED
    BY <2>1, <2>2, <2>3 DEF Outcome
<1> DEFINE u == [t EXCEPT !.pc = p]
<1>3. Become(i, u) /\ u.pc = p /\ u.cur = t.cur /\ u.job = t.job
  BY <1>2, Going, Standing DEF Activation
<1> HIDE DEF u
<1>4. Linked(u, status')
  BY <1>1, <1>2, <1>3 DEF Linked, OfJob, Sweeping, AfterCompletion
<1>5. th'[i] = u /\ Orders(i)
  BY <1>1, <1>3, <1>4, OrderKeeps
<1>6. QED
  BY <1>1, <1>3, <1>5, Resuming DEF Moves, Bare

\* Given back, the step is launched by the call that sends its job.
LEMMA RequeueMoves ==
  ASSUME RowInv, Live, NEW i \in Threads, Requeue(i)
  PROVE  Moves(i)
<1> DEFINE t == th[i]
           c == th[i].cur
           u == [t EXCEPT !.pc = "resend"]
<1>1. /\ UNCHANGED <<queue, lock, late>> /\ t.pc = "requeue" /\ Linked(t, status)
      /\ status' = [status EXCEPT ![c] = "pending"]
  BY DEF Requeue, At, world, Live, SetStatus
<1>2. Become(i, u) /\ u.pc = "resend" /\ u.cur = c /\ u.job = t.job
  BY Going, Standing DEF Requeue, Activation
<1>3. /\ c \in Steps /\ status[c] = "running" /\ Lawful(status, status')
  BY <1>1, Claimed DEF Owning
<1> HIDE DEF u
<1>4. Linked(u, status')
  BY <1>1, <1>2 DEF Linked, OfJob, Sweeping, AfterCompletion
<1>5. th'[i] = u /\ Orders(i)
  BY <1>1, <1>2, <1>4, OrderKeeps
<1>6. /\ status'[c] = "pending" /\ \A s \in Steps \ {c} : status'[s] = status[s]
      /\ \A s \in Steps \ {c} : Due(status', s) => Due(status, s)
  <2> HIDE DEF c
  <2>1. QED
    BY <1>1, <1>3, OneChange
<1>7. ~OverIn(status) /\ ~OverIn(status')
  BY <1>3, <1>6 DEF OverIn
<1>8. SkipPlan(status') \subseteq SkipPlan(status)
  BY <1>1, <1>3, <1>7, OneChangeDoomsNothing
<1>9. Tends(i)
  BY <1>1, <1>2, <1>5, <1>6, <1>7, <1>8
  DEF Tends, Changes, Launches, Prunes, Settles, Advances, Sweeping
<1>10. QED
  BY <1>5, <1>9 DEF Moves

LEMMA ResendMoves ==
  ASSUME RowInv, Live, NEW i \in Threads, Resend(i)
  PROVE  Moves(i)
<1> DEFINE t == th[i]
<1>1. /\ UNCHANGED <<status, lock, late>> /\ t.pc = "resend" /\ Become(i, Idle)
      /\ queue' = Put(queue, {<<"execute", t.cur>>})
  BY NothingForbidden DEF Resend, At, rows, Forbidden, Rest
<1>2. queue' = Put(queue, {Exec(s) : s \in {t.cur}})
  <2>1. {Exec(s) : s \in {t.cur}} = {<<"execute", t.cur>>}
    BY DEF Exec
  <2>2. QED
    BY <1>1, <2>1
<1>3. th'[i] = Idle /\ Orders(i) /\ Idle.pc = "idle"
  BY <1>1, <1>2, IdleIsLinked, OrderKeeps
<1>4. \A s \in Steps : Launches(t, s) => queue'[Exec(s)] > 0
  <2>1. \A s \in Steps : Launches(t, s) => s \in {t.cur}
    BY <1>1 DEF Launches
  <2>2. QED
    BY <1>2, <2>1, JobPut
<1>5. Tends(i)
  BY <1>1, <1>3, <1>4, Watching DEF Prunes, Settles, Concludes, Advances, Sweeping
<1>6. QED
  BY <1>3, <1>5 DEF Moves

\* A failure makes nothing due; what it dooms, and the end of the run, are for
\* the settle that follows it.
LEMMA FailMoves ==
  ASSUME RowInv, Live, NEW i \in Threads, Fail(i)
  PROVE  Moves(i)
<1> DEFINE t == th[i]
           c == th[i].cur
           u == [t EXCEPT !.pc = "list", !.marks = {}]
<1>1. /\ UNCHANGED <<queue, lock, late>> /\ t.pc = "fail" /\ Linked(t, status) /\ lock = None
      /\ status' = [status EXCEPT ![c] = "failed"]
  BY DEF Fail, At, world, Live, SetStatus, RunFree
<1>2. Become(i, u) /\ u.pc = "list" /\ u.cur = c /\ u.job = t.job
  BY Standing DEF Fail, Become, Activation
<1>3. c \in Steps /\ status[c] = "running"
  BY <1>1, Claimed DEF Owning
<1> HIDE DEF u
<1>4. Linked(u, status')
  BY <1>1, <1>2 DEF Linked, OfJob, Sweeping, AfterCompletion
<1>5. th'[i] = u /\ Orders(i)
  BY <1>1, <1>2, <1>4, OrderKeeps
<1>6. /\ status'[c] = "failed" /\ \A s \in Steps \ {c} : status'[s] = status[s]
      /\ \A s \in Steps : Due(status', s) => Due(status, s)
  <2> HIDE DEF c
  <2>1. QED
    BY <1>1, <1>3, OneChange
<1>7. Settles(th'[i])
  BY <1>2, <1>5 DEF Settles
<1>8. Tends(i)
  BY <1>1, <1>2, <1>3, <1>5, <1>6, <1>7
  DEF Tends, Changes, Launches, Prunes, Concludes, Advances
<1>9. QED
  BY <1>5, <1>8 DEF Moves

-----------------------------------------------------------------------------
(***************************************************************************)
(* Settle goes on with what it has read, whatever is true by now.          *)
(***************************************************************************)
\* A call past the completion, or with no job.
Carried(t, st) ==
  t.job # None => t.job = Exec(t.cur) /\ (Mortal => st[t.cur] = "completed")

LEMMA TerminateGoesOn ==
  ASSUME NEW t \in Activation, NEW sn, NEW st, Carried(t, st)
  PROVE  /\ Linked(ToTerminate(t, sn), st)
         /\ ToTerminate(t, sn).pc \in {"idle", "terminate"}
         /\ AllTerminal(sn) => Concludes(ToTerminate(t, sn))
<1>1. CASE AllTerminal(sn)
  <2> DEFINE u == [t EXCEPT !.pc = "terminate", !.snap = sn, !.todo = {}, !.marks = {}]
  <2>1. ToTerminate(t, sn) = u /\ u.pc = "terminate" /\ u.job = t.job /\ u.cur = t.cur
    BY <1>1 DEF ToTerminate, Activation
  <2> HIDE DEF u
  <2>2. QED
    BY <2>1 DEF Linked, Carried, OfJob, Sweeping, AfterCompletion, Concludes
<1>2. CASE ~AllTerminal(sn)
  BY <1>2, IdleIsLinked DEF ToTerminate
<1>3. QED
  BY <1>1, <1>2

LEMMA SettleGoesOn ==
  ASSUME NEW t \in Activation, NEW sn, NEW sk \in SUBSET Steps, NEW st, Carried(t, st)
  PROVE  /\ Linked(ToSettle(t, sn, sk), st)
         /\ ToSettle(t, sn, sk).pc \in {"idle", "cascade", "reread", "terminate"}
         /\ \A s \in SkipPlan(sn) : Prunes(ToSettle(t, sn, sk), s)
         /\ SkipPlan(sn) # {} \/ AllTerminal(sn) => Concludes(ToSettle(t, sn, sk))
<1>1. CASE SkipPlan(sn) # {}
  <2> DEFINE u == [t EXCEPT !.pc = "cascade", !.snap = None, !.todo = SkipPlan(sn),
                            !.marks = sk \cup SkipPlan(sn)]
  <2>1. /\ ToSettle(t, sn, sk) = u /\ u.pc = "cascade" /\ u.job = t.job /\ u.cur = t.cur
        /\ u.todo = SkipPlan(sn) /\ u.marks = sk \cup SkipPlan(sn)
    BY <1>1 DEF ToSettle, Activation
  <2> HIDE DEF u
  <2>2. QED
    BY <2>1 DEF Linked, Carried, OfJob, Sweeping, AfterCompletion, Concludes, Prunes
<1>2. CASE SkipPlan(sn) = {} /\ sk # {}
  <2> DEFINE u == [t EXCEPT !.pc = "reread", !.snap = None, !.todo = {}, !.marks = sk]
  <2>1. ToSettle(t, sn, sk) = u /\ u.pc = "reread" /\ u.job = t.job /\ u.cur = t.cur
    BY <1>2 DEF ToSettle, Activation
  <2> HIDE DEF u
  <2>2. QED
    BY <1>2, <2>1 DEF Linked, Carried, OfJob, Sweeping, AfterCompletion, Concludes
<1>3. CASE SkipPlan(sn) = {} /\ sk = {}
  BY <1>3, TerminateGoesOn DEF ToSettle
<1>4. QED
  BY <1>1, <1>2, <1>3

\* Once no effect is being undone, every settled row is terminal.
LEMMA OverIsTerminal ==
  ASSUME NEW st, OverIn(st), \A s \in Steps : st[s] \notin {"compensating", "compensated"}
  PROVE  AllTerminal(st) /\ Pending(st) = {} /\ SkipPlan(st) = {} /\ ReadyPlan(st) = {}
BY DEF OverIn, AllTerminal, TerminalStatuses, Pending, SkipPlan, ReadyPlan

-----------------------------------------------------------------------------
LEMMA CompleteMoves ==
  ASSUME RowInv, Live, NEW i \in Threads, Complete(i)
  PROVE  Moves(i)
<1> DEFINE t == th[i]
           c == th[i].cur
           st == Finished(status, t)
<1>1. /\ UNCHANGED <<queue, late>> /\ t.pc = "complete" /\ Linked(t, status) /\ lock = None
  BY DEF Complete, At, world, Live, RunFree
<1>2. /\ c \in Steps /\ status[c] = "running" /\ Lawful(status, st) /\ SoundRows(st)
      /\ st[c] = "completed" /\ \A r \in Steps \ {c} : st[r] = status[r]
  BY <1>1, Claimed, FinishingIsLawful, Standing DEF Owning, Finished, SoundRows, RowSet
<1>3. CASE AtomicDispatch
  <2> DEFINE u == [t EXCEPT !.pc = "commit", !.snap = st, !.todo = ReadyPlan(st)]
  <2>1. th'[i] = u /\ UNCHANGED status /\ lock' = i
    BY <1>3, Standing DEF Complete, Finished
  <2>2. /\ u.pc = "commit" /\ u.cur = c /\ u.job = t.job
        /\ u.snap = st /\ u.todo = ReadyPlan(st)
    BY Standing DEF Activation
  <2> HIDE DEF u
  <2>3. Linked(u, status')
    BY <1>1, <2>1, <2>2 DEF Linked, OfJob, Sweeping, AfterCompletion
  <2>4. Orders(i)
    BY <1>1, <2>1, <2>2, <2>3 DEF Orders, Live
  <2>5. SkipPlan(status) \subseteq SkipPlan(st)
    <3> SUFFICES ASSUME NEW s \in SkipPlan(status) PROVE s \in SkipPlan(st)
      OBVIOUS
    <3>1. s \in Steps /\ status[s] = "pending"
      BY DEF SkipPlan, Pending
    <3>2. st[s] = "pending"
      BY <1>2, <3>1
    <3> HIDE DEF st
    <3>3. QED
      BY <1>2, <3>2, PlanPersists, Standing
  <2>6. Abreast(u, status')
    <3> HIDE DEF st
    <3>1. QED
      BY <1>2, <2>1, <2>2, <2>5 DEF Abreast
  <2>7. Tends(i)
    BY <1>1, <2>1, <2>6, BareSeesToNothing, Watching DEF Bare
  <2>8. QED
    BY <2>4, <2>7 DEF Moves
<1>4. CASE ~AtomicDispatch
  <2> DEFINE u == [t EXCEPT !.pc = "frontier"]
  <2>1. status' = st /\ UNCHANGED lock /\ Become(i, u) /\ u.pc = "frontier" /\ u.cur = c /\ u.job = t.job
    BY <1>4, Going, Standing DEF Complete, Finished, Activation
  <2> HIDE DEF u
  <2>2. Linked(u, status')
    BY <1>1, <1>2, <2>1 DEF Linked, OfJob, Sweeping, AfterCompletion
  <2>3. th'[i] = u /\ Orders(i)
    BY <1>1, <2>1, <2>2, OrderKeeps
  <2>4. Driven'
    BY <2>1, <2>3 DEF Driven, Advances
  <2>5. Tends(i)
    BY <1>1, <1>2, <2>1, <2>3, <2>4 DEF Tends, Changes
  <2>6. QED
    BY <2>3, <2>5 DEF Moves
<1>5. QED
  BY <1>3, <1>4

(***************************************************************************)
(* What the completion makes due is in the plan it read, what can never    *)
(* run still is, and if it was the last step its reading shows it.         *)
(***************************************************************************)
LEMMA CommitMoves ==
  ASSUME Waits = {}, RowInv, Live, NEW i \in Threads, Commit(i)
  PROVE  Moves(i)
<1> DEFINE t == th[i]
           c == th[i].cur
           sn == th[i].snap
           u == ToSettle(t, sn, {})
<1>1. /\ UNCHANGED late /\ t.pc = "commit" /\ Linked(t, status) /\ lock = i /\ lock' = None
      /\ t \in Activation
  BY Standing DEF Commit, At, world, Live
<1>2. /\ c \in Steps /\ status[c] = "running"
      /\ Lawful(status, Finished(status, t)) /\ Finished(status, t) \in RowSet
  BY <1>1, Claimed, FinishingIsLawful, Standing DEF Owning, SoundRows
<1>3. status' = [status EXCEPT ![c] = "completed"]
  BY <1>2, NoWaits DEF Commit, Finished
<1>4. queue' = Put(queue, {Exec(s) : s \in t.todo}) /\ Become(i, u)
  BY NoWaits DEF Commit, Exec
<1>5. Carried(t, status')
  BY <1>1, <1>2, <1>3, OneChange DEF Carried, Linked
<1>6. /\ Linked(u, status') /\ u.pc \in {"idle", "cascade", "reread", "terminate"}
      /\ \A s \in SkipPlan(sn) : Prunes(u, s)
      /\ SkipPlan(sn) # {} \/ AllTerminal(sn) => Concludes(u)
  BY <1>1, <1>5, SettleGoesOn
<1> HIDE DEF u
<1>7. th'[i] = u
  BY <1>4, Standing DEF Become
<1>8. Orders(i)
  <2>1. \A s \in Steps : /\ queue[Exec(s)] > 0 => queue'[Exec(s)] > 0
                         /\ queue'[<<"timeout", s>>] = 0
    BY <1>4, PutKeeps
  <2>2. QED
    BY <1>1, <1>6, <1>7, <2>1 DEF Orders
<1>9. ASSUME Abreast(t, status) PROVE Tends(i)
  <2>1. /\ status'[c] = "completed" /\ \A s \in Steps \ {c} : status'[s] = status[s]
        /\ \A s \in Steps : Due(status', s) /\ ~Due(status, s) => c \in Deps[s]
    <3> HIDE DEF c
    <3>1. QED
      BY <1>2, <1>3, OneChange
  <2>2. ASSUME NEW s \in Steps, Due(status', s), ~Due(status, s)
        PROVE  queue'[Exec(s)] > 0
    <3>1. c \in Deps[s] /\ status'[s] = "pending" /\ s # c /\ status[s] = "pending"
      BY <2>1, <2>2 DEF Due
    <3>2. sn[s] = "pending"
      BY <1>9, <3>1 DEF Abreast
    <3>3. ASSUME NEW d \in Deps[s] PROVE StatusOf(sn, SkipPlan(sn), d) = status'[d]
      <4>1. d \in Steps /\ status'[d] \in Settled
        BY <2>2, GraphAssumption DEF Due
      <4>2. sn[d] = status'[d] \/ (status'[d] = "skipped" /\ d \in SkipPlan(sn))
        BY <1>9, <2>1, <4>1 DEF Abreast
      <4>3. d \in SkipPlan(sn) => sn[d] = "pending"
        BY DEF SkipPlan, Pending
      <4>4. QED
        BY <4>1, <4>2, <4>3 DEF StatusOf
    <3>4. s \in ReadyPlan(sn)
      BY <2>2, <3>2, <3>3, DueIsReady
    <3>5. QED
      BY <1>4, <1>9, <3>4, JobPut DEF Abreast
  <2>3. ~OverIn(status) /\ Lawful(status, status')
    BY <1>2, <1>3 DEF OverIn, Finished
  <2>4. SkipPlan(status') \subseteq SkipPlan(sn)
    <3>1. SkipPlan(status') \subseteq SkipPlan(status)
      BY <1>2, <1>3, <2>3, OneChangeDoomsNothing
    <3>2. QED
      BY <1>9, <3>1 DEF Abreast
  <2>5. OverIn(status') => Concludes(u)
    <3> SUFFICES ASSUME OverIn(status'), SkipPlan(sn) = {} PROVE AllTerminal(sn)
      BY <1>6
    <3>1. sn[c] = "completed"
      BY <1>9 DEF Abreast
    <3>2. \A r \in Steps \ {c} : sn[r] = status[r] /\ status[r] \in Settled
      BY <1>9, <2>1 DEF Abreast, OverIn
    <3>3. QED
      BY <3>1, <3>2 DEF AllTerminal, TerminalStatuses, Live
  <2>6. ~Advances(t, status) /\ \A s : ~Launches(t, s)
    BY <1>1, BareSeesToNothing DEF Bare
  <2>7. QED
    BY <1>1, <1>2, <1>6, <1>7, <2>1, <2>2, <2>4, <2>5, <2>6 DEF Tends, Changes
<1>10. QED
  BY <1>1, <1>8, <1>9 DEF Moves, Tended

-----------------------------------------------------------------------------
(***************************************************************************)
(* The frontier and settle, each handing on to the next what it sees to.   *)
(***************************************************************************)
LEMMA Carries ==
  ASSUME RowInv, Live, NEW i \in Threads, th[i].pc \in AfterCompletion \cup {"list"}
  PROVE  Carried(th[i], status) /\ Linked(th[i], status) /\ th[i] \in Activation
<1>1. None \notin Job /\ Linked(th[i], status)
  BY EngineAssumption DEF Live
<1>2. QED
  BY <1>1, Standing DEF Linked, Carried

LEMMA FrontierMoves ==
  ASSUME RowInv, Live, NEW i \in Threads, Frontier(i)
  PROVE  Moves(i)
<1> DEFINE t == th[i]
           u == [t EXCEPT !.pc = IF AtomicDispatch /\ t.job # None THEN "advance" ELSE "send",
                          !.snap = status, !.todo = ReadyPlan(status)]
<1>1. /\ UNCHANGED <<status, queue, lock, late>> /\ t.pc = "frontier"
      /\ Carried(t, status) /\ Linked(t, status)
  BY Carries DEF Frontier, At, rows, world, AfterCompletion
<1>2. /\ Become(i, u) /\ u.pc \in {"advance", "send"} /\ u.cur = t.cur /\ u.job = t.job
      /\ u.snap = status /\ u.todo = ReadyPlan(status)
  BY Standing DEF Frontier, Become, Activation
<1> HIDE DEF u
<1>3. Linked(u, status')
  BY <1>1, <1>2 DEF Linked, Carried, OfJob, Sweeping
<1>4. th'[i] = u /\ Orders(i)
  BY <1>1, <1>2, <1>3, OrderKeeps
<1>5. \A s \in Steps : Due(status, s) => Launches(u, s)
  BY <1>2, DueNow DEF Launches
<1>6. \A s \in SkipPlan(status) : Prunes(u, s)
  BY <1>2 DEF Prunes
<1>7. OverIn(status) => Concludes(u)
  BY <1>2, OverIsTerminal DEF Concludes, Live
<1>8. Tends(i)
  BY <1>1, <1>2, <1>4, <1>5, <1>6, <1>7 DEF Tends, Changes
<1>9. QED
  BY <1>4, <1>8 DEF Moves

\* The jobs of the plan are sent, and the settle that follows has the rest of it.
LEMMA AdvanceMoves ==
  ASSUME Waits = {}, RowInv, Live, NEW i \in Threads, Advance(i)
  PROVE  Moves(i)
<1> DEFINE t == th[i]
           u == ToSettle(t, t.snap, {})
<1>1. /\ UNCHANGED <<lock, late>> /\ t.pc = "advance"
      /\ Carried(t, status) /\ Linked(t, status) /\ t \in Activation
  BY Carries DEF Advance, At, world, AfterCompletion
<1>2. /\ UNCHANGED status /\ queue' = Put(queue, {Exec(s) : s \in t.todo})
      /\ Become(i, u)
  BY NoWaits, Standing DEF Advance, SoundRows, Exec
<1>3. /\ Linked(u, status') /\ u.pc \in {"idle", "cascade", "reread", "terminate"}
      /\ \A s \in SkipPlan(t.snap) : Prunes(u, s)
      /\ SkipPlan(t.snap) # {} \/ AllTerminal(t.snap) => Concludes(u)
  BY <1>1, <1>2, SettleGoesOn
<1> HIDE DEF u
<1>4. th'[i] = u /\ Orders(i)
  BY <1>1, <1>2, <1>3, OrderKeeps
<1>5. \A s \in Steps : Launches(t, s) => queue'[Exec(s)] > 0
  BY <1>1, <1>2, JobPut DEF Launches
<1>6. Tends(i)
  BY <1>1, <1>2, <1>3, <1>4, <1>5, Watching DEF Prunes, Settles, Concludes, Advances, Sweeping
<1>7. QED
  BY <1>4, <1>6 DEF Moves

\* One dispatch without waits: a job.
LEMMA OneSent ==
  ASSUME Waits = {}, RowInv, NEW i \in Threads, NEW s, DispatchOne(i, s)
  PROVE  UNCHANGED status /\ queue' = Put(queue, {Exec(d) : d \in {s}})
<1>1. UNCHANGED status
  BY NoWaits, Standing DEF DispatchOne, SoundRows
<1>2. queue' = Put(queue, {Exec(d) : d \in {s}})
  BY NoWaits, NothingForbidden DEF DispatchOne, Forbidden, Exec
<1>3. QED
  BY <1>1, <1>2

LEMMA SendMoves ==
  ASSUME Waits = {}, RowInv, Live, NEW i \in Threads, Send(i)
  PROVE  Moves(i)
<1> DEFINE t == th[i]
<1>1. /\ UNCHANGED <<lock, late>> /\ t.pc = "send"
      /\ Carried(t, status) /\ Linked(t, status) /\ t \in Activation
  BY Carries DEF Send, At, AfterCompletion
<1>2. ASSUME NEW s \in t.todo, DispatchOne(i, s), th' = [th EXCEPT ![i].todo = @ \ {s}]
      PROVE  Moves(i)
  <2> DEFINE u == [t EXCEPT !.todo = @ \ {s}]
  <2>1. UNCHANGED status /\ queue' = Put(queue, {Exec(d) : d \in {s}})
    BY <1>2, OneSent
  <2>2. /\ Become(i, u) /\ u.pc = "send" /\ u.job = t.job /\ u.cur = t.cur
        /\ u.snap = t.snap /\ u.todo = t.todo \ {s}
    BY <1>1, <1>2, Standing DEF Become, Activation
  <2> HIDE DEF u
  <2>3. Linked(u, status')
    BY <1>1, <2>1, <2>2 DEF Linked, Carried, OfJob, Sweeping
  <2>4. th'[i] = u /\ Orders(i)
    BY <1>1, <2>1, <2>2, <2>3, OrderKeeps
  <2>5. \A d \in Steps : Launches(t, d) => queue'[Exec(d)] > 0 \/ Launches(u, d)
    <3>1. \A d \in Steps : Launches(t, d) => d \in {s} \/ Launches(u, d)
      BY <1>1, <2>2 DEF Launches
    <3>2. QED
      BY <2>1, <3>1, JobPut
  <2>6. Tends(i)
    BY <1>1, <2>1, <2>2, <2>4, <2>5, Watching DEF Prunes, Settles, Concludes, Advances, Sweeping
  <2>7. QED
    BY <2>4, <2>6 DEF Moves
<1>3. CASE t.todo = {} /\ Become(i, ToSettle(t, t.snap, {})) /\ UNCHANGED <<status, queue, budget>>
  <2> DEFINE u == ToSettle(t, t.snap, {})
  <2>1. /\ Linked(u, status') /\ u.pc \in {"idle", "cascade", "reread", "terminate"}
        /\ \A s \in SkipPlan(t.snap) : Prunes(u, s)
        /\ SkipPlan(t.snap) # {} \/ AllTerminal(t.snap) => Concludes(u)
    BY <1>1, <1>3, SettleGoesOn
  <2>2. Become(i, u)
    BY <1>3
  <2> HIDE DEF u
  <2>3. th'[i] = u /\ Orders(i)
    BY <1>1, <1>3, <2>1, <2>2, OrderKeeps
  <2>4. \A s \in Steps : ~Launches(t, s)
    BY <1>1, <1>3 DEF Launches
  <2>5. Tends(i)
    BY <1>1, <1>3, <2>1, <2>3, <2>4, Watching DEF Prunes, Settles, Concludes, Advances, Sweeping
  <2>6. QED
    BY <2>3, <2>5 DEF Moves
<1>4. QED
  BY <1>2, <1>3 DEF Send

LEMMA ListMoves ==
  ASSUME RowInv, Live, NEW i \in Threads, List(i)
  PROVE  Moves(i)
<1> DEFINE t == th[i]
           u == ToSettle(t, status, t.marks)
<1>1. /\ UNCHANGED <<status, queue, lock, late>> /\ t.pc = "list" /\ Become(i, u)
      /\ Carried(t, status) /\ t \in Activation /\ t.marks \in SUBSET Steps
  BY Carries DEF List, At, rows, world, Activation
<1>2. /\ Linked(u, status') /\ u.pc \in {"idle", "cascade", "reread", "terminate"}
      /\ \A s \in SkipPlan(status) : Prunes(u, s)
      /\ SkipPlan(status) # {} \/ AllTerminal(status) => Concludes(u)
  BY <1>1, SettleGoesOn
<1> HIDE DEF u
<1>3. th'[i] = u /\ Orders(i)
  BY <1>1, <1>2, OrderKeeps
<1>4. OverIn(status) => Concludes(u)
  BY <1>2, OverIsTerminal DEF Live
<1>5. Tends(i)
  BY <1>1, <1>2, <1>3, <1>4, Watching DEF Launches, Advances
<1>6. QED
  BY <1>3, <1>5 DEF Moves

\* A skip makes due only what the skipping call will look for when it has read
\* the rows again.
LEMMA CascadeMoves ==
  ASSUME RowInv, Live, NEW i \in Threads, Cascade(i)
  PROVE  Moves(i)
<1> DEFINE t == th[i]
<1>1. /\ UNCHANGED <<queue, lock, late>> /\ t.pc = "cascade"
      /\ Carried(t, status) /\ Linked(t, status) /\ t.todo \subseteq t.marks
  BY Carries DEF Cascade, At, world, AfterCompletion, Linked
<1>2. PICK c \in t.todo : /\ status' = [status EXCEPT ![c] = "skipped"]
                          /\ th' = [th EXCEPT ![i].todo = @ \ {c},
                                              ![i].pc = IF t.todo = {c} THEN "reread" ELSE @]
  BY DEF Cascade, SetStatus
<1>3. c \in Steps /\ status[c] \in {"pending", "skipped"} /\ DoomedIn(status, t.todo)
  BY <1>1, Standing DEF GoodCall, Snapshot, DoomedIn, Activation
<1> DEFINE u == [t EXCEPT !.todo = @ \ {c}, !.pc = IF t.todo = {c} THEN "reread" ELSE @]
<1>4. /\ Become(i, u) /\ u.job = t.job /\ u.cur = t.cur /\ u.todo = t.todo \ {c} /\ u.marks = t.marks
      /\ u.pc = IF t.todo = {c} THEN "reread" ELSE "cascade"
  BY <1>1, <1>2, Standing DEF Become, Activation
<1> HIDE DEF u
<1>5. /\ status'[c] = "skipped" /\ \A s \in Steps \ {c} : status'[s] = status[s]
      /\ \A s \in Steps : Due(status', s) /\ ~Due(status, s) => c \in Deps[s]
  BY <1>2, <1>3, OneChange
<1>6. Linked(u, status')
  <2>1. t.job # None => t.job = Exec(t.cur) /\ t.cur \in Steps
    BY <1>1, Standing DEF Carried, GoodCall, JobOf, Exec, Job
  <2>2. Mortal /\ t.job # None => status'[t.cur] = "completed"
    BY <1>1, <1>3, <1>5, <2>1 DEF Carried
  <2>3. QED
    BY <1>1, <1>4, <2>1, <2>2 DEF Linked, OfJob, Sweeping
<1>7. th'[i] = u /\ Orders(i)
  BY <1>1, <1>4, <1>6, OrderKeeps
<1>8. \A s \in Steps : Launches(t, s) \/ c \in Deps[s] => Launches(u, s)
  BY <1>1, <1>4 DEF Launches
<1>9. /\ SkipPlan(status') \subseteq SkipPlan(status)
      /\ \A s \in SkipPlan(status') : Prunes(t, s) => Prunes(u, s)
  <2>1. CASE status[c] = "skipped"
    <3>1. status' = status
      BY <1>2, <2>1, Standing DEF SoundRows, RowSet
    <3>2. \A s \in SkipPlan(status) : Prunes(t, s) => s \in t.todo /\ s # c
      BY <1>1, <2>1 DEF Prunes, Settles, Sweeping, SkipPlan, Pending
    <3>3. QED
      BY <1>4, <3>1, <3>2 DEF Prunes
  <2>2. CASE status[c] = "pending"
    <3>1. ~OverIn(status) /\ Lawful(status, status') /\ c \in SkipPlan(status)
      BY <1>2, <1>3, <2>2, Standing DEF OverIn, Lawful, SoundRows, RowSet, DoomedIn
    <3>2. \A s \in SkipPlan(status') : Prunes(t, s) => s \in t.todo /\ s # c
      BY <1>1, <1>5 DEF Prunes, Settles, Sweeping, SkipPlan, Pending
    <3>3. QED
      BY <1>2, <1>3, <1>4, <3>1, <3>2, OneChangeDoomsNothing DEF Prunes
  <2>3. QED
    BY <1>3, <2>1, <2>2
<1>10. Concludes(u) /\ ~Advances(t, status) /\ u.pc # "commit"
  BY <1>1, <1>4 DEF Concludes, Advances
<1>11. Tends(i)
  BY <1>1, <1>3, <1>5, <1>7, <1>8, <1>9, <1>10 DEF Tends, Changes
<1>12. QED
  BY <1>7, <1>11 DEF Moves

\* What a skip has made due is unblocked; if something is, the run is not over.
LEMMA RereadMoves ==
  ASSUME RowInv, Live, NEW i \in Threads, Reread(i)
  PROVE  Moves(i)
<1> DEFINE t == th[i]
           D == {s \in ReadyPlan(status) : Deps[s] \cap t.marks # {}}
<1>1. /\ UNCHANGED <<status, queue, lock, late>> /\ t.pc = "reread"
      /\ Carried(t, status) /\ Linked(t, status) /\ t \in Activation
  BY Carries DEF Reread, At, rows, world, AfterCompletion
<1>2. \A s \in Steps : Due(status, s) /\ Launches(t, s) => s \in D
  BY <1>1, DueNow DEF Launches
<1>3. OverIn(status) => D = {} /\ AllTerminal(status)
  BY OverIsTerminal DEF Live
<1>4. CASE D = {}
  <2> DEFINE u == ToTerminate(t, status)
  <2>1. /\ Become(i, u) /\ Linked(u, status') /\ u.pc \in {"idle", "terminate"}
        /\ AllTerminal(status) => Concludes(u)
    BY <1>1, <1>4, TerminateGoesOn DEF Reread
  <2> HIDE DEF u
  <2>2. th'[i] = u /\ Orders(i)
    BY <1>1, <2>1, OrderKeeps
  <2>3. Tends(i)
    BY <1>1, <1>2, <1>3, <1>4, <2>1, <2>2, Watching DEF Prunes, Settles, Advances, Sweeping
  <2>4. QED
    BY <2>2, <2>3 DEF Moves
<1>5. CASE D # {}
  <2> DEFINE u == [t EXCEPT !.pc = "unblock", !.snap = status, !.todo = D]
  <2>1. Become(i, u)
    BY <1>5, Standing DEF Reread, Become
  <2> HIDE DEF D
  <2>2. u.pc = "unblock" /\ u.job = t.job /\ u.cur = t.cur /\ u.todo = D
    BY Standing DEF Activation
  <2> HIDE DEF u
  <2>3. Linked(u, status')
    BY <1>1, <2>2 DEF Linked, Carried, OfJob, Sweeping
  <2>4. th'[i] = u /\ Orders(i)
    BY <1>1, <2>1, <2>2, <2>3, OrderKeeps
  <2>5. Tends(i)
    BY <1>1, <1>2, <1>3, <1>5, <2>2, <2>4, Watching DEF Launches, Prunes, Settles, Advances, Sweeping
  <2>6. QED
    BY <2>4, <2>5 DEF Moves
<1>6. QED
  BY <1>4, <1>5

LEMMA UnblockMoves ==
  ASSUME Waits = {}, RowInv, Live, NEW i \in Threads, Unblock(i)
  PROVE  Moves(i)
<1> DEFINE t == th[i]
<1>1. /\ UNCHANGED <<lock, late>> /\ t.pc = "unblock"
      /\ Carried(t, status) /\ Linked(t, status) /\ t \in Activation
  BY Carries DEF Unblock, At, AfterCompletion
<1>2. PICK s \in t.todo :
        /\ DispatchOne(i, s)
        /\ Become(i, IF t.todo = {s} THEN ToTerminate(t, t.snap) ELSE [t EXCEPT !.todo = @ \ {s}])
  BY DEF Unblock
<1>3. UNCHANGED status /\ queue' = Put(queue, {Exec(d) : d \in {s}})
  BY <1>2, OneSent
<1>4. PICK u : /\ Become(i, u) /\ Linked(u, status') /\ u.pc \in {"idle", "terminate", "unblock"}
               /\ \A d \in Steps : Launches(t, d) => d \in {s} \/ Launches(u, d)
  <2>1. CASE t.todo = {s}
    <3>1. \A d \in Steps : Launches(t, d) => d \in {s}
      BY <1>1, <2>1 DEF Launches
    <3>2. QED
      BY <1>1, <1>2, <1>3, <2>1, <3>1, TerminateGoesOn
  <2>2. CASE t.todo # {s}
    <3> DEFINE u == [t EXCEPT !.todo = @ \ {s}]
    <3>1. Become(i, u) /\ u.pc = "unblock" /\ u.job = t.job /\ u.cur = t.cur /\ u.todo = t.todo \ {s}
      BY <1>1, <1>2, <2>2 DEF Activation
    <3> HIDE DEF u
    <3>2. Linked(u, status')
      BY <1>1, <1>3, <3>1 DEF Linked, Carried, OfJob, Sweeping
    <3>3. \A d \in Steps : Launches(t, d) => d \in {s} \/ Launches(u, d)
      BY <1>1, <3>1 DEF Launches
    <3>4. QED
      BY <3>1, <3>2, <3>3
  <2>3. QED
    BY <2>1, <2>2
<1>5. th'[i] = u /\ Orders(i)
  BY <1>1, <1>3, <1>4, OrderKeeps
<1>6. \A d \in Steps : Launches(t, d) => queue'[Exec(d)] > 0 \/ Launches(u, d)
  BY <1>3, <1>4, JobPut
<1>7. Tends(i)
  BY <1>1, <1>3, <1>4, <1>5, <1>6, Watching DEF Prunes, Settles, Concludes, Advances, Sweeping
<1>8. QED
  BY <1>5, <1>7 DEF Moves

LEMMA TerminateMoves ==
  ASSUME RowInv, Live, wf = "running", NEW i \in Threads, Terminate(i)
  PROVE  Moves(i)
<1> DEFINE t == th[i]
           u == [t EXCEPT !.pc = "finish"]
<1>1. /\ UNCHANGED <<status, queue, lock, late>> /\ t.pc = "terminate"
      /\ Carried(t, status) /\ Linked(t, status)
  BY Carries DEF Terminate, At, rows, world, AfterCompletion
<1>2. Become(i, u) /\ u.pc = "finish" /\ u.job = t.job /\ u.cur = t.cur
  BY Going, Standing DEF Terminate, Activation
<1> HIDE DEF u
<1>3. Linked(u, status')
  BY <1>1, <1>2 DEF Linked, Carried, OfJob, Sweeping
<1>4. th'[i] = u /\ Orders(i)
  BY <1>1, <1>2, <1>3, OrderKeeps
<1>5. Tends(i)
  BY <1>1, <1>2, <1>4, Watching DEF Launches, Prunes, Settles, Concludes, Advances, Sweeping
<1>6. QED
  BY <1>4, <1>5 DEF Moves

-----------------------------------------------------------------------------
(***************************************************************************)
(* The sweep, the ways to end a run early, and the environment.            *)
(***************************************************************************)
\* Once somebody is ending the run, what its rows owe is no longer asked.
LEMMA SkipPendingMoves ==
  ASSUME RowInv, Live, NEW i \in Threads, SkipPendingSteps(i)
  PROVE  Moves(i)
<1> DEFINE t == th[i]
           u == [t EXCEPT !.pc = IF At(i, "cancel") THEN "cancelled" ELSE "expired"]
<1>1. /\ UNCHANGED <<queue, lock, late>> /\ t.pc \in {"cancel", "expire"}
      /\ Linked(t, status) /\ (t.pc = "expire" => late)
  BY DEF SkipPendingSteps, world, Live
<1>2. /\ th'[i] = u /\ u.job = t.job /\ u.cur = t.cur
      /\ u.pc = IF t.pc = "cancel" THEN "cancelled" ELSE "expired"
  BY Standing DEF SkipPendingSteps, Goto, Activation, At
<1> HIDE DEF u
<1>3. Linked(u, status') /\ (u.pc = "expired" => late) /\ u.pc \in {"cancelled", "expired"}
  BY <1>1, <1>2 DEF Linked, OfJob, Sweeping, AfterCompletion
<1>4. Interrupted'
  BY <1>2, <1>3 DEF Interrupted
<1>5. Orders(i)
  BY <1>1, <1>2, <1>3, <1>4 DEF Orders, Live
<1>6. QED
  BY <1>4, <1>5 DEF Moves

LEMMA CancelMoves ==
  ASSUME RowInv, Live, NEW i \in Threads, Cancel(i)
  PROVE  Moves(i)
<1> DEFINE u == [Idle EXCEPT !.pc = "cancel"]
<1>1. UNCHANGED <<status, queue, lock, late>> /\ th[i].pc = "idle" /\ Become(i, u)
  BY DEF Cancel, At, rows
<1>2. u.pc = "cancel" /\ u.job = None
  BY DEF Idle
<1> HIDE DEF u
<1>3. Linked(u, status')
  BY <1>2 DEF Linked, OfJob, Sweeping, AfterCompletion
<1>4. th'[i] = u /\ Orders(i)
  BY <1>1, <1>2, <1>3, OrderKeeps
<1>5. Interrupted'
  BY <1>2, <1>4 DEF Interrupted
<1>6. QED
  BY <1>4, <1>5 DEF Moves

LEMMA SweepMoves ==
  ASSUME RowInv, Live, NEW i \in Threads, Sweep(i)
  PROVE  Moves(i)
<1>1. UNCHANGED <<status, queue, lock, late>> /\ th[i].pc = "idle"
  BY DEF Sweep, At, rows
<1>2. CASE late /\ Become(i, [Idle EXCEPT !.pc = "expire"])
  <2> DEFINE u == [Idle EXCEPT !.pc = "expire"]
  <2>1. th'[i] = u /\ u.pc = "expire" /\ u.job = None
    BY <1>2, Standing DEF Become, Idle
  <2> HIDE DEF u
  <2>2. Linked(u, status') /\ Interrupted'
    BY <2>1 DEF Linked, OfJob, Sweeping, AfterCompletion, Interrupted
  <2>3. Orders(i)
    BY <1>1, <1>2, <2>1, <2>2 DEF Orders, Live
  <2>4. QED
    BY <2>2, <2>3 DEF Moves
<1>3. ASSUME NEW D, NEW E, Become(i, [Idle EXCEPT !.pc = "sweep", !.todo = D, !.marks = E])
      PROVE  Moves(i)
  <2> DEFINE u == [Idle EXCEPT !.pc = "sweep", !.todo = D, !.marks = E]
  <2>1. Become(i, u) /\ u.pc = "sweep" /\ u.job = None
    BY <1>3 DEF Idle
  <2> HIDE DEF u
  <2>2. Linked(u, status')
    BY <2>1 DEF Linked, OfJob, Sweeping, AfterCompletion
  <2>3. th'[i] = u /\ Orders(i)
    BY <1>1, <2>1, <2>2, OrderKeeps
  <2>4. QED
    BY <1>1, <2>1, <2>3, Resuming DEF Moves, Bare
<1>4. QED
  BY <1>2, <1>3 DEF Sweep

\* Where a sweep that has failed a row goes on, it still has to settle the run.
LEMMA SuspectsSettle ==
  ASSUME NEW t \in Activation, NEW st, t.job = None
  PROVE  /\ Linked(NextSuspect(t), st)
         /\ NextSuspect(t).pc \in {"idle", "list", "sweep"}
         /\ t.tries = 1 => Settles(NextSuspect(t))
<1>1. CASE t.todo \cup t.marks # {}
  <2> DEFINE u == [t EXCEPT !.pc = "sweep", !.cur = None]
  <2>1. NextSuspect(t) = u /\ u.pc = "sweep" /\ u.job = None /\ u.tries = t.tries
    BY <1>1 DEF NextSuspect, Activation
  <2> HIDE DEF u
  <2>2. QED
    BY <2>1 DEF Linked, OfJob, Sweeping, AfterCompletion, Settles
<1>2. CASE t.todo \cup t.marks = {} /\ t.tries = 1
  <2> DEFINE u == [Idle EXCEPT !.pc = "list"]
  <2>1. NextSuspect(t) = u /\ u.pc = "list" /\ u.job = None
    BY <1>2 DEF NextSuspect, Idle
  <2> HIDE DEF u
  <2>2. QED
    BY <2>1 DEF Linked, OfJob, Sweeping, AfterCompletion, Settles
<1>3. CASE t.todo \cup t.marks = {} /\ t.tries # 1
  BY <1>3, IdleIsLinked DEF NextSuspect
<1>4. QED
  BY <1>1, <1>2, <1>3

LEMMA SweepRetryMoves ==
  ASSUME RowInv, Live, NEW i \in Threads, SweepRetry(i)
  PROVE  Moves(i)
<1> DEFINE t == th[i]
<1>1. /\ UNCHANGED <<queue, lock, late>> /\ t.pc = "sweep" /\ t.job = None
  BY DEF SweepRetry, At, world, Live, Linked, Sweeping
<1>2. PICK c \in t.todo : /\ status' = [status EXCEPT ![c] = "pending"]
                          /\ th' = [th EXCEPT ![i].pc = "sweepSend", ![i].cur = c,
                                              ![i].todo = @ \ {c}]
  BY DEF SweepRetry, SetStatus
<1> DEFINE u == [t EXCEPT !.pc = "sweepSend", !.cur = c, !.todo = @ \ {c}]
<1>3. Become(i, u) /\ u.pc = "sweepSend" /\ u.cur = c /\ u.job = None /\ u.tries = t.tries
  BY <1>1, <1>2, Standing DEF Become, Activation
<1>4. c \in Steps /\ status[c] = "running"
  BY <1>1, Listed DEF Sweeping
<1> HIDE DEF u
<1>5. Linked(u, status')
  BY <1>3 DEF Linked, OfJob, Sweeping, AfterCompletion
<1>6. th'[i] = u /\ Orders(i)
  BY <1>1, <1>3, <1>5, OrderKeeps
<1>7. /\ status'[c] = "pending" /\ \A s \in Steps \ {c} : status'[s] = status[s]
      /\ \A s \in Steps \ {c} : Due(status', s) => Due(status, s)
  BY <1>2, <1>4, OneChange
<1>8. ~OverIn(status) /\ ~OverIn(status') /\ Lawful(status, status')
  BY <1>2, <1>4, <1>7, Standing DEF OverIn, Lawful, SoundRows, RowSet
<1>9. SkipPlan(status') \subseteq SkipPlan(status)
  BY <1>2, <1>4, <1>8, OneChangeDoomsNothing
<1>10. Tends(i)
  BY <1>1, <1>3, <1>4, <1>6, <1>7, <1>8, <1>9
  DEF Tends, Changes, Launches, Prunes, Settles, Advances, Sweeping
<1>11. QED
  BY <1>6, <1>10 DEF Moves

LEMMA SweepSendMoves ==
  ASSUME RowInv, Live, NEW i \in Threads, SweepSend(i)
  PROVE  Moves(i)
<1> DEFINE t == th[i]
           u == NextSuspect(t)
<1>1. /\ UNCHANGED <<status, lock, late>> /\ t.pc = "sweepSend" /\ t.job = None
      /\ Become(i, u) /\ queue' = Put(queue, {<<"execute", t.cur>>})
  BY NothingForbidden DEF SweepSend, At, rows, Forbidden, Live, Linked, Sweeping
<1>2. queue' = Put(queue, {Exec(s) : s \in {t.cur}})
  <2>1. {Exec(s) : s \in {t.cur}} = {<<"execute", t.cur>>}
    BY DEF Exec
  <2>2. QED
    BY <1>1, <2>1
<1>3. /\ Linked(u, status') /\ u.pc \in {"idle", "list", "sweep"}
      /\ t.tries = 1 => Settles(u)
  BY <1>1, Standing, SuspectsSettle
<1> HIDE DEF u
<1>4. th'[i] = u /\ Orders(i)
  BY <1>1, <1>2, <1>3, OrderKeeps
<1>5. \A s \in Steps : Launches(t, s) => queue'[Exec(s)] > 0
  <2>1. \A s \in Steps : Launches(t, s) => s \in {t.cur}
    BY <1>1 DEF Launches
  <2>2. QED
    BY <1>2, <2>1, JobPut
<1>6. (Concludes(t) \/ \E s : Prunes(t, s)) => Settles(u)
  BY <1>1, <1>3 DEF Prunes, Settles, Concludes
<1>7. ~Advances(t, status) /\ (Settles(u) => Concludes(u) /\ \A s : Prunes(u, s))
  BY <1>1 DEF Advances, Concludes, Prunes
<1>8. Tends(i)
  BY <1>1, <1>3, <1>4, <1>5, <1>6, <1>7, Watching
<1>9. QED
  BY <1>4, <1>8 DEF Moves

LEMMA SweepFailMoves ==
  ASSUME RowInv, Live, NEW i \in Threads, SweepFail(i)
  PROVE  Moves(i)
<1> DEFINE t == th[i]
<1>1. /\ UNCHANGED <<queue, lock, late>> /\ t.pc = "sweep" /\ t.job = None /\ lock = None
  BY DEF SweepFail, At, world, Live, Linked, Sweeping, RunFree
<1>2. PICK c \in t.marks : /\ status' = [status EXCEPT ![c] = "failed"]
                           /\ Become(i, NextSuspect([t EXCEPT !.marks = @ \ {c}, !.tries = 1]))
  BY DEF SweepFail, SetStatus
<1> DEFINE v == [t EXCEPT !.marks = @ \ {c}, !.tries = 1]
           u == NextSuspect(v)
<1>3. v \in Activation /\ v.job = None /\ v.tries = 1 /\ Become(i, u)
  BY <1>1, <1>2, Standing DEF Activation
<1>4. c \in Steps /\ status[c] = "running"
  BY <1>1, Listed DEF Sweeping
<1> HIDE DEF v
<1>5. Linked(u, status') /\ u.pc \in {"idle", "list", "sweep"} /\ Settles(u)
  BY <1>3, SuspectsSettle
<1> HIDE DEF u
<1>6. th'[i] = u /\ Orders(i)
  BY <1>1, <1>3, <1>5, OrderKeeps
<1>7. /\ status'[c] = "failed" /\ \A s \in Steps \ {c} : status'[s] = status[s]
      /\ \A s \in Steps : Due(status', s) => Due(status, s)
  BY <1>2, <1>4, OneChange
<1>8. Tends(i)
  BY <1>1, <1>4, <1>5, <1>6, <1>7 DEF Tends, Changes, Launches, Prunes, Concludes, Advances
<1>9. QED
  BY <1>6, <1>8 DEF Moves

\* The job of a call that dies is queued again, and takes up what it has left.
LEMMA CrashMoves ==
  ASSUME Attended, RowInv, Live, NEW i \in Threads, Crash(i)
  PROVE  Moves(i)
<1> DEFINE t == th[i]
           c == th[i].cur
<1>1. /\ UNCHANGED <<status, late>> /\ th'[i] = Idle /\ Idle.pc = "idle" /\ Linked(t, status)
      /\ lock' = lock \/ lock = i
  BY Standing DEF Crash, rows, Rest, Become, Live, Idle
<1>2. /\ Mortal /\ t.job # None /\ t.job = Exec(c) /\ c \in Steps
      /\ queue' = Put(queue, {t.job} \cap Job)
  <2>1. ~Spend("callercrash") /\ ~Spend("deadletter")
    BY NothingForbidden DEF Attended, RowInv, Spared, Spend, Events, Forbidden
  <2>2. t.job # None /\ Spend("crash") /\ queue' = Put(queue, {t.job} \cap Job)
    BY <2>1 DEF Crash
  <2>3. Mortal
    BY <2>2 DEF Spend, Mortal
  <2>4. t.job = Exec(c) /\ t.job \in Job
    BY <1>1, <2>2, Standing DEF Linked, GoodCall, JobOf
  <2>5. QED
    BY <2>2, <2>3, <2>4 DEF Exec, Job
<1>3. queue' = Put(queue, {Exec(s) : s \in {c}})
  <2>1. {t.job} \cap Job = {Exec(s) : s \in {c}}
    BY <1>2 DEF Exec, Job
  <2>2. QED
    BY <1>2, <2>1
<1>4. queue'[Exec(c)] > 0
  BY <1>2, <1>3, JobPut
<1>5. t.pc \in Closing => late
  BY <1>1, <1>2 DEF Linked, Live
<1>6. Orders(i)
  <2>1. Linked(Idle, status')
    BY IdleIsLinked
  <2>2. t.pc \in Closing \/ (late /\ t.pc = "begin") => Interrupted'
    BY <1>1, <1>2, <1>4, <1>5 DEF Interrupted
  <2>3. QED
    BY <1>1, <1>3, <2>1, <2>2, PutKeeps DEF Orders
<1>7. t.pc \in AfterCompletion \/ Advances(t, status) => Driven'
  <2>1. t.pc \in AfterCompletion \/ Advances(t, status) => status[c] = "completed"
    BY <1>1, <1>2 DEF Linked, Advances, AfterCompletion
  <2>2. QED
    BY <1>1, <1>2, <1>4, <2>1 DEF Driven
<1>8. ~Settles(t) /\ t.pc # "sweepSend"
  BY <1>1, <1>2 DEF Linked, Settles, Sweeping
<1>9. \A s \in Steps : Launches(t, s) => s = c \/ Driven'
  BY <1>7, <1>8 DEF Launches, AfterCompletion
<1>10. (Concludes(t) \/ \E s : Prunes(t, s)) => Driven'
  BY <1>7, <1>8 DEF Concludes, Prunes, AfterCompletion
<1>11. Tends(i)
  BY <1>1, <1>4, <1>7, <1>9, <1>10 DEF Tends, Changes
<1>12. QED
  BY <1>6, <1>11 DEF Moves

LEMMA RedeliverMoves ==
  ASSUME RowInv, Live, NEW i \in Threads, Redeliver(i)
  PROVE  Moves(i)
<1> DEFINE t == th[i]
<1>1. /\ UNCHANGED <<status, th, late, lock>> /\ t.job \in Job /\ queue' = Put(queue, {t.job})
  BY DEF Redeliver, rows
<1>2. t.job = Exec(t.cur)
  BY <1>1, EngineAssumption DEF Live, Linked
<1>3. queue' = Put(queue, {Exec(s) : s \in {t.cur}})
  <2>1. {t.job} = {Exec(s) : s \in {t.cur}}
    BY <1>2
  <2>2. QED
    BY <1>1, <2>1
<1>4. Orders(i)
  <2>1. t.pc \in Closing \/ (late /\ t.pc = "begin") => Interrupted'
    BY <1>1 DEF Interrupted
  <2>2. QED
    BY <1>1, <1>3, <2>1, PutKeeps DEF Orders, Live
<1>5. ASSUME Tended PROVE Tends(i)
  BY <1>1, <1>5 DEF Tends, Changes, Tended, Driven
<1>6. QED
  BY <1>4, <1>5 DEF Moves

-----------------------------------------------------------------------------
(***************************************************************************)
(* An attended run under way: whoever acts keeps it tended.                *)
(***************************************************************************)
LEMMA DeadlineTends ==
  ASSUME RowInv, Live, Interrupted \/ Tended, PassDeadline
  PROVE  Live' /\ (Interrupted' \/ Tended')
<1>1. UNCHANGED <<status, lock, queue, th>> /\ late'
  BY DEF PassDeadline, rows
<1>2. Live'
  <2>1. \A e \in {"crash", "fatal", "transient"} : budget'[e] = budget[e]
    BY DEF PassDeadline, Spend, RowInv, TypeOK, Events
  <2>2. \A i \in Threads : Linked(th[i], status)'
    BY <1>1, <2>1 DEF Live, Linked, Mortal
  <2>3. QED
    BY <1>1, <2>1, <2>2 DEF Live, Mortal
<1>3. Interrupted => Interrupted'
  BY <1>1 DEF Interrupted
<1>4. Tended => Tended'
  BY <1>1 DEF Tended, Driven
<1>5. QED
  BY <1>2, <1>3, <1>4

\* What an attended run does not do.
LEMMA NotAttended ==
  ASSUME RowInv, Live, NEW i \in Threads
  PROVE  /\ ~Decline(i) /\ ~Suspend(i) /\ ~Timeout(i) /\ ~Compensate(i) /\ ~Undo(i) /\ ~Undoing(i)
         /\ ~Reset(i) /\ ~Recount(i) /\ ~Reopen(i) /\ ~Retry(i) /\ ~Throw(i)
         /\ \A s \in Steps : ~Exhaust(i, s) /\ ~Resume(i, s)
<1>1. th[i].pc \notin {"timer", "decline", "suspend", "compensate", "undo", "undoing"}
  BY DEF Live, Linked
<1>2. /\ ~Decline(i) /\ ~Suspend(i) /\ ~Timeout(i)
      /\ ~Compensate(i) /\ ~Undo(i) /\ ~Undoing(i)
  BY <1>1 DEF Decline, Suspend, Timeout, Compensate, Undo, Undoing, At
<1>3. QED
  BY <1>2, NeverHappens

LEMMA CreditShrinks ==
  ASSUME RowInv, Live, NEW i \in Threads,
         Step(i) \/ Start(i) \/ Operator(i) \/ Crash(i) \/ Throw(i) \/ Redeliver(i)
  PROVE  Shrinks
<1>1. SUFFICES UNCHANGED budget \/ \E e \in Events : Spend(e)
  BY DEF Shrinks, Spend, RowInv, TypeOK
<1>2. CASE \/ Begin(i) \/ Claim(i) \/ Inputs(i) \/ Requeue(i) \/ Fail(i) \/ Complete(i) \/ Commit(i)
           \/ Frontier(i) \/ Advance(i) \/ List(i) \/ Cascade(i) \/ Reread(i) \/ Terminate(i)
           \/ Finish(i)
  BY <1>2 DEF Begin, Claim, Inputs, Requeue, Fail, Complete, Commit, Frontier, Advance, List,
     Cascade, Reread, Terminate, Finish, world
<1>3. CASE Handle(i)
  BY <1>3, Claimed, EngineAssumption DEF Handle, At, Owning, Outcome, Events
<1>4. CASE \/ Resend(i) \/ Send(i) \/ Unblock(i) \/ SkipPendingSteps(i) \/ CloseRun(i)
           \/ SweepRetry(i) \/ SweepSend(i) \/ SweepFail(i)
  BY <1>4 DEF Resend, Send, Unblock, DispatchOne, SkipPendingSteps, CloseRun, SweepRetry, SweepSend,
     SweepFail, world, Events
<1>5. CASE (\E j \in Job : Deliver(i, j)) \/ Sweep(i) \/ Cancel(i) \/ Crash(i) \/ Redeliver(i)
  BY <1>5 DEF Deliver, Sweep, Cancel, Crash, Redeliver, world, Events
<1>6. QED
  BY <1>2, <1>3, <1>4, <1>5, NotAttended DEF Step, Start, Operator

LEMMA ThreadMoves ==
  ASSUME Waits = {}, Attended, RowInv, Live, wf = "running", NEW i \in Threads,
         Step(i) \/ Start(i) \/ Operator(i) \/ Crash(i) \/ Throw(i) \/ Redeliver(i),
         ~Finish(i), ~CloseRun(i)
  PROVE  Moves(i)
<1>1. CASE Step(i)
  <2>1. CASE \/ Begin(i) \/ Claim(i) \/ Inputs(i) \/ Handle(i) \/ Requeue(i) \/ Resend(i)
             \/ Fail(i) \/ Complete(i) \/ Commit(i)
    BY <2>1, BeginMoves, ClaimMoves, InputsMoves, HandleMoves, RequeueMoves, ResendMoves,
       FailMoves, CompleteMoves, CommitMoves
  <2>2. CASE \/ Frontier(i) \/ Advance(i) \/ Send(i) \/ List(i) \/ Cascade(i) \/ Reread(i)
             \/ Unblock(i) \/ Terminate(i)
    BY <2>2, FrontierMoves, AdvanceMoves, SendMoves, ListMoves, CascadeMoves, RereadMoves,
       UnblockMoves, TerminateMoves
  <2>3. CASE SkipPendingSteps(i) \/ SweepRetry(i) \/ SweepSend(i) \/ SweepFail(i)
    BY <2>3, SkipPendingMoves, SweepRetryMoves, SweepSendMoves, SweepFailMoves
  <2>4. QED
    BY <1>1, <2>1, <2>2, <2>3, NotAttended DEF Step
<1>2. CASE Start(i) \/ Operator(i) \/ Crash(i) \/ Redeliver(i)
  BY <1>2, DeliverMoves, SweepMoves, CancelMoves, CrashMoves, RedeliverMoves, NotAttended
  DEF Start, Operator
<1>3. QED
  BY <1>1, <1>2, NotAttended

\* No action starts a run, and one that leaves it under way is not a verdict.
LEMMA GoesOn ==
  ASSUME RowInv, NEW i \in Threads,
         Step(i) \/ Start(i) \/ Operator(i) \/ Crash(i) \/ Throw(i) \/ Redeliver(i),
         wf' = "running"
  PROVE  ~Finish(i) /\ ~CloseRun(i) /\ UNCHANGED <<wf, late>>
<1>1. ~Finish(i) /\ ~CloseRun(i)
  BY DEF Finish, CloseRun
<1>2. CASE Crash(i) \/ Compensate(i) \/ Undo(i) \/ Undoing(i)
  BY <1>1, <1>2 DEF Crash, Compensate, Undo, Undoing, run, world
<1>3. CASE Aside(i)
  BY <1>1, <1>3 DEF Aside
<1>4. QED
  BY <1>1, <1>2, <1>3, Otherwise DEF Ends

LEMMA MoveInvStep ==
  ASSUME Orderly, Attended, RowInv, MoveInv, [Next]_vars
  PROVE  MoveInv'
<1>1. CASE UNCHANGED vars
  BY <1>1 DEF vars, rows, run, world, MoveInv, Live, Linked, Mortal, Interrupted, Tended, Driven
<1>2. CASE PassDeadline
  BY <1>2, DeadlineTends DEF MoveInv, PassDeadline, run
<1>3. ASSUME NEW i \in Threads,
             Step(i) \/ Start(i) \/ Operator(i) \/ Crash(i) \/ Throw(i) \/ Redeliver(i)
      PROVE  MoveInv'
  <2>1. SUFFICES ASSUME wf' = "running"
                 PROVE  Live' /\ (Interrupted' \/ Tended')
    BY DEF MoveInv
  <2>2. ~Finish(i) /\ ~CloseRun(i) /\ UNCHANGED <<wf, late>>
    BY <1>3, <2>1, GoesOn
  <2>3. Live /\ (Interrupted \/ Tended)
    BY <2>1, <2>2 DEF MoveInv
  <2>4. Plays(i) /\ Moves(i)
    BY <1>3, <2>1, <2>2, <2>3, ThreadPlays, ThreadMoves DEF Orderly
  <2>5. Live'
    BY <1>3, <2>2, <2>3, <2>4, LiveKept, CreditShrinks DEF Moves
  <2>6. Interrupted => Interrupted'
    BY <2>2, <2>4, InterruptionStays DEF Moves
  <2>7. Tended /\ ~Interrupted' => Tended'
    BY <2>2, <2>3, <2>4, TendedKept DEF Moves
  <2>8. QED
    BY <2>3, <2>5, <2>6, <2>7
<1>4. QED
  BY <1>1, <1>2, <1>3 DEF Next

(***************************************************************************)
(* A run under way with nothing in progress - no job, no call, no sweep of *)
(* it - has a claimed step that a sweep will find stuck: no run stops for  *)
(* good without a verdict.  processStepResult and settle give each step    *)
(* that is due its job, each doomed step its skip and the run its verdict; *)
(* executeStep advances again for a completed step's job;                  *)
(* recoverStuckWorkflows sees to the claimed ones.  It holds in every      *)
(* orderly and attended run with one sweeper, its dispatch atomic or not.  *)
(* With guards that decline or callers that die it does not, nor where     *)
(* calls both die and fail.                                                *)
(***************************************************************************)
THEOREM NoRunIsStranded ==
  ASSUME OneSweeper, Orderly, Attended
  PROVE  Spec => []NoStrandedRun
<1> DEFINE Inv == RowInv /\ MoveInv
<1>1. Init => Inv
  BY RowInvInit, MoveInvInit
<1>2. Inv /\ [Next]_vars => Inv'
  BY RowInvStep, MoveInvStep
<1>3. Inv => NoStrandedRun
  BY QuietOwesNothing
<1>4. QED
  BY <1>1, <1>2, <1>3, PTL DEF Spec

=============================================================================
