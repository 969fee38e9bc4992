------------------------- MODULE Suspension_proofs -------------------------
(***************************************************************************)
(* A deadline is never early, for every number of calls, budget, event     *)
(* bound, and whatever is retried, expired, answered, redelivered or lost. *)
(***************************************************************************)
EXTENDS Suspension, TLAPS

Statuses == {"pending", "running", "waiting", "completed", "failed", "skipped"}
Pcs == {"idle", "dispatch", "suspend", "arm", "startChild", "bridge", "answer", "late",
        "settle", "finish", "reopen"}
Withs == Children \cup {None, "completed", "failed", "cancelled"}

Instance ==
  /\ Budget \in Nat
  /\ \A k \in Cases : k.kind \in {"event", "child"}

Typed ==
  /\ kind \in {"event", "child"} /\ step \in Statuses /\ jobs \in Nat /\ age \in 0..Budget
  /\ th \in [Threads -> [pc : Pcs, with : Withs]]
  /\ \A t \in Threads :
       th[t].pc \in {"answer", "late"} => th[t].with \in {"completed", "failed"}

\* On its way to the suspension of a step that does not wait yet.
Before(t) == th[t].pc \in {"reopen", "suspend"} \/ (kind = "event" /\ th[t].pc = "dispatch")

\* On the way from a suspension to the answer of it.
Past(t) == th[t].pc \in {"arm", "startChild", "answer", "late"}

\* One suspension at a time.
OneSuspension ==
  /\ \A t, u \in Threads : Before(t) /\ Before(u) => t = u
  /\ jobs > 0 => kind = "child"
  /\ \A t \in Threads : th[t].pc = "suspend" /\ kind = "child" => step = "running"

\* A retry finds no call to disturb it.
Alone ==
  \A t \in Threads : th[t].pc = "reopen" =>
    /\ run = "failed" /\ step = "pending"
    /\ \A u \in Threads \ {t} : th[u].pc \in {"idle", "bridge"}

\* What waits, or is being answered, is not suspended again.
Apart ==
  /\ step = "waiting" => \A t \in Threads : ~Before(t)
  /\ \A u \in Threads : Past(u) => /\ step \notin {"pending", "running"}
                                   /\ \A t \in Threads : ~Before(t)

\* A deadline that is being obeyed has passed.
Due == \A t \in Threads : th[t].pc = "late" => age = Budget

IInv == Typed /\ OneSuspension /\ Alone /\ Apart /\ Due

-----------------------------------------------------------------------------
\* One lemma per action, the conjuncts in the order of IInv.

LEMMA DispatchKeeps == ASSUME Instance, IInv, NEW t \in Threads, Dispatch(t) PROVE IInv'
PROOF
<1> USE DEF Dispatch, At, Goto, Rest
<1>1. Typed'
  BY DEF IInv, Instance, Typed, Statuses, Pcs, Withs
<1>2. OneSuspension'
  BY DEF IInv, OneSuspension, Alone, Apart, Before, Past, Typed, Statuses, Pcs, Withs
<1>3. Alone'
  BY DEF IInv, Alone, OneSuspension, Before, Typed, Statuses, Pcs, Withs
<1>4. Apart'
  BY DEF IInv, OneSuspension, Alone, Apart, Before, Past, Typed, Statuses, Pcs, Withs
<1>5. Due'
  BY DEF IInv, Instance, Apart, Due, Before, Past, Typed, Statuses, Pcs, Withs
<1> QED BY <1>1, <1>2, <1>3, <1>4, <1>5 DEF IInv

LEMMA SuspendKeeps == ASSUME Instance, IInv, NEW t \in Threads, Suspend(t) PROVE IInv'
PROOF
<1> USE DEF Suspend, At, Goto, Rest
<1>1. Typed'
  BY DEF IInv, Instance, Typed, Statuses, Pcs, Withs
<1>2. OneSuspension'
  BY DEF IInv, OneSuspension, Alone, Apart, Before, Past, Typed, Statuses, Pcs, Withs
<1>3. Alone'
  BY DEF IInv, Alone, OneSuspension, Before, Typed, Statuses, Pcs, Withs
<1>4. Apart'
  BY DEF IInv, OneSuspension, Alone, Apart, Before, Past, Typed, Statuses, Pcs, Withs
<1>5. Due'
  BY DEF IInv, Instance, Apart, Due, Before, Past, Typed, Statuses, Pcs, Withs
<1> QED BY <1>1, <1>2, <1>3, <1>4, <1>5 DEF IInv

LEMMA ArmTimerKeeps == ASSUME Instance, IInv, NEW t \in Threads, ArmTimer(t) PROVE IInv'
PROOF
<1> USE DEF ArmTimer, At, Goto, Rest
<1>1. Typed'
  BY DEF IInv, Instance, Typed, Statuses, Pcs, Withs
<1>2. OneSuspension'
  BY DEF IInv, OneSuspension, Alone, Apart, Before, Past, Typed, Statuses, Pcs, Withs
<1>3. Alone'
  BY DEF IInv, Alone, OneSuspension, Before, Typed, Statuses, Pcs, Withs
<1>4. Apart'
  BY DEF IInv, OneSuspension, Alone, Apart, Before, Past, Typed, Statuses, Pcs, Withs
<1>5. Due'
  BY DEF IInv, Instance, Apart, Due, Before, Past, Typed, Statuses, Pcs, Withs
<1> QED BY <1>1, <1>2, <1>3, <1>4, <1>5 DEF IInv

LEMMA StartChildKeeps == ASSUME Instance, IInv, NEW t \in Threads, StartChild(t) PROVE IInv'
PROOF
<1> USE DEF StartChild, At, Goto, Rest, Spend
<1>1. Typed'
  BY DEF IInv, Instance, Typed, Statuses, Pcs, Withs
<1>2. OneSuspension'
  BY DEF IInv, OneSuspension, Alone, Apart, Before, Past, Typed, Statuses, Pcs, Withs
<1>3. Alone'
  BY DEF IInv, Alone, OneSuspension, Before, Typed, Statuses, Pcs, Withs
<1>4. Apart'
  BY DEF IInv, OneSuspension, Alone, Apart, Before, Past, Typed, Statuses, Pcs, Withs
<1>5. Due'
  BY DEF IInv, Instance, Apart, Due, Before, Past, Typed, Statuses, Pcs, Withs
<1> QED BY <1>1, <1>2, <1>3, <1>4, <1>5 DEF IInv

LEMMA BridgeKeeps == ASSUME Instance, IInv, NEW t \in Threads, Bridge(t) PROVE IInv'
PROOF
<1> USE DEF Bridge, At, Goto, Rest
<1>1. Typed'
  BY DEF IInv, Instance, Typed, Statuses, Pcs, Withs
<1>2. OneSuspension'
  BY DEF IInv, OneSuspension, Alone, Apart, Before, Past, Typed, Statuses, Pcs, Withs
<1>3. Alone'
  BY DEF IInv, Alone, OneSuspension, Before, Typed, Statuses, Pcs, Withs
<1>4. Apart'
  BY DEF IInv, OneSuspension, Alone, Apart, Before, Past, Typed, Statuses, Pcs, Withs
<1>5. Due'
  BY DEF IInv, Instance, Apart, Due, Before, Past, Typed, Statuses, Pcs, Withs
<1> QED BY <1>1, <1>2, <1>3, <1>4, <1>5 DEF IInv

LEMMA WriteKeeps == ASSUME Instance, IInv, NEW t \in Threads, Write(t) PROVE IInv'
PROOF
<1> USE DEF Write, At, Goto, Rest
<1>1. Typed'
  BY DEF IInv, Instance, Typed, Statuses, Pcs, Withs
<1>2. OneSuspension'
  BY DEF IInv, OneSuspension, Alone, Apart, Before, Past, Typed, Statuses, Pcs, Withs
<1>3. Alone'
  BY DEF IInv, Alone, OneSuspension, Before, Typed, Statuses, Pcs, Withs
<1>4. Apart'
  BY DEF IInv, OneSuspension, Alone, Apart, Before, Past, Typed, Statuses, Pcs, Withs
<1>5. Due'
  BY DEF IInv, Instance, Apart, Due, Before, Past, Typed, Statuses, Pcs, Withs
<1> QED BY <1>1, <1>2, <1>3, <1>4, <1>5 DEF IInv

LEMMA SettleKeeps == ASSUME Instance, IInv, NEW t \in Threads, Settle(t) PROVE IInv'
PROOF
<1> USE DEF Settle, At, Goto, Rest
<1>1. Typed'
  BY DEF IInv, Instance, Typed, Statuses, Pcs, Withs
<1>2. OneSuspension'
  BY DEF IInv, OneSuspension, Alone, Apart, Before, Past, Typed, Statuses, Pcs, Withs
<1>3. Alone'
  BY DEF IInv, Alone, OneSuspension, Before, Typed, Statuses, Pcs, Withs
<1>4. Apart'
  BY DEF IInv, OneSuspension, Alone, Apart, Before, Past, Typed, Statuses, Pcs, Withs
<1>5. Due'
  BY DEF IInv, Instance, Apart, Due, Before, Past, Typed, Statuses, Pcs, Withs
<1> QED BY <1>1, <1>2, <1>3, <1>4, <1>5 DEF IInv

LEMMA FinishKeeps == ASSUME Instance, IInv, NEW t \in Threads, Finish(t) PROVE IInv'
PROOF
<1> USE DEF Finish, At, Goto, Rest
<1>1. Typed'
  BY DEF IInv, Instance, Typed, Statuses, Pcs, Withs
<1>2. OneSuspension'
  BY DEF IInv, OneSuspension, Alone, Apart, Before, Past, Typed, Statuses, Pcs, Withs
<1>3. Alone'
  BY DEF IInv, Alone, OneSuspension, Before, Typed, Statuses, Pcs, Withs
<1>4. Apart'
  BY DEF IInv, OneSuspension, Alone, Apart, Before, Past, Typed, Statuses, Pcs, Withs
<1>5. Due'
  BY DEF IInv, Instance, Apart, Due, Before, Past, Typed, Statuses, Pcs, Withs
<1> QED BY <1>1, <1>2, <1>3, <1>4, <1>5 DEF IInv

LEMMA ReopenKeeps == ASSUME Instance, IInv, NEW t \in Threads, Reopen(t) PROVE IInv'
PROOF
<1> USE DEF Reopen, At, Goto, Rest
<1>1. Typed'
  BY DEF IInv, Instance, Typed, Statuses, Pcs, Withs
<1>2. OneSuspension'
  BY DEF IInv, OneSuspension, Alone, Apart, Before, Past, Typed, Statuses, Pcs, Withs
<1>3. Alone'
  BY DEF IInv, Alone, OneSuspension, Before, Typed, Statuses, Pcs, Withs
<1>4. Apart'
  BY DEF IInv, OneSuspension, Alone, Apart, Before, Past, Typed, Statuses, Pcs, Withs
<1>5. Due'
  BY DEF IInv, Instance, Apart, Due, Before, Past, Typed, Statuses, Pcs, Withs
<1> QED BY <1>1, <1>2, <1>3, <1>4, <1>5 DEF IInv

LEMMA ClaimKeeps == ASSUME Instance, IInv, NEW t \in Threads, Claim(t) PROVE IInv'
PROOF
<1> USE DEF Claim, At, Goto, Rest, Live
<1>1. Typed'
  BY DEF IInv, Instance, Typed, Statuses, Pcs, Withs
<1>2. OneSuspension'
  BY DEF IInv, OneSuspension, Alone, Apart, Before, Past, Typed, Statuses, Pcs, Withs
<1>3. Alone'
  BY DEF IInv, Alone, OneSuspension, Before, Typed, Statuses, Pcs, Withs
<1>4. Apart'
  BY DEF IInv, OneSuspension, Alone, Apart, Before, Past, Typed, Statuses, Pcs, Withs
<1>5. Due'
  BY DEF IInv, Instance, Apart, Due, Before, Past, Typed, Statuses, Pcs, Withs
<1> QED BY <1>1, <1>2, <1>3, <1>4, <1>5 DEF IInv

LEMMA ResumeKeeps == ASSUME Instance, IInv, NEW t \in Threads, Resume(t) PROVE IInv'
PROOF
<1> USE DEF Resume, At, Goto, Rest, Spend
<1>1. Typed'
  BY DEF IInv, Instance, Typed, Statuses, Pcs, Withs
<1>2. OneSuspension'
  BY DEF IInv, OneSuspension, Alone, Apart, Before, Past, Typed, Statuses, Pcs, Withs
<1>3. Alone'
  BY DEF IInv, Alone, OneSuspension, Before, Typed, Statuses, Pcs, Withs
<1>4. Apart'
  BY DEF IInv, OneSuspension, Alone, Apart, Before, Past, Typed, Statuses, Pcs, Withs
<1>5. Due'
  BY DEF IInv, Instance, Apart, Due, Before, Past, Typed, Statuses, Pcs, Withs
<1> QED BY <1>1, <1>2, <1>3, <1>4, <1>5 DEF IInv

LEMMA TimerKeeps == ASSUME Instance, IInv, NEW t \in Threads, Timer(t) PROVE IInv'
PROOF
<1> USE DEF Timer, At, Goto, Rest, Spend, Answers
<1>1. Typed'
  BY DEF IInv, Instance, Typed, Statuses, Pcs, Withs
<1>2. OneSuspension'
  BY DEF IInv, OneSuspension, Alone, Apart, Before, Past, Typed, Statuses, Pcs, Withs
<1>3. Alone'
  BY DEF IInv, Alone, OneSuspension, Before, Typed, Statuses, Pcs, Withs
<1>4. Apart'
  BY DEF IInv, OneSuspension, Alone, Apart, Before, Past, Typed, Statuses, Pcs, Withs
<1>5. Due'
  BY DEF IInv, Instance, Apart, Due, Before, Past, Typed, Statuses, Pcs, Withs
<1> QED BY <1>1, <1>2, <1>3, <1>4, <1>5 DEF IInv

LEMMA CrashKeeps == ASSUME Instance, IInv, NEW t \in Threads, Crash(t) PROVE IInv'
PROOF
<1> USE DEF Crash, At, Goto, Rest, Spend
<1>1. Typed'
  BY DEF IInv, Instance, Typed, Statuses, Pcs, Withs
<1>2. OneSuspension'
  BY DEF IInv, OneSuspension, Alone, Apart, Before, Past, Typed, Statuses, Pcs, Withs
<1>3. Alone'
  BY DEF IInv, Alone, OneSuspension, Before, Typed, Statuses, Pcs, Withs
<1>4. Apart'
  BY DEF IInv, OneSuspension, Alone, Apart, Before, Past, Typed, Statuses, Pcs, Withs
<1>5. Due'
  BY DEF IInv, Instance, Apart, Due, Before, Past, Typed, Statuses, Pcs, Withs
<1> QED BY <1>1, <1>2, <1>3, <1>4, <1>5 DEF IInv

LEMMA CloseKeeps == ASSUME Instance, IInv, NEW t \in Threads, Close(t) PROVE IInv'
PROOF
<1> USE DEF Close, At, Goto, Rest, Spend, Live
<1>1. Typed'
  BY DEF IInv, Instance, Typed, Statuses, Pcs, Withs
<1>2. OneSuspension'
  BY DEF IInv, OneSuspension, Alone, Apart, Before, Past, Typed, Statuses, Pcs, Withs
<1>3. Alone'
  BY DEF IInv, Alone, OneSuspension, Before, Typed, Statuses, Pcs, Withs
<1>4. Apart'
  BY DEF IInv, OneSuspension, Alone, Apart, Before, Past, Typed, Statuses, Pcs, Withs
<1>5. Due'
  BY DEF IInv, Instance, Apart, Due, Before, Past, Typed, Statuses, Pcs, Withs
<1> QED BY <1>1, <1>2, <1>3, <1>4, <1>5 DEF IInv

LEMMA RetryKeeps == ASSUME Instance, IInv, NEW t \in Threads, Retry(t) PROVE IInv'
PROOF
<1> USE DEF Retry, At, Goto, Rest, Spend
<1>1. Typed'
  BY DEF IInv, Instance, Typed, Statuses, Pcs, Withs
<1>2. OneSuspension'
  BY DEF IInv, OneSuspension, Alone, Apart, Before, Past, Typed, Statuses, Pcs, Withs
<1>3. Alone'
  BY DEF IInv, Alone, OneSuspension, Before, Typed, Statuses, Pcs, Withs
<1>4. Apart'
  BY DEF IInv, OneSuspension, Alone, Apart, Before, Past, Typed, Statuses, Pcs, Withs
<1>5. Due'
  BY DEF IInv, Instance, Apart, Due, Before, Past, Typed, Statuses, Pcs, Withs
<1> QED BY <1>1, <1>2, <1>3, <1>4, <1>5 DEF IInv

LEMMA EndChildKeeps == ASSUME Instance, IInv, NEW t \in Threads, NEW c \in Children,
         NEW v \in {"completed", "failed", "cancelled"}, EndChild(t, c, v) PROVE IInv'
PROOF
<1> USE DEF EndChild, Spend, At, Goto, Rest
<1>1. Typed'
  BY DEF IInv, Instance, Typed, Statuses, Pcs, Withs
<1>2. OneSuspension'
  BY DEF IInv, OneSuspension, Alone, Apart, Before, Past, Typed, Statuses, Pcs, Withs
<1>3. Alone'
  BY DEF IInv, Alone, OneSuspension, Before, Typed, Statuses, Pcs, Withs
<1>4. Apart'
  BY DEF IInv, OneSuspension, Alone, Apart, Before, Past, Typed, Statuses, Pcs, Withs
<1>5. Due'
  BY DEF IInv, Instance, Apart, Due, Before, Past, Typed, Statuses, Pcs, Withs
<1> QED BY <1>1, <1>2, <1>3, <1>4, <1>5 DEF IInv

LEMMA RedeliverKeeps == ASSUME Instance, IInv, Redeliver PROVE IInv'
PROOF
<1> USE DEF Redeliver
<1>1. Typed'
  BY DEF IInv, Instance, Typed
<1>2. OneSuspension' /\ Alone' /\ Apart' /\ Due'
  BY DEF IInv, OneSuspension, Alone, Apart, Due, Before, Past
<1> QED BY <1>1, <1>2 DEF IInv

LEMMA TickKeeps == ASSUME Instance, IInv, Tick PROVE IInv'
PROOF
<1> USE DEF Tick
<1>1. Typed'
  BY DEF IInv, Instance, Typed
<1>2. OneSuspension' /\ Alone' /\ Apart'
  BY DEF IInv, OneSuspension, Alone, Apart, Before, Past
<1>3. Due'
  BY DEF IInv, Instance, Typed, Due
<1> QED BY <1>1, <1>2, <1>3 DEF IInv

LEMMA NextKeeps == ASSUME Instance, IInv, [Next]_vars PROVE IInv'
PROOF
<1>1. CASE UNCHANGED vars
  BY <1>1 DEF vars, IInv, Typed, OneSuspension, Alone, Apart, Due, Before, Past
<1>2. ASSUME NEW t \in Threads, Proceed(t) PROVE IInv'
  BY <1>2, DispatchKeeps, SuspendKeeps, ArmTimerKeeps, StartChildKeeps, BridgeKeeps, WriteKeeps,
     SettleKeeps, FinishKeeps, ReopenKeeps DEF Proceed
<1>3. ASSUME NEW c \in Children, Ends(c) PROVE IInv'
  BY <1>3, EndChildKeeps DEF Ends
<1> QED
  BY <1>1, <1>2, <1>3, ClaimKeeps, ResumeKeeps, TimerKeeps, CrashKeeps, CloseKeeps, RetryKeeps,
     RedeliverKeeps, TickKeeps DEF Next

LEMMA InitHolds == ASSUME Instance, Init PROVE IInv
PROOF
<1>1. Typed
  BY DEF Init, Instance, Typed, Statuses, Pcs, Withs, Idle
<1>2. PICK f : \A t \in Threads : th[t].pc = IF t = f THEN "dispatch" ELSE "idle"
  BY DEF Init, Idle
<1>3. OneSuspension /\ Alone /\ Apart /\ Due
  BY <1>2 DEF Init, OneSuspension, Alone, Apart, Due, Before, Past
<1> QED BY <1>1, <1>3 DEF IInv

\* A deadline never ends a suspension before its own budget has passed, though the
\* queue may hold timers of an earlier one (timeoutStep re-arms those).
THEOREM DeadlinesAreNeverEarly == ASSUME Instance PROVE Spec => NeverEarly
PROOF
<1>1. Init => IInv
  BY InitHolds
<1>2. IInv /\ [Next]_vars => IInv'
  BY NextKeeps
<1>3. IInv /\ [Next]_vars =>
        [\A t \in Threads : At(t, "late") /\ step = "waiting" /\ Write(t) => age = Budget]_vars
  BY DEF IInv, Due, At
<1> QED BY <1>1, <1>2, <1>3, PTL DEF Spec, NeverEarly

=============================================================================
