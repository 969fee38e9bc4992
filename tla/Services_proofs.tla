-------------------------- MODULE Services_proofs --------------------------
(***************************************************************************)
(* What is proved of a component alone holds of it among the others: a     *)
(* step of Services is one of the component's or leaves it alone, and a    *)
(* component with nothing to do is in a state its invariant allows.        *)
(***************************************************************************)
EXTENDS Services, MapFanOut_proofs, FiniteSetTheorems, TLAPS

W == INSTANCE StepWorker_proofs WITH Cases <- WorkerCases, budget <- jobBudget
O == INSTANCE StartOnce_proofs WITH
  Cases <- StartCases, job <- startJob, tries <- startTries, budget <- startBudget
G == INSTANCE StepGate_proofs WITH
  Calls <- Invocations, Cases <- GateCases, row <- gateRow, jobs <- gateJobs, running <- held,
  call <- gateCall, budget <- gateBudget
D == INSTANCE Suspension_proofs WITH
  Threads <- Invocations, Cases <- WaitCases, kind <- waitKind, run <- parentRun,
  step <- parent, jobs <- parentJobs, th <- waitTh, budget <- waitBudget

-----------------------------------------------------------------------------
\* A step of Services is a step of the step worker, or none of its.
LEMMA WorkerSteps == ASSUME [ServicesNext]_allVars PROVE [W!Next]_(W!vars)
PROOF
<1>1. CASE UNCHANGED workerVars
  BY <1>1 DEF workerVars, W!vars, W!config, W!queueVars, W!workerVars
<1>2. CASE Worker!Next
  BY <1>2
  DEF Worker!Next, Worker!Fetch, Worker!EndBatch, Worker!Crash, Worker!Expire, Worker!TakeJob,
      Worker!Return, Worker!Throw, Worker!DeadLetter, Worker!Queued, Worker!Least,
      Worker!Drained, Worker!Busy, Worker!Release, Worker!NoLane, Worker!Verdict,
      Worker!AfterFailure, Worker!Unreported, Worker!Lost, Worker!Result, Worker!Spend,
      Worker!Cardinality, Worker!config, Worker!queueVars, Worker!workerVars, W!Next, W!Fetch,
      W!EndBatch, W!Crash, W!Expire, W!TakeJob, W!Return, W!Throw, W!DeadLetter, W!Queued,
      W!Least, W!Drained, W!Busy, W!Release, W!NoLane, W!Verdict, W!AfterFailure, W!Unreported,
      W!Lost, W!Result, W!Spend, W!Cardinality, W!config, W!queueVars, W!workerVars
<1>3. CASE UNCHANGED allVars
  BY <1>1, <1>3 DEF allVars
<1> QED BY <1>1, <1>2, <1>3 DEF ServicesNext

\* A step of Services is a step of the idempotent start, or none of its.
LEMMA StartSteps == ASSUME [ServicesNext]_allVars PROVE [O!Next]_(O!vars)
PROOF
<1>1. CASE UNCHANGED startsVars
  BY <1>1 DEF startsVars, O!vars, O!fixed
<1>2. CASE Starts!Next
  BY <1>2
  DEF Starts!Next, Starts!CronFires, Starts!Fetch, Starts!CreateWorkflow, Starts!EnqueueRoots,
      Starts!Commit, Starts!EndBatch, Starts!Fail, Starts!Expire, Starts!Queued, Starts!Answer,
      Starts!With, Starts!Fresh, Starts!InsertUnseen, Starts!Insert, Starts!Key, Starts!Tick,
      Starts!Ticks, Starts!Ids, Starts!Carrying, Starts!Idle, Starts!Unused, Starts!Again,
      Starts!Spend, Starts!Cardinality, Starts!fixed, O!Next, O!CronFires, O!Fetch,
      O!CreateWorkflow, O!EnqueueRoots, O!Commit, O!EndBatch, O!Fail, O!Expire, O!Queued,
      O!Answer, O!With, O!Fresh, O!InsertUnseen, O!Insert, O!Key, O!Tick, O!Ticks, O!Ids,
      O!Carrying, O!Idle, O!Unused, O!Again, O!Spend, O!Cardinality, O!fixed
<1>3. CASE UNCHANGED allVars
  BY <1>1, <1>3 DEF allVars
<1> QED BY <1>1, <1>2, <1>3 DEF ServicesNext

\* A step of Services is a step of the waiting step, or none of its.
LEMMA WaitSteps == ASSUME [ServicesNext]_allVars PROVE [D!Next]_(D!vars)
PROOF
<1>1. CASE UNCHANGED waitsVars
  BY <1>1 DEF waitsVars, D!vars
<1>2. CASE Waits!Next
  BY <1>2
  DEF Waits!Next, Waits!Proceed, Waits!Claim, Waits!Resume, Waits!Timer, Waits!Close,
      Waits!Retry, Waits!Ends, Waits!Tick, Waits!Dispatch, Waits!Suspend, Waits!ArmTimer,
      Waits!StartChild, Waits!EndChild, Waits!Bridge, Waits!Answers, Waits!Write, Waits!Settle,
      Waits!Finish, Waits!Reopen, Waits!Unborn, Waits!Children, Waits!Live, Waits!Idle,
      Waits!At, Waits!Goto, Waits!Rest, Waits!Spend, Waits!Over, Waits!Arm, Waits!NoTimerIn,
      Waits!Crash, Waits!Redeliver, D!Next, D!Proceed, D!NoTimerIn, D!Crash, D!Redeliver, D!Claim, D!Resume, D!Timer, D!Close, D!Retry, D!Ends, D!Tick, D!Dispatch, D!Suspend,
      D!ArmTimer, D!StartChild, D!EndChild, D!Bridge, D!Answers, D!Write, D!Settle, D!Finish,
      D!Reopen, D!Unborn, D!Children, D!Live, D!Idle, D!At, D!Goto, D!Rest, D!Spend, D!Over,
      D!Arm
<1>3. CASE UNCHANGED allVars
  BY <1>1, <1>3 DEF allVars
<1> QED BY <1>1, <1>2, <1>3 DEF ServicesNext

\* A step of Services is a step of the gate, or none of its.
LEMMA GateSteps == ASSUME [ServicesNext]_allVars PROVE [G!Next]_(G!vars)
PROOF
<1>1. CASE UNCHANGED gateVars
  BY <1>1 DEF gateVars, G!vars, G!gate
<1>2. CASE Gate!Next
  BY <1>2
  DEF Gate!AcquireLease, Gate!ConsumeToken, Gate!GiveBack, Gate!AcquireInMemory, Gate!Defer,
      Gate!Claim, Gate!Settle, Gate!PutBack, Gate!Resend, Gate!Release, Gate!Deliver, Gate!Tick,
      Gate!Crash, Gate!Redeliver, Gate!Recover, Gate!Step, Gate!Next, Gate!Held,
      Gate!OthersHeld, Gate!Inside, Gate!Idle, Gate!At, Gate!Become, Gate!Rest, Gate!Spend,
      Gate!Put, Gate!gate, Gate!Cardinality, G!AcquireLease, G!ConsumeToken, G!GiveBack,
      G!AcquireInMemory, G!Defer, G!Claim, G!Settle, G!PutBack, G!Resend, G!Release, G!Deliver,
      G!Tick, G!Crash, G!Redeliver, G!Recover, G!Step, G!Next, G!Held, G!OthersHeld, G!Inside,
      G!Idle, G!At, G!Become, G!Rest, G!Spend, G!Put, G!gate, G!Cardinality
<1>3. CASE UNCHANGED allVars
  BY <1>1, <1>3 DEF allVars
<1> QED BY <1>1, <1>2, <1>3 DEF ServicesNext

\* A step of Services is a step of the map, or none of its.
LEMMA MapSteps == [ServicesNext]_allVars => [Next]_vars
BY DEF ServicesNext, allVars

-----------------------------------------------------------------------------
LEMMA WorkerStarts == ASSUME W!Instance, ServicesInit PROVE W!IInv
PROOF
<1>1. CASE Worker!Init
  <2>1. W!Init
    BY <1>1 DEF Worker!Init, Worker!NoLane, W!Init, W!NoLane
  <2> QED BY <2>1, W!InitHolds
<1>2. CASE NoJob
  <2>1. W!Typed
    BY <1>2 DEF NoJob, Zero, Worker!NoLane, W!Instance, W!Typed, W!States
  <2>2. \A w \in Workers, j \in Jobs : /\ ~W!InLane(w, j) /\ ~W!HasResult(w, j)
                                       /\ \A s \in W!Outcomes : ~W!Outcome(w, j, s)
    BY <1>2 DEF NoJob, Worker!NoLane, W!Instance, W!InLane, W!HasResult, W!Outcome
  <2>3. W!Placed
    BY <1>2, <2>2 DEF NoJob, W!Placed, W!PlacedAt, W!InLane
  <2>4. W!Truthful /\ W!Counted /\ W!OwnOutcome
    BY <1>2, <2>2 DEF NoJob, W!Truthful, W!Counted, W!CountedAt, W!OwnOutcome, W!Outcomes
  <2> QED BY <2>1, <2>3, <2>4 DEF W!IInv
<1> QED BY <1>1, <1>2 DEF ServicesInit

LEMMA StartStarts == ASSUME O!Instance, ServicesInit PROVE O!IInv
PROOF
<1>1. CASE Starts!Init
  <2>1. O!Init
    BY <1>1 DEF Starts!Init, Starts!Ticks, Starts!Ids, Starts!Unused, Starts!Idle,
                O!Init, O!Ticks, O!Ids, O!Unused, O!Idle
  <2> QED BY <2>1, O!InitHolds
<1>2. CASE NoTick
  <2>1. Starts!Unused = O!Unused /\ Starts!Idle = O!Idle /\ Starts!Ticks = O!Ticks /\ Starts!Ids = O!Ids
    BY DEF Starts!Unused, Starts!Idle, Starts!Ticks, Starts!Ids, O!Unused, O!Idle, O!Ticks, O!Ids
  <2>2. O!Unused \in O!Rows
    BY DEF O!Unused, O!Rows, O!States, O!KeyValues
  <2>3. O!Typed
    BY <1>2, <2>1, <2>2, O!IdleType DEF NoTick, O!Typed
  <2>4. O!Holders /\ O!Returned /\ O!UniqueKeys
    BY <1>2, <2>1 DEF NoTick, O!Holders, O!Returned, O!UniqueKeys, O!Idle, O!Working, O!Unused
  <2> QED BY <2>3, <2>4 DEF O!IInv
<1> QED BY <1>1, <1>2 DEF ServicesInit

LEMMA WaitStarts == ASSUME D!Instance, ServicesInit PROVE D!IInv
PROOF
<1>1. CASE Waits!Init
  <2>1. D!Init
    BY <1>1 DEF Waits!Init, Waits!Idle, Waits!Children, D!Init, D!Idle, D!Children
  <2> QED BY <2>1, D!InitHolds
<1>2. CASE NoWait
  <2>1. D!Typed
    BY <1>2 DEF NoWait, Waits!Idle, D!Instance, D!Typed, D!Statuses, D!Pcs, D!Withs
  <2>2. D!OneSuspension /\ D!Alone /\ D!Apart /\ D!Due
    BY <1>2 DEF NoWait, Waits!Idle, D!OneSuspension, D!Alone, D!Apart, D!Due, D!Before, D!Past
  <2> QED BY <2>1, <2>2 DEF D!IInv
<1> QED BY <1>1, <1>2 DEF ServicesInit

LEMMA GateStarts == ASSUME G!Instance, ServicesInit PROVE G!IInv
PROOF
<1>1. CASE Gate!Init
  <2>1. G!Init
    BY <1>1 DEF Gate!Init, Gate!Idle, G!Init, G!Idle
  <2> QED BY <2>1, G!InitHolds
<1>2. CASE NoGated
  <2>0. G!OneCall /\ G!AtOnce
    BY <1>2 DEF NoGated, Gate!Idle, G!OneCall, G!AtOnce, G!At
  <2>1. G!Typed
    <3>1. gateJobs \in [Steps -> Nat] /\ lease \in [Steps -> 0..Ttl] /\ gateBudget \in [G!Events -> Nat]
      BY <1>2 DEF NoGated, Zero, Gate!Events, G!Events, G!Instance
    <3>2. gateCall \in [Invocations -> [pc : G!Pcs, step : Steps \cup {None}]]
      BY <1>2 DEF NoGated, Gate!Idle, G!Pcs
    <3>3. \A c \in Invocations : G!At(c, "idle") <=> gateCall[c].step = None
      BY <1>2 DEF NoGated, Gate!Idle, G!At
    <3> QED BY <1>2, <3>1, <3>2, <3>3 DEF NoGated, G!Typed
  <2>2. G!Crew = {} /\ ~shared /\ held = 0
    BY <1>2 DEF NoGated, Gate!Idle, G!Crew, G!Holding
  <2>3. G!SlotsAccountedFor
    BY <2>2, FS_EmptySet DEF G!SlotsAccountedFor, G!Crew, G!Cardinality
  <2> QED BY <2>0, <2>1, <2>3 DEF G!IInv
<1> QED BY <1>1, <1>2 DEF ServicesInit

LEMMA MapStarts ==
  ServicesInit => Fresh /\ ((\A b \in Budgets : Compatible(b)) => Compatible(budget))
PROOF
<1>1. CASE Init
  BY <1>1, InitIsFresh DEF Init
<1>2. CASE NoMap
  BY <1>2 DEF NoMap, Zero, Fresh, Rows, Compatible, Events
<1> QED BY <1>1, <1>2 DEF ServicesInit

-----------------------------------------------------------------------------
\* No neighbour in its batch, dead worker or expiry settles a job on anything but
\* its own outcome (createPgBossStepWorker, perJobResults).
THEOREM JobsKeepTheirOutcomes == ASSUME W!Instance PROVE ServicesSpec => []OwnOutcome
PROOF
<1>1. ServicesInit => W!IInv
  BY WorkerStarts
<1>2. W!IInv /\ [ServicesNext]_allVars => W!IInv'
  BY WorkerSteps, W!NextKeeps
<1>3. W!IInv => OwnOutcome
  BY DEF W!IInv, W!OwnOutcome, OwnOutcome, Worker!OwnOutcome
<1> QED BY <1>1, <1>2, <1>3, PTL DEF ServicesSpec

\* Both gates: a slot is freed exactly once, when its call is over.
THEOREM SlotsAreAccountedFor == ASSUME G!Instance PROVE ServicesSpec => []SlotsAccountedFor
PROOF
<1>1. ServicesInit => G!IInv
  BY GateStarts
<1>2. G!IInv /\ [ServicesNext]_allVars => G!IInv'
  BY GateSteps, G!NextKeeps
<1>3. G!IInv => SlotsAccountedFor
  BY DEF G!IInv, G!SlotsAccountedFor, G!Held, G!Holding, G!Cardinality, SlotsAccountedFor,
         Gate!SlotsAccountedFor, Gate!Held, Gate!Holding, Gate!Cardinality
<1> QED BY <1>1, <1>2, <1>3, PTL DEF ServicesSpec

\* However often a start job is redelivered and to whichever worker, and whatever
\* rolls back, a key has one run (store.ts, createWorkflow; payload.ts,
\* resolveStartIdempotencyKey).
THEOREM OneRunForAKey == ASSUME O!Instance PROVE ServicesSpec => []OneRunPerKey
PROOF
<1>1. ServicesInit => O!IInv
  BY StartStarts
<1>2. O!IInv /\ [ServicesNext]_allVars => O!IInv'
  BY StartSteps, O!NextKeeps
<1>3. O!IInv => OneRunPerKey
  BY O!OneRun
  DEF OneRunPerKey, Starts!OneRunPerKey, Starts!Kept, Starts!Ticks, Starts!Cardinality,
      O!OneRunPerKey, O!Kept, O!Ticks, O!Cardinality
<1> QED BY <1>1, <1>2, <1>3, PTL DEF ServicesSpec

\* A deadline never ends a suspension before its own budget has passed, though the
\* queue may hold timers of an earlier one (timeoutStep re-arms those).
THEOREM DeadlinesAreNeverEarly == ASSUME D!Instance PROVE ServicesSpec => NeverEarly
PROOF
<1>1. ServicesInit => D!IInv
  BY WaitStarts
<1>2. D!IInv /\ [ServicesNext]_allVars => D!IInv'
  BY WaitSteps, D!NextKeeps
<1>3. D!IInv => \A t \in Invocations : Waits!At(t, "late") => age = Budget
  BY DEF D!IInv, D!Due, Waits!At
<1>4. D!IInv /\ [ServicesNext]_allVars =>
        [\A t \in Invocations :
           Waits!At(t, "late") /\ parent = "waiting" /\ Waits!Write(t) => age = Budget]_(Waits!vars)
  BY <1>3
<1> QED BY <1>1, <1>2, <1>4, PTL DEF ServicesSpec, NeverEarly, Waits!NeverEarly

\* Every engine call about a map or one of its children keeps to its row and its
\* job (executeStep, spawnMapChildren, failMapParent).
THEOREM MapsAreTyped == ServicesSpec => []TypeOK
PROOF
<1>1. ServicesInit => Typed
  BY MapStarts, TypedStarts
<1>2. Typed /\ [ServicesNext]_allVars => Typed'
  BY MapSteps, TypedStays
<1>3. Typed => TypeOK
  BY DEF Typed
<1> QED BY <1>1, <1>2, <1>3, PTL DEF ServicesSpec

\* The output of a map is made of every item's: it is completed only when all of
\* its children are (advanceAfterChildCompleted).
THEOREM MapsAggregateEveryItem ==
  ASSUME \A b \in Budgets : Compatible(b) PROVE ServicesSpec => []AggregatesEveryItem
PROOF
<1>1. ServicesInit => MapInv
  BY MapStarts, MapInvStarts
<1>2. MapInv /\ [ServicesNext]_allVars => MapInv'
  BY MapSteps, MapInvStays
<1> QED BY <1>1, <1>2, Aggregates, PTL DEF ServicesSpec

\* A map starts once, settles for good, and the verdict is its own.
THEOREM MapsAreOneStep ==
  ASSUME \A b \in Budgets : Compatible(b) PROVE ServicesSpec => ImplementsOneStep
PROOF
<1>1. ServicesInit => MapInv /\ Promise!Init
  BY MapStarts, MapInvStarts, PromiseStarts
<1>2. MapInv /\ [ServicesNext]_allVars => MapInv'
  BY MapSteps, MapInvStays
<1>3. MapInv /\ [ServicesNext]_allVars => [Promise!Next]_(Promise!vars)
  BY MapSteps, MapMoves, MovesImplement DEF MapInv
<1> QED BY <1>1, <1>2, <1>3, PTL DEF ServicesSpec, ImplementsOneStep, Promise!Spec

-----------------------------------------------------------------------------
\* The gate with nothing to do is a semaphore with nobody inside.
LEMMA SemaphoreStarts ==
  ASSUME G!SemaphoreInstance, ServicesInit PROVE G!GateInv /\ G!Promise!Init
<1>1. CASE Gate!Init
  <2>1. G!Init
    BY <1>1 DEF Gate!Init, Gate!Idle, G!Init, G!Idle
  <2> QED BY <2>1, G!GateInvStarts
<1>2. CASE NoGated
  <2>1. G!IInv
    BY GateStarts DEF G!SemaphoreInstance
  <2>2. G!RowsTyped /\ G!OneHandler /\ G!RunningSteps = {}
    BY <1>2 DEF NoGated, Gate!Idle, G!RowsTyped, G!OneHandler, G!RunningSteps, G!At
  <2>3. G!AtMostCap
    BY <1>2 DEF NoGated, G!AtMostCap, G!SemaphoreInstance
  <2>4. G!Promise!Init
    BY <2>2 DEF G!Promise!Init
  <2> QED BY <2>1, <2>2, <2>3, <2>4 DEF G!GateInv
<1> QED BY <1>1, <1>2 DEF ServicesInit

\* No more than maxConcurrent handlers of a type run at once, no handler that was not
\* let in, and one for a step (executeStep and its gate), under the hypotheses of
\* StepGate_proofs: on Postgres no step has two deliveries at a time.
THEOREM GatesAreSemaphores ==
  ASSUME G!SemaphoreInstance PROVE ServicesSpec => ImplementsSemaphore
<1>1. ServicesInit => G!GateInv /\ G!Promise!Init
  BY SemaphoreStarts
<1>2. G!GateInv /\ [ServicesNext]_allVars => G!GateInv'
  BY GateSteps, G!GateInvStays
<1>3. G!GateInv /\ [ServicesNext]_allVars => [G!Promise!Next]_(G!Promise!vars)
  BY GateSteps, G!NextMoves, G!MovesImplement DEF G!GateInv
<1>4. G!Promise!Init => Gate!Promise!Init
  BY DEF G!Promise!Init, Gate!Promise!Init, G!RunningSteps, Gate!RunningSteps, G!At, Gate!At
<1>5. [G!Promise!Next]_(G!Promise!vars) => [Gate!Promise!Next]_(Gate!Promise!vars)
  <2>1. G!RunningSteps = Gate!RunningSteps
    BY DEF G!RunningSteps, Gate!RunningSteps, G!At, Gate!At
  <2>2. G!RunningSteps' = Gate!RunningSteps'
    BY DEF G!RunningSteps, Gate!RunningSteps, G!At, Gate!At
  <2> QED BY <2>1, <2>2
    DEF G!Promise!Next, G!Promise!Enter, G!Promise!Leave, G!Promise!vars, G!Promise!Cardinality,
        Gate!Promise!Next, Gate!Promise!Enter, Gate!Promise!Leave, Gate!Promise!vars,
        Gate!Promise!Cardinality
<1> QED BY <1>1, <1>2, <1>3, <1>4, <1>5, PTL
    DEF ServicesSpec, ImplementsSemaphore, Gate!ImplementsSemaphore, Gate!Promise!Spec

-----------------------------------------------------------------------------
\* How long the sweeper lets a step be silent that is read with narrowest window n.
Spared(n) == IF n >= Window THEN n ELSE Window - 1

\* What n lost beats cost.
Lost(n) == n * Interval

\* Sorts of the constants, and a window wide enough for the beats that may be lost.
\* Only without latency do beats come every interval: one that takes any time
\* throttles the next, and one the handler sends shifts the phase.
BeatInstance ==
  /\ Interval \in Nat \ {0} /\ Window \in Nat \ {0} /\ None \notin Nat
  /\ \A k \in BeatCases :
       /\ k.narrowest \in Nat /\ k.latency \in 0..(Interval - 1)
       /\ k.budget \in [Beats!Events -> Nat]
       /\ (IF k.latency = 0 THEN Interval ELSE 2 * Interval - 1 + 2 * k.latency)
            + Lost(k.budget["lost"]) <= Spared(k.narrowest)

Handler(i) == beatPc[i] = "handler"

BeatTyped ==
  /\ narrowest \in Nat /\ latency \in Nat /\ silence \in Nat /\ live \in BOOLEAN
  /\ beatPc \in [Invocations -> {"none", "handler", "aborted", "over", "dead"}]
  /\ timer \in [Invocations -> 0..Interval] /\ since \in [Invocations -> 0..Interval]
  /\ flight \in [Invocations -> Nat \cup {None}]
  /\ beatBudget \in [Beats!Events -> Nat]

\* One worker has the step, and no beat of an earlier one is under way.
OneWorker ==
  \A i \in Invocations :
    /\ Handler(i) => beatRow = "running" /\ \A j \in Invocations : Handler(j) => i = j
    /\ beatPc[i] \in {"none", "dead", "aborted"} => flight[i] = None
    /\ beatPc[i] = "over" => beatRow = "settled"

\* The next beat to land, lost ones aside, lands while the sweeper spares the step.
\* A beat is due at the timer's next firing, or at the one after it if throttled.
Punctual(i) ==
  IF flight[i] = None
    THEN silence + timer[i] + latency + Lost(beatBudget["lost"])
           + (IF since[i] + timer[i] >= Interval THEN 0 ELSE Interval) <= Spared(narrowest)
    ELSE /\ flight[i] <= latency /\ since[i] = Interval
         /\ silence + latency - flight[i] <= Spared(narrowest)
         /\ silence + timer[i] + latency + Lost(beatBudget["lost"])
              <= Spared(narrowest) + (IF timer[i] + flight[i] < Interval THEN 0 ELSE Interval)

\* The throttle and the timer, as long as no beat was lost or took time.
InPhase(i) ==
  IF flight[i] = None THEN since[i] + timer[i] \in {0, Interval} ELSE timer[i] \in {0, Interval}

OnTime(k) ==
  /\ narrowest = k.narrowest /\ latency = k.latency
  /\ beatBudget["lost"] <= k.budget["lost"]
  /\ \A i \in Invocations : Handler(i) =>
       /\ Punctual(i)
       /\ latency = 0 /\ beatBudget["lost"] = k.budget["lost"] => InPhase(i)

BeatInv == BeatTyped /\ OneWorker /\ (live => \E k \in BeatCases : OnTime(k))

-----------------------------------------------------------------------------
\* The sweeper leaves a step alone that beats in time.
LEMMA LostBeats ==
  ASSUME BeatInstance
  PROVE  \A n \in Nat : Lost(n) \in Nat /\ (n > 0 => Lost(n) = Lost(n - 1) + Interval)
BY DEF Lost, BeatInstance

LEMMA LostGrows ==
  ASSUME BeatInstance
  PROVE  \A m, n \in Nat : /\ m < n => Lost(m) + Interval <= Lost(n)
                           /\ m <= n => Lost(m) <= Lost(n)
<1>1. \A n \in Nat : Lost(n) \in Nat
  BY LostBeats
<1>2. ASSUME NEW m \in Nat, NEW n \in Nat, m < n PROVE Lost(m) + Interval <= Lost(n)
  <2>1. PICK d \in Nat : n = m + 1 + d
    <3>1. n - m - 1 \in Nat /\ n = m + 1 + (n - m - 1)
      BY <1>2
    <3> QED BY <3>1
  <2>2. d * Interval \in Nat
    BY DEF BeatInstance
  <2>3. (m + 1 + d) * Interval = m * Interval + Interval + d * Interval
    BY DEF BeatInstance
  <2>4. m * Interval \in Nat /\ Interval \in Nat
    BY DEF BeatInstance
  <2> QED BY <2>1, <2>2, <2>3, <2>4 DEF Lost
<1>3. ASSUME NEW m \in Nat, NEW n \in Nat, m <= n PROVE Lost(m) <= Lost(n)
  <2>1. CASE m < n
    BY <1>1, <1>2, <2>1 DEF BeatInstance
  <2>2. CASE m = n
    BY <1>1, <2>2
  <2> QED BY <1>3, <2>1, <2>2
<1> QED BY <1>2, <1>3

LEMMA SparedIs ==
  ASSUME BeatInstance PROVE \A n \in Nat : Spared(n) \in Nat
BY DEF Spared, BeatInstance

\* The numbers of a case, and what its window leaves room for.
LEMMA RoomIs ==
  ASSUME BeatInstance, BeatTyped, NEW k \in BeatCases, OnTime(k)
  PROVE  /\ Lost(beatBudget["lost"]) \in Nat /\ Spared(narrowest) \in Nat /\ latency < Interval
         /\ beatBudget["lost"] \in Nat /\ k.budget["lost"] \in Nat
         /\ latency > 0 =>
              2 * Interval - 1 + 2 * latency + Lost(beatBudget["lost"]) <= Spared(narrowest)
         /\ latency = 0 => Interval + Lost(beatBudget["lost"]) <= Spared(narrowest)
         /\ latency = 0 /\ beatBudget["lost"] # k.budget["lost"] =>
              2 * Interval + Lost(beatBudget["lost"]) <= Spared(narrowest)
<1>1. /\ beatBudget["lost"] \in Nat /\ k.budget["lost"] \in Nat /\ narrowest \in Nat
      /\ latency \in 0..(Interval - 1) /\ Interval \in Nat
      /\ latency = k.latency /\ narrowest = k.narrowest /\ beatBudget["lost"] <= k.budget["lost"]
  BY DEF OnTime, BeatTyped, BeatInstance, Beats!Events
<1>2. /\ Lost(beatBudget["lost"]) \in Nat /\ Lost(k.budget["lost"]) \in Nat
      /\ Spared(narrowest) \in Nat
  BY <1>1, LostBeats, SparedIs
<1>4. Lost(beatBudget["lost"]) <= Lost(k.budget["lost"])
  BY <1>1, LostGrows
<1>5. beatBudget["lost"] # k.budget["lost"] =>
        Lost(beatBudget["lost"]) + Interval <= Lost(k.budget["lost"])
  <2>1. beatBudget["lost"] # k.budget["lost"] => beatBudget["lost"] < k.budget["lost"]
    BY <1>1
  <2> QED BY <1>1, <2>1, LostGrows
<1>3. (IF latency = 0 THEN Interval ELSE 2 * Interval - 1 + 2 * latency)
        + Lost(k.budget["lost"]) <= Spared(narrowest)
  BY <1>1 DEF BeatInstance
<1> QED BY <1>1, <1>2, <1>3, <1>4, <1>5

LEMMA ClaimKeepsBeats ==
  ASSUME BeatInstance, BeatInv, NEW i \in Invocations, Beats!Claim(i) PROVE BeatInv'
<1>1. /\ beatPc[i] = "none" /\ beatRow = "pending" /\ live /\ beatRow' = "running" /\ silence' = 0
      /\ beatPc' = [beatPc EXCEPT ![i] = "handler"]
      /\ timer' = [timer EXCEPT ![i] = Interval] /\ since' = [since EXCEPT ![i] = 0]
      /\ UNCHANGED <<narrowest, latency, live, flight, beatBudget>>
  BY DEF Beats!Claim, Beats!Become
<1>2. BeatTyped'
  BY <1>1 DEF BeatInv, BeatTyped, BeatInstance
<1>3. OneWorker'
  BY <1>1 DEF BeatInv, BeatTyped, OneWorker, Handler
<1>4. ASSUME NEW k \in BeatCases, OnTime(k) PROVE OnTime(k)'
  <2>1. \A j \in Invocations : Handler(j)' => j = i
    BY <1>1 DEF BeatInv, BeatTyped, OneWorker, Handler
  <2>2. flight'[i] = None /\ since'[i] = 0 /\ timer'[i] = Interval
    BY <1>1 DEF BeatInv, BeatTyped, OneWorker
  <2>3. InPhase(i)'
    BY <2>2 DEF InPhase, BeatInstance
  <2>4. Punctual(i)'
    BY <1>1, <1>4, <2>2, RoomIs DEF Punctual, BeatInv, BeatTyped, BeatInstance
  <2> QED BY <1>1, <1>4, <2>1, <2>3, <2>4 DEF OnTime
<1> QED BY <1>1, <1>2, <1>3, <1>4 DEF BeatInv

\* A beat that is sent, by the timer or by the handler.
LEMMA BeatKeepsBeats ==
  ASSUME BeatInstance, BeatInv, NEW i \in Invocations,
         Beats!TimerFires(i) \/ Beats!HandlerBeats(i)
  PROVE  BeatInv'
<1>1. /\ Handler(i)
      /\ UNCHANGED <<narrowest, latency, beatRow, live, beatPc, silence, since, beatBudget>>
      /\ flight' = IF flight[i] = None /\ since[i] >= Interval
                     THEN [flight EXCEPT ![i] = 0] ELSE flight
      /\ \/ timer[i] = 0 /\ timer' = [timer EXCEPT ![i] = Interval]
         \/ timer' = timer
  BY DEF Beats!TimerFires, Beats!HandlerBeats, Beats!Beat, Handler
<1>2. BeatTyped'
  BY <1>1 DEF BeatInv, BeatTyped, BeatInstance
<1>3. OneWorker'
  BY <1>1 DEF BeatInv, BeatTyped, OneWorker, Handler
<1>4. ASSUME NEW k \in BeatCases, OnTime(k) PROVE OnTime(k)'
  <2>1. \A j \in Invocations : Handler(j)' => j = i
    BY <1>1 DEF BeatInv, BeatTyped, OneWorker, Handler
  <2>2. /\ timer[i] \in 0..Interval /\ since[i] \in 0..Interval /\ silence \in Nat
        /\ flight[i] \in Nat \cup {None} /\ Interval \in Nat \ {0} /\ None \notin Nat
        /\ latency \in Nat
        /\ flight'[i] = IF flight[i] = None /\ since[i] >= Interval THEN 0 ELSE flight[i]
        /\ \/ timer[i] = 0 /\ timer'[i] = Interval
           \/ timer'[i] = timer[i]
        /\ UNCHANGED <<narrowest, latency, silence, since, beatBudget>>
    BY <1>1 DEF BeatInv, BeatTyped, BeatInstance
  <2>3. Punctual(i) /\ (latency = 0 /\ beatBudget["lost"] = k.budget["lost"] => InPhase(i))
    BY <1>1, <1>4 DEF OnTime
  <2>4. /\ Lost(beatBudget["lost"]) \in Nat /\ Spared(narrowest) \in Nat /\ latency < Interval
    BY <1>4, RoomIs DEF BeatInv
  <2>5. Punctual(i)'
    BY <2>2, <2>3, <2>4 DEF Punctual
  <2>6. latency = 0 /\ beatBudget["lost"] = k.budget["lost"] => InPhase(i)'
    BY <2>2, <2>3 DEF InPhase
  <2> QED BY <1>1, <1>4, <2>1, <2>5, <2>6 DEF OnTime
<1> QED BY <1>1, <1>2, <1>3, <1>4 DEF BeatInv

LEMMA LandKeepsBeats ==
  ASSUME BeatInstance, BeatInv, NEW i \in Invocations, Beats!Land(i) PROVE BeatInv'
<1>1. /\ flight[i] # None /\ since' = [since EXCEPT ![i] = 0]
      /\ flight' = [flight EXCEPT ![i] = None]
      /\ UNCHANGED <<narrowest, latency, beatRow, live, timer, beatBudget>>
      /\ IF beatRow = "running" /\ live
           THEN silence' = flight[i] /\ beatPc' = beatPc
           ELSE /\ silence' = silence
                /\ beatPc' = IF Handler(i) THEN [beatPc EXCEPT ![i] = "aborted"] ELSE beatPc
  BY DEF Beats!Land, Beats!Become, Handler
<1>2. BeatTyped'
  BY <1>1 DEF BeatInv, BeatTyped, BeatInstance
<1>3. OneWorker'
  BY <1>1 DEF BeatInv, BeatTyped, OneWorker, Handler
<1>4. ASSUME live, NEW k \in BeatCases, OnTime(k) PROVE OnTime(k)'
  <2>1. CASE beatRow = "running"
    <3>1. Handler(i)
      BY <1>1, <2>1 DEF BeatInv, BeatTyped, OneWorker, Handler
    <3>2. \A j \in Invocations : Handler(j)' => j = i
      BY <1>1, <1>4, <2>1, <3>1 DEF BeatInv, BeatTyped, OneWorker, Handler
    <3>3. /\ timer[i] \in 0..Interval /\ Interval \in Nat \ {0} /\ None \notin Nat
          /\ latency \in Nat /\ flight[i] \in Nat
          /\ flight'[i] = None /\ since'[i] = 0 /\ timer'[i] = timer[i] /\ silence' = flight[i]
          /\ UNCHANGED <<narrowest, latency, beatBudget>>
      BY <1>1, <1>4, <2>1 DEF BeatInv, BeatTyped, BeatInstance
    <3>4. Punctual(i) /\ (latency = 0 /\ beatBudget["lost"] = k.budget["lost"] => InPhase(i))
      BY <1>4, <3>1 DEF OnTime
    <3>5. flight[i] <= latency
      BY <1>1, <3>4 DEF Punctual
    <3>6. latency = 0 /\ beatBudget["lost"] = k.budget["lost"] => timer[i] \in {0, Interval}
      BY <1>1, <3>4 DEF InPhase
    <3>7. Punctual(i)'
      <4>1. CASE latency > 0
        BY <1>4, <3>3, <3>5, <4>1, RoomIs DEF Punctual, BeatInv
      <4>2. CASE latency = 0 /\ beatBudget["lost"] = k.budget["lost"]
        BY <1>4, <3>3, <3>5, <3>6, <4>2, RoomIs DEF Punctual, BeatInv
      <4>3. CASE latency = 0 /\ beatBudget["lost"] # k.budget["lost"]
        BY <1>4, <3>3, <3>5, <4>3, RoomIs DEF Punctual, BeatInv
      <4> QED BY <3>3, <4>1, <4>2, <4>3
    <3>8. latency = 0 /\ beatBudget["lost"] = k.budget["lost"] => InPhase(i)'
      BY <3>3, <3>6 DEF InPhase
    <3> QED BY <1>1, <1>4, <3>2, <3>7, <3>8 DEF OnTime
  <2>2. CASE beatRow # "running"
    <3>1. \A j \in Invocations : ~Handler(j)'
      BY <1>1, <2>2 DEF BeatInv, BeatTyped, OneWorker, Handler
    <3> QED BY <1>1, <1>4, <3>1 DEF OnTime
  <2> QED BY <2>1, <2>2
<1> QED BY <1>1, <1>2, <1>3, <1>4 DEF BeatInv

LEMMA LoseKeepsBeats ==
  ASSUME BeatInstance, BeatInv, NEW i \in Invocations, Beats!LoseBeat(i) PROVE BeatInv'
<1>1. /\ flight[i] # None /\ flight' = [flight EXCEPT ![i] = None]
      /\ beatBudget["lost"] > 0 /\ beatBudget' = [beatBudget EXCEPT !["lost"] = @ - 1]
      /\ UNCHANGED <<narrowest, latency, beatRow, live, beatPc, silence, timer, since>>
  BY DEF Beats!LoseBeat, Beats!Spend
<1>0. beatBudget["lost"] \in Nat /\ beatBudget'["lost"] = beatBudget["lost"] - 1
  BY <1>1 DEF BeatInv, BeatTyped, Beats!Events
<1>2. BeatTyped'
  BY <1>0, <1>1 DEF BeatInv, BeatTyped, BeatInstance, Beats!Events
<1>3. OneWorker'
  BY <1>1 DEF BeatInv, BeatTyped, OneWorker, Handler
<1>4. ASSUME NEW k \in BeatCases, OnTime(k) PROVE OnTime(k)'
  <2>1. ASSUME NEW j \in Invocations, Handler(j), j # i PROVE Punctual(j)'
    <3>1. flight[j] = None \/ flight[j] # None
      OBVIOUS
    <3>2. Handler(i) \/ beatPc[i] = "over"
      BY <1>1 DEF BeatInv, BeatTyped, OneWorker, Handler
    <3>3. FALSE
      BY <2>1, <3>2 DEF BeatInv, BeatTyped, OneWorker, Handler
    <3> QED BY <3>3
  <2>2. ASSUME Handler(i) PROVE Punctual(i)'
    <3>1. /\ timer[i] \in 0..Interval /\ Interval \in Nat \ {0} /\ silence \in Nat
          /\ latency \in Nat /\ flight[i] \in Nat
          /\ flight'[i] = None
          /\ UNCHANGED <<narrowest, latency, silence, timer, since>>
      BY <1>1 DEF BeatInv, BeatTyped, BeatInstance
    <3>2. /\ since[i] = Interval
          /\ silence + timer[i] + latency + Lost(beatBudget["lost"])
               <= Spared(narrowest) + (IF timer[i] + flight[i] < Interval THEN 0 ELSE Interval)
      BY <1>1, <1>4, <2>2 DEF OnTime, Punctual
    <3>3. /\ Lost(beatBudget["lost"]) = Lost(beatBudget'["lost"]) + Interval
          /\ Lost(beatBudget'["lost"]) \in Nat /\ Spared(narrowest) \in Nat
      BY <1>0, <1>1, <1>4, LostBeats, RoomIs DEF BeatInv
    <3> QED BY <3>1, <3>2, <3>3 DEF Punctual
  <2>3. beatBudget'["lost"] <= k.budget["lost"] /\ beatBudget'["lost"] # k.budget["lost"]
    BY <1>0, <1>4, RoomIs DEF OnTime, BeatInv
  <2>4. \A j \in Invocations : Handler(j)' => Handler(j)
    BY <1>1 DEF Handler
  <2> QED BY <1>1, <1>4, <2>1, <2>2, <2>3, <2>4 DEF OnTime
<1> QED BY <1>1, <1>2, <1>3, <1>4 DEF BeatInv

\* A handler that is over: none is left.
LEMMA EndKeepsBeats ==
  ASSUME BeatInstance, BeatInv, NEW i \in Invocations, Beats!Return(i) \/ Beats!Crash(i)
  PROVE  BeatInv'
<1>1. /\ Handler(i) /\ UNCHANGED <<narrowest, latency, live, silence, timer, since>>
      /\ \/ /\ beatRow' = "settled" /\ beatPc' = [beatPc EXCEPT ![i] = "over"]
            /\ UNCHANGED <<flight, beatBudget>>
         \/ /\ beatRow' = beatRow /\ beatPc' = [beatPc EXCEPT ![i] = "dead"]
            /\ flight' = [flight EXCEPT ![i] = None]
            /\ beatBudget' = [beatBudget EXCEPT !["crash"] = @ - 1] /\ beatBudget["crash"] > 0
  BY DEF Beats!Return, Beats!Crash, Beats!Become, Beats!Spend, Handler, Beats!clocks
<1>2. BeatTyped'
  BY <1>1 DEF BeatInv, BeatTyped, BeatInstance, Beats!Events
<1>3. OneWorker'
  BY <1>1 DEF BeatInv, BeatTyped, OneWorker, Handler
<1>4. ASSUME NEW k \in BeatCases, OnTime(k) PROVE OnTime(k)'
  <2>1. \A j \in Invocations : ~Handler(j)'
    BY <1>1 DEF BeatInv, BeatTyped, OneWorker, Handler
  <2>2. beatBudget'["lost"] = beatBudget["lost"]
    BY <1>1 DEF BeatInv, BeatTyped, Beats!Events
  <2> QED BY <1>1, <1>4, <2>1, <2>2 DEF OnTime
<1> QED BY <1>1, <1>2, <1>3, <1>4 DEF BeatInv

\* No step of a handler is silent for longer than the sweeper spares it.
LEMMA SparedWhileBeating ==
  ASSUME BeatInstance, BeatInv, Beats!Sweep PROVE Beats!Handling = {}
<1> SUFFICES ASSUME NEW i \in Invocations, Handler(i) PROVE FALSE
  BY DEF Beats!Handling, Handler
<1>1. PICK k \in BeatCases : OnTime(k)
  BY DEF BeatInv, Beats!Sweep, Beats!SweepOnFirstLook
<1>2. /\ timer[i] \in 0..Interval /\ Interval \in Nat \ {0} /\ silence \in Nat
      /\ latency \in Nat /\ flight[i] \in Nat \cup {None} /\ narrowest \in Nat
      /\ Window \in Nat \ {0}
  BY DEF BeatInv, BeatTyped, BeatInstance
<1>3. Lost(beatBudget["lost"]) \in Nat /\ Spared(narrowest) \in Nat
  BY <1>1, RoomIs DEF BeatInv
<1>4. silence <= Spared(narrowest)
  BY <1>1, <1>2, <1>3 DEF OnTime, Punctual
<1>5. silence > narrowest /\ silence >= Window
  BY DEF Beats!Sweep, Beats!SweepOnFirstLook, Beats!TooSilent
<1> QED BY <1>2, <1>4, <1>5 DEF Spared

LEMMA SweepKeepsBeats ==
  ASSUME BeatInstance, BeatInv, Beats!Sweep PROVE BeatInv'
<1>1. /\ beatRow = "running" /\ beatRow' = "pending"
      /\ UNCHANGED <<narrowest, latency, live, beatPc, silence, timer, since, flight, beatBudget>>
  BY DEF Beats!Sweep, Beats!SweepOnFirstLook, Beats!clocks
<1>2. \A i \in Invocations : ~Handler(i)
  BY SparedWhileBeating DEF Beats!Handling, Handler
<1>3. BeatTyped' /\ OneWorker'
  BY <1>1, <1>2 DEF BeatInv, BeatTyped, OneWorker, Handler
<1>4. ASSUME NEW k \in BeatCases, OnTime(k) PROVE OnTime(k)'
  BY <1>1, <1>2, <1>4 DEF OnTime, Handler
<1> QED BY <1>1, <1>3, <1>4 DEF BeatInv

LEMMA CancelKeepsBeats ==
  ASSUME BeatInstance, BeatInv, Beats!Cancel PROVE BeatInv'
<1>1. /\ ~live' /\ beatRow' = (IF beatRow = "pending" THEN "skipped" ELSE beatRow)
      /\ beatBudget["cancel"] > 0 /\ beatBudget' = [beatBudget EXCEPT !["cancel"] = @ - 1]
      /\ live' \in BOOLEAN
      /\ UNCHANGED <<narrowest, latency, beatPc, silence, timer, since, flight>>
  BY DEF Beats!Cancel, Beats!Spend, Beats!clocks
<1>2. BeatTyped'
  BY <1>1 DEF BeatInv, BeatTyped, Beats!Events
<1>3. OneWorker'
  BY <1>1 DEF BeatInv, BeatTyped, OneWorker, Handler
<1> QED BY <1>1, <1>2, <1>3 DEF BeatInv

\* Time passes: a beat under way is nearer to landing, the timer to firing.
LEMMA TickKeepsBeats ==
  ASSUME BeatInstance, BeatInv, Beats!Tick PROVE BeatInv'
<1>1. /\ \A i \in Invocations : Handler(i) => timer[i] > 0
      /\ \A i \in Invocations : flight[i] # None => flight[i] < latency
      /\ silence' = IF silence <= Window THEN silence + 1 ELSE silence
      /\ timer' = [i \in Invocations |-> IF timer[i] > 0 THEN timer[i] - 1 ELSE 0]
      /\ since' = [i \in Invocations |-> IF since[i] < Interval THEN since[i] + 1 ELSE Interval]
      /\ flight' = [i \in Invocations |-> IF flight[i] = None THEN None ELSE flight[i] + 1]
      /\ UNCHANGED <<narrowest, latency, beatRow, live, beatPc, beatBudget>>
  BY DEF Beats!Tick, Beats!Handling, Handler
<1>2. BeatTyped'
  BY <1>1 DEF BeatInv, BeatTyped, BeatInstance
<1>3. OneWorker'
  BY <1>1 DEF BeatInv, BeatTyped, OneWorker, Handler
<1>4. ASSUME NEW k \in BeatCases, OnTime(k) PROVE OnTime(k)'
  <2>1. ASSUME NEW i \in Invocations, Handler(i)
        PROVE  /\ Punctual(i)'
               /\ latency = 0 /\ beatBudget["lost"] = k.budget["lost"] => InPhase(i)'
    <3>1. /\ timer[i] \in 0..Interval /\ since[i] \in 0..Interval /\ silence \in Nat
          /\ flight[i] \in Nat \cup {None} /\ Interval \in Nat \ {0} /\ None \notin Nat
          /\ latency \in Nat
          /\ timer[i] > 0 /\ timer'[i] = timer[i] - 1
          /\ since'[i] = IF since[i] < Interval THEN since[i] + 1 ELSE Interval
          /\ flight[i] # None => flight[i] < latency
          /\ flight'[i] = IF flight[i] = None THEN None ELSE flight[i] + 1
          /\ silence' \in {silence, silence + 1}
          /\ UNCHANGED <<narrowest, latency, beatBudget>>
      BY <1>1, <2>1 DEF BeatInv, BeatTyped, BeatInstance
    <3>2. Punctual(i) /\ (latency = 0 /\ beatBudget["lost"] = k.budget["lost"] => InPhase(i))
      BY <1>4, <2>1 DEF OnTime
    <3>3. Lost(beatBudget["lost"]) \in Nat /\ Spared(narrowest) \in Nat /\ latency < Interval
      BY <1>4, RoomIs DEF BeatInv
    <3>4. CASE flight[i] = None
      <4>1. Punctual(i)'
        BY <3>1, <3>2, <3>3, <3>4 DEF Punctual
      <4>2. latency = 0 /\ beatBudget["lost"] = k.budget["lost"] => InPhase(i)'
        BY <3>1, <3>2, <3>4 DEF InPhase
      <4> QED BY <4>1, <4>2
    <3>5. CASE flight[i] # None
      <4>1. latency # 0
        BY <3>1, <3>5
      <4>2. Punctual(i)'
        BY <3>1, <3>2, <3>3, <3>5 DEF Punctual
      <4> QED BY <4>1, <4>2
    <3> QED BY <3>4, <3>5
  <2>2. \A i \in Invocations : Handler(i)' => Handler(i)
    BY <1>1 DEF Handler
  <2> QED BY <1>1, <1>4, <2>1, <2>2 DEF OnTime
<1> QED BY <1>1, <1>2, <1>3, <1>4 DEF BeatInv

LEMMA BeatStarts == ASSUME BeatInstance, ServicesInit PROVE BeatInv
<1>1. CASE Beats!Init
  <2>1. /\ live = TRUE /\ beatRow = "pending" /\ silence = 0
        /\ beatPc = [i \in Invocations |-> "none"]
        /\ timer = [i \in Invocations |-> 0] /\ since = [i \in Invocations |-> 0]
        /\ flight = [i \in Invocations |-> None]
    BY <1>1 DEF Beats!Init
  <2>2. PICK k \in BeatCases :
          narrowest = k.narrowest /\ latency = k.latency /\ beatBudget = k.budget
    BY <1>1 DEF Beats!Init
  <2>3. BeatTyped
    BY <2>1, <2>2 DEF BeatTyped, BeatInstance
  <2>4. OneWorker
    BY <2>1 DEF OneWorker, Handler
  <2>5. OnTime(k)
    BY <2>1, <2>2 DEF OnTime, Handler, BeatInstance, Beats!Events
  <2> QED BY <2>3, <2>4, <2>5 DEF BeatInv
<1>2. CASE NoBeat
  <2>1. BeatTyped
    <3>1. narrowest \in Nat /\ latency \in Nat /\ silence \in Nat /\ live \in BOOLEAN
      BY <1>2 DEF NoBeat, BeatInstance
    <3>2. /\ timer \in [Invocations -> 0..Interval] /\ since \in [Invocations -> 0..Interval]
          /\ beatBudget \in [Beats!Events -> Nat]
      BY <1>2 DEF NoBeat, Zero, BeatInstance
    <3>3. /\ beatPc \in [Invocations -> {"none", "handler", "aborted", "over", "dead"}]
          /\ flight \in [Invocations -> Nat \cup {None}]
      BY <1>2 DEF NoBeat
    <3> QED BY <3>1, <3>2, <3>3 DEF BeatTyped
  <2>2. OneWorker /\ ~live
    BY <1>2 DEF NoBeat, OneWorker, Handler
  <2> QED BY <2>1, <2>2 DEF BeatInv
<1> QED BY <1>1, <1>2 DEF ServicesInit

LEMMA BeatStays == ASSUME BeatInstance, BeatInv, [ServicesNext]_allVars PROVE BeatInv'
<1>1. CASE UNCHANGED beatsVars
  BY <1>1 DEF beatsVars, BeatInv, BeatTyped, OneWorker, OnTime, Punctual, InPhase, Handler
<1>2. CASE Beats!Next
  BY <1>2, ClaimKeepsBeats, BeatKeepsBeats, LandKeepsBeats, LoseKeepsBeats, EndKeepsBeats,
     SweepKeepsBeats, CancelKeepsBeats, TickKeepsBeats DEF Beats!Next
<1>3. CASE UNCHANGED allVars
  BY <1>1, <1>3 DEF allVars
<1> QED BY <1>1, <1>2, <1>3 DEF ServicesNext

\* However a beat is throttled, slow or lost, the sweeper does not take a step from
\* a handler that runs (startHeartbeat, recoverStuckWorkflows), if the window has
\* room: for an interval and the lost ones if a beat takes no time, for nearly two
\* and twice the time it takes otherwise.
THEOREM BeatsKeepTheStep == ASSUME BeatInstance PROVE ServicesSpec => KeptWhileBeating
<1>1. ServicesInit => BeatInv
  BY BeatStarts
<1>2. BeatInv /\ [ServicesNext]_allVars => BeatInv'
  BY BeatStays
<1>3. BeatInv /\ [ServicesNext]_allVars => [Beats!Sweep => Beats!Handling = {}]_(Beats!vars)
  BY SparedWhileBeating
<1> QED BY <1>1, <1>2, <1>3, PTL DEF ServicesSpec, KeptWhileBeating, Beats!KeptWhileBeating

=============================================================================
