------------------------------- MODULE Services -------------------------------
(***************************************************************************)
(* What surrounds the run of a workflow, side by side: the map step, the   *)
(* waits and child runs, the step gate, the heartbeats, the idempotent     *)
(* start, the step worker and the set-up of the queues.  An initial state  *)
(* is a small run of one of them, the others have nothing to do.           *)
(***************************************************************************)
EXTENDS MapFanOut

CONSTANTS
  MaxChildren, Budget, MaxTimers, WaitCases,         \* Suspension
  Steps, Calls, Cap, Burst, Ttl, GateCases,          \* StepGate
  Invocations, Interval, Window, BeatCases,          \* Heartbeat
  Workers, MaxTicks, MaxRuns, RetryLimit, StartCases,  \* StartOnce
  Jobs, Lanes, WorkerCases,                          \* StepWorker
  MaxTries, SetUpCases                               \* Preparation

VARIABLES
  waitKind, deadline, parentRun, parent, age, timers, lost, parentJobs, child, waitTh, waitBudget,
  shared, gateRow, gateJobs, lease, held, tokens, gateCall, died, gateBudget,
  narrowest, latency, beatRow, silence, live, beatPc, timer, since, flight, beatBudget,
  payload, atomic, batch, startJob, startTries, run, at, got, refused, startBudget,
  batchSize, concurrency, valid, job, delivered, failed, handled, fetched, pending, lane,
  results, misreported, late, jobBudget,
  callKind, single, engine, memo, queues, cached, holder, callPc, callTries, callBudget

Waits == INSTANCE Suspension WITH
  Threads <- Invocations, Cases <- WaitCases, kind <- waitKind, run <- parentRun, step <- parent, jobs <- parentJobs,
  th <- waitTh, budget <- waitBudget
Gate == INSTANCE StepGate WITH
  Calls <- Invocations, Cases <- GateCases, row <- gateRow, jobs <- gateJobs, running <- held, call <- gateCall,
  budget <- gateBudget
Beats == INSTANCE Heartbeat WITH
  Cases <- BeatCases, row <- beatRow, pc <- beatPc, budget <- beatBudget
Starts == INSTANCE StartOnce WITH
  Cases <- StartCases, job <- startJob, tries <- startTries, budget <- startBudget
Worker == INSTANCE StepWorker WITH
  Cases <- WorkerCases, budget <- jobBudget
SetUp == INSTANCE Preparation WITH
  Cases <- SetUpCases, kind <- callKind, pc <- callPc, tries <- callTries, budget <- callBudget

Zero(E) == [e \in E |-> 0]

-----------------------------------------------------------------------------
(***************************************************************************)
(* With nothing to do: no job, no timer, no call, no event left.           *)
(***************************************************************************)
NoMap ==
  /\ wf = "running" /\ status = [r \in Rows |-> IF r = Map THEN "pending" ELSE "absent"]
  /\ attempts = Zero(Rows) /\ queue = Zero(Rows) /\ dead = {}
  /\ th = [i \in Threads |-> Idle] /\ budget = Zero(Events)

NoWait ==
  /\ waitKind = "event" /\ deadline = "none" /\ parentRun = "completed" /\ parent = "completed"
  /\ age = 0 /\ timers = Zero(0..Budget) /\ lost = {} /\ parentJobs = 0
  /\ child = [c \in 1..MaxChildren |-> "none"]
  /\ waitTh = [t \in Invocations |-> Waits!Idle] /\ waitBudget = Zero(Waits!Events)

NoGated ==
  /\ shared = FALSE /\ gateRow = [s \in Steps |-> "settled"] /\ gateJobs = Zero(Steps)
  /\ lease = Zero(Steps) /\ held = 0 /\ tokens = Burst
  /\ gateCall = [c \in Invocations |-> Gate!Idle] /\ died = {} /\ gateBudget = Zero(Gate!Events)

NoBeat ==
  /\ narrowest = Window /\ latency = 0 /\ beatRow = "completed" /\ silence = 0 /\ live = FALSE
  /\ beatPc = [i \in Invocations |-> "none"] /\ timer = Zero(Invocations)
  /\ since = Zero(Invocations) /\ flight = [i \in Invocations |-> None]
  /\ beatBudget = Zero(Beats!Events)

NoTick ==
  /\ payload = [key |-> FALSE, prefix |-> FALSE] /\ atomic = TRUE /\ batch = 1
  /\ startJob = [t \in Starts!Ticks |-> "failed"] /\ startTries = Zero(Starts!Ticks)
  /\ run = [i \in Starts!Ids |-> Starts!Unused] /\ at = [w \in Workers |-> Starts!Idle]
  /\ got = [t \in Starts!Ticks |-> {}] /\ refused = FALSE /\ startBudget = Zero(Starts!Events)

NoJob ==
  /\ batchSize = 1 /\ concurrency = 1 /\ valid = Jobs /\ job = [j \in Jobs |-> "done"]
  /\ delivered = Zero(Jobs) /\ failed = Zero(Jobs) /\ handled = Jobs
  /\ fetched = [w \in Workers |-> {}] /\ pending = [w \in Workers |-> {}]
  /\ lane = [w \in Workers |-> Worker!NoLane] /\ results = [w \in Workers |-> {}]
  /\ misreported = {} /\ late = {} /\ jobBudget = Zero(Worker!Events)

NoCall ==
  /\ callKind = [c \in Calls |-> "direct"] /\ single = FALSE /\ engine = "none"
  /\ memo = "none" /\ queues = FALSE /\ cached = FALSE /\ holder = {}
  /\ callPc = [c \in Calls |-> "done"] /\ callTries = Zero(Calls)
  /\ callBudget = [refuse |-> 0]

-----------------------------------------------------------------------------
ServicesInit ==
  \/ Init       /\ NoWait /\ NoGated /\ NoBeat /\ NoTick /\ NoJob /\ NoCall
  \/ Waits!Init /\ NoMap  /\ NoGated /\ NoBeat /\ NoTick /\ NoJob /\ NoCall
  \/ Gate!Init  /\ NoMap  /\ NoWait /\ NoBeat /\ NoTick /\ NoJob /\ NoCall
  \/ Beats!Init /\ NoMap  /\ NoWait /\ NoGated /\ NoTick /\ NoJob /\ NoCall
  \/ Starts!Init /\ NoMap /\ NoWait /\ NoGated /\ NoBeat /\ NoJob /\ NoCall
  \/ Worker!Init /\ NoMap /\ NoWait /\ NoGated /\ NoBeat /\ NoTick /\ NoCall
  \/ SetUp!Init /\ NoMap  /\ NoWait /\ NoGated /\ NoBeat /\ NoTick /\ NoJob

waitsVars == <<waitKind, deadline, parentRun, parent, age, timers, lost, parentJobs, child, waitTh, waitBudget>>
gateVars == <<shared, gateRow, gateJobs, lease, held, tokens, gateCall, died, gateBudget>>
beatsVars == <<narrowest, latency, beatRow, silence, live, beatPc, timer, since, flight, beatBudget>>
startsVars == <<payload, atomic, batch, startJob, startTries, run, at, got, refused, startBudget>>
workerVars == <<batchSize, concurrency, valid, job, delivered, failed, handled, fetched, pending, lane,
              results, misreported, late, jobBudget>>
setUpVars == <<callKind, single, engine, memo, queues, cached, holder, callPc, callTries, callBudget>>

ServicesNext ==
  \/ Next /\ UNCHANGED <<waitsVars, gateVars, beatsVars, startsVars, workerVars, setUpVars>>
  \/ Waits!Next /\ UNCHANGED <<vars, gateVars, beatsVars, startsVars, workerVars, setUpVars>>
  \/ Gate!Next /\ UNCHANGED <<vars, waitsVars, beatsVars, startsVars, workerVars, setUpVars>>
  \/ Beats!Next /\ UNCHANGED <<vars, waitsVars, gateVars, startsVars, workerVars, setUpVars>>
  \/ Starts!Next /\ UNCHANGED <<vars, waitsVars, gateVars, beatsVars, workerVars, setUpVars>>
  \/ Worker!Next /\ UNCHANGED <<vars, waitsVars, gateVars, beatsVars, startsVars, setUpVars>>
  \/ SetUp!Next /\ UNCHANGED <<vars, waitsVars, gateVars, beatsVars, startsVars, workerVars>>

allVars == <<vars, waitsVars, gateVars, beatsVars, startsVars, workerVars, setUpVars>>

ServicesSpec ==
  /\ ServicesInit
  /\ [][ServicesNext]_allVars

-----------------------------------------------------------------------------
(***************************************************************************)
(* What each promises.  A promise of progress is made under the fairness   *)
(* of the component it is about, and needs no other.                       *)
(***************************************************************************)

\* Once the job of the map is queued, the run ends.
MapEnds == Fairness => Finishes

\* No deadline is obeyed before the suspension it is for has lasted its budget.
NeverEarly == Waits!NeverEarly

\* A step that waits for a child run or with a deadline settles, and its run ends,
\* unless its timer was refused or the call that suspended it died.
EveryWaitEnds == Waits!Fairness => Waits!EveryWaitEnds

\* No slot of a gate is lost or counted twice.
SlotsAccountedFor == Gate!SlotsAccountedFor

\* A gate is a semaphore.
ImplementsSemaphore == Gate!ImplementsSemaphore

\* A worker that beats keeps its step.
KeptWhileBeating == Beats!KeptWhileBeating

\* No step is kept out of its gate for ever; a worker that is dead is found out,
\* and one whose run is over is told.
NobodyIsForgotten ==
  /\ Gate!Fairness => Gate!NobodyStarves
  /\ Beats!Fairness => Beats!SilenceIsHeard

\* One run for a key, however often its job is delivered.
OneRunPerKey == Starts!OneRunPerKey

\* The run of a tick gets its roots queued.
EveryTickRuns == Starts!Fairness => Starts!EveryTickRuns

\* A job of a batch is settled on its own outcome.
OwnOutcome == Worker!OwnOutcome

\* No job stays behind in a batch or in a queue.
EveryJobEnds == Worker!Fairness => Worker!EveryJobEnds

\* No dispatch waits for ever for a connection or for a set-up.
EveryDispatchEnds == SetUp!Fairness => SetUp!EveryDispatchEnds

=============================================================================
