# Verification project for octaflow

octaflow is a durable workflow engine: a DAG of steps, kept as rows in a store,
executed by workers that take jobs from an at-least-once queue. This directory
holds TLA+ modules that model it, TLC configurations that check them on small
instances, and proofs, checked by TLAPS, of what holds for every instance.

Paths below are relative to the repository root; `engine.ts`, `store.ts`, ... are
`src/core/engine.ts`, `src/store-pg/store.ts`, ....

## 1. The system

| Component | State it keeps | Operations | Talks to |
|---|---|---|---|
| Run engine (`core/engine.ts`) | none of its own; every call reads the store | `startWorkflow`, `executeStep`, `resumeStep`, `timeoutStep`, `cancelWorkflow`, `retryWorkflow`, `recoverStuckWorkflows`, `handleStepExhausted` | store, dispatcher, registry, gate, hooks |
| Readiness (`core/readiness.ts`) | none (pure) | `computeReadiness`: what a set of rows makes ready, what it rules out | called by every advance |
| Saga order (`reverseTopologicalOrder`) | none (pure) | the order in which completed steps are undone | called by `compensateWorkflow` |
| Store (`core/store.ts`, `store-pg/store.ts`) | workflow row (status, counters, deadline), step rows (status, attempts, output) | one conditional claim; unconditional `markStep*`, `completeStep`, `failStep`, `skipPendingSteps`, `finishWorkflow` | Postgres, one transaction per completion |
| Dispatcher (`core/dispatcher.ts`, `dispatcher-pgboss/queue.ts`) | queued jobs, dead letters | enqueue (in the store's transaction or not), deliver, expire, dead-letter | workers |
| Guards and branches (`when`, join rules) | none | decide `skipped`, prune, unblock `any` joins | engine |
| Waits and deadlines | `waiting` rows, delayed timeout jobs, `deadlineAt` of the run | suspend, resume, time out, expire | queue, callers |
| Recovery | none | sweep of `running` rows older than a threshold; dead-letter worker | store, queue |
| Compensation | `compensating`, `compensated` rows | undo handlers of a failed run, one at a time | engine |
| Map fan-out | `mapping` parents, child rows | spawn children, aggregate, fail the parent | engine, store |
| Sub-workflows | parent step `waiting`, child run | start the child, bridge its verdict | engine, store |
| Heartbeats, abort signals | `heartbeatAt` of a row | beat, notice a cancelled run | store, handler |
| Step gate (`store-pg/gate.ts`, `core/gate.ts`) | leases with an expiry, token buckets | acquire, release, refill | store |
| Idempotent start, scheduler | unique key of a run, cron entries | start once per key | store, queue |
| Worker (`createPgBossStepWorker`) | a batch and its lanes | settle each job of a batch by itself | queue |
| Definition check, retry policy, step builders (`validateDefinition`, `shouldRetry`, `core/defineStep.ts`) | none | accept a definition; run one attempt and classify its error | engine, handlers |
| AI add-on (`ai/*`) | usage records, quotas | check, charge, aggregate | hooks, store |
| Hooks, event sink, public view, DDL, wire payloads | - | notifications, projections, plumbing | - |

Workers, API callers, the sweeper and the dead-letter worker run the same engine
functions concurrently, in different processes, and share nothing but the store
and the queue. Three things make it hard:

* **Interleaving.** An engine call is a sequence of store calls with awaits between
  them. It acts on rows it has read, while others write them. Only the claim
  (`markStepRunning`) is conditional; the other writes do not test what they overwrite.
* **Delivery.** A job may be delivered twice, late, concurrently with itself, after its
  run is over, or never again (dead letter).
* **Death.** A call may die between any two of its store calls. With a shared Postgres a
  completion and the dispatches it unlocks commit together; everything else does not.

What must hold: a handler runs once per claim; a step starts only when its join is
satisfied and is pruned only when nothing can make it run any more; the verdict, the
counters and the undone steps are those of the rows; no run is left with nothing
that could move it; every run ends. Around a run: a map completes only out of all its items
and settles as one step would; a wait ends, and not before its time; a gate lets no more through than it should;
a worker that lives keeps its step; one key starts one run; a job is settled on its own
outcome; the two stores do the same.

## 2. The modules

| Module | What it is |
|---|---|
| `Readiness` | `computeReadiness` as what it computes: the least fixpoint of "can never run", and the ready steps. |
| `ReadinessLoop` | the loop of `computeReadiness`, pass by pass and row by row, with its `progressed` flag. |
| `Saga` | `reverseTopologicalOrder`, pass by pass, over any subset of the rows. |
| `Definition` | `validateDefinition`: its checks in order, and Kahn's algorithm visit by visit. |
| `StepCall` | one attempt of a step: the pipeline around a handler, the classification of an error, the decision to retry. |
| `Tables` | laying new columns over a row, and new rows over a table. |
| `MemStore` | the calls of the in-memory store: what every store must do. |
| `PgStore` | the same calls on Postgres: statements, transactions, row locks, tenants in one table. |
| `Quota` | the AI quota's check of three windows against the starts, completions and retries that race it. |
| `Algorithms` | those side by side (`ReadinessLoop`, `Saga`, `Definition`, `StepCall`, `PgStore`, `Quota`). |
| `DagRun` | the abstract specification of a run: what it promises, without jobs, workers or snapshots. |
| `Engine` | one run of the engine over the shared store and the queue. |
| `MapFanOut` | one map step, its children and the calls that settle them, down to the verdict of the run. |
| `Suspension` | a step that waits, for an event or a child run, with its delayed timers, an expiry and retries of the run. |
| `Semaphore`, `StepGate` | what a gate promises; the two gates in front of `executeStep`. |
| `Heartbeat` | the beats of one step, the sweeper and the next invocation, on clocks. |
| `StartOnce` | from the ticks of a schedule to runs with their roots queued. |
| `StepWorker` | the workers of the step queue and of the dead-letter queue. |
| `Preparation` | the set-up of queues against open transactions, on one connection or many. |
| `Services` | the last six and `MapFanOut` side by side. |
| `MCEngine`, `MCMapFanOut`, `MCServices`, `MCAlgorithms` | the graphs, inputs, outcomes and budgets the configurations choose from. |
| `Algorithms_proofs`, `Engine_proofs`, `MapFanOut_proofs`, `StepGate_proofs`, `Suspension_proofs`, `StartOnce_proofs`, `StepWorker_proofs`, `Services_proofs` | section 4. |

`Engine` extends `Readiness` and takes what `computeReadiness` returns (`SkipPlan`,
`ReadyPlan`) in one step; `ReadinessLoop` shows that the code computes them. `Engine`
implements `DagRun` under a refinement mapping (`Promise`), and so does `MapFanOut`, with
the map as the only step of the run. `StepGate` implements `Semaphore`; `PgStore`
implements one `MemStore` per tenant.

The parts of `Algorithms` and of `Services` share no state in the code either, or share it
through what the other's module already contains (a queued job, a claimed row). They are
put side by side so that one run checks them: an initial state is a small run of one
part, and the others have nothing to do. A promise of progress is stated under the
fairness of its own part.

### How `Engine` corresponds to the code

*State.* `wf`, `counts`, `status`, `attempts` are the workflow row and the step rows;
`queue` counts the copies of each job, `dead` is the dead-letter queue; `lock` names the
thread whose completion transaction is open; `th[i]` is one engine call in progress: its
position (`pc`), the job that started it, its step, the attempt it believes it runs, and
the snapshot and work list it carries from one await to the next.

*Actions.* One action is one store call (or one handler). The order is the order of the
code:

| Code | Actions |
|---|---|
| `executeStep` | `Deliver` `Begin` `Claim` `Inputs` `Handle`, then `Decline`, `Suspend`, `Requeue`+`Resend`, `Fail`, or `Complete` |
| `onStepCompleted`, `withDispatchScope` | `Complete` opens the transaction and reads, `Commit` makes it visible; in write-then-enqueue mode `Complete`, `Frontier`, `Send` one by one |
| `dispatchNewlyReady` for a redelivered job | `Frontier`, `Advance` |
| `settle`, `cascadeSkips`, `terminateIfSettled` | `List` `Cascade` `Reread` `Unblock` `Terminate` `Finish` |
| `compensateWorkflow` | `Compensate` `Undo` `Undoing` |
| `resumeStep`, `timeoutStep` | `Resume`, `Timeout`, then `Complete` or `Fail` |
| `cancelWorkflow`, `expireIfPastDeadline` | `Cancel` / `Begin` / `Sweep`, `SkipPendingSteps`, `CloseRun` |
| `recoverStuckWorkflows` | `Sweep` `SweepRetry` `SweepSend` `SweepFail` |
| `handleStepExhausted` | `Exhaust` |
| `retryWorkflow` | `Retry` `Reset` `Recount` `Reopen`, then `Frontier` |
| a process that dies, a store call that throws, an expired job, time | `Crash` `Throw` `Redeliver` `PassDeadline` |

*Transactions.* A completion holds the row locks of its step and of the workflow's
counters until it commits, under READ COMMITTED: others read the old rows, and whoever
writes one of the locked rows waits (`RunFree`, `RowFree`). That lock is what lets the
second of two concurrent completions see the first.

*Abstractions.*

* The run has been started: `Init` is the state after `startWorkflow` committed.
* `getWorkflow` and `getStep` in front of the claim are one read; so are the reads of
  `resumeStep`, `timeoutStep`, `retryWorkflow` with the tests on them. What is written
  later is written on the strength of that read, as in the code.
* Loops over rows take them in any order; the code's order is that of ids.
* A handler is its outcome: ok, declined by its guard, transient or fatal error. `StepCall`
  has how an error is classified; a transient error is retried while
  the attempt the call believes it runs is below `maxAttempts`.
* Timeout jobs are delivered when due. `scheduleWaitTimeout` enqueues outside the
  transaction even when the rest is inside; the model puts it at the commit.
  `Engine` loses no timer: neither a refusal of the queue nor a death between the mark of a wait
  and its timer is in it, so `waits` says nothing of them. `Suspension` has both.
* An enqueue inside a transaction does not fail; one outside may (`sendfail`).
* A step is stuck when it is `running` and no call that claimed it is alive: the threshold
  is assumed to lie above the queue's job expiry, as the docs require.
* `Throw` covers the `try` of `executeStep` from the handler on. The copy of the job that
  the rethrown error causes finds a failed step and is left out. A throw elsewhere is a
  `Crash`: the job comes back.
* Maps, sub-workflows, timers with a delay, the gate, heartbeats and the start are modules of
  their own (below); the missing-handler path is not modelled.

### How `MapFanOut` corresponds to the code

`defineMapStep` makes a keyed step whose handler returns a list. The module has one, `Map`,
and a row per possible item in `Items`, `"absent"` until inserted; the other variables are
those of `Engine`, the verdict a call has read off the rows included.

| Code | Actions |
|---|---|
| `executeStep`, map or child | `Deliver` `Begin` `Claim` `Answer` / `Err`, then `Requeue`+`Resend` |
| `spawnMapChildren` | `Spawn` `MarkMapping` `Send` (one per child); an empty list goes to `Complete` |
| `onChildCompleted`, `advanceAfterChildCompleted` | `Complete` of a child, `Siblings`, `Complete` of the map |
| `failStepTerminal`, `failMapParent` | `Fail` `ReadParent` `FailMap` `ReadPending` `SkipSibling` |
| `settle`, `terminateIfSettled` | `List` `Terminate` `Finish` |
| `recoverStuckWorkflows`, `handleStepExhausted` | `Sweep` then `Requeue`+`Resend` or `FailAlone`; `Exhaust` then `FailAlone` |
| a process that dies, an expired job | `Crash`, `Redeliver` |

* The map is the only keyed step: no completion dispatches anything and `settle` prunes
  nothing, so `settle` is a read of the rows and the verdict. What a completed map unlocks in
  a larger graph is what any completed step unlocks, and in `Engine`.
* Completing the map is one action: by then all children are completed, and the transaction
  that writes it reads rows nobody is writing.
* One `Sweep` handles one stuck row. Calls of the sweeper and of the dead-letter worker do not
  die. Guards, waits, cancellation, deadlines, compensation and a retry of the run, which
  deletes the children, are not in it.
* Budgets name the deaths apart: of a child's call (`crash`, `deadletter`), of the map's before
  it has children (`mapcrash`, `mapdead`), and after (`latecrash`).

### How the other modules correspond to the code

*`Suspension`* - one step, its run, timers as counts by the ticks until they are due.

| Code | Actions |
|---|---|
| `suspendStep`, the guard of `executeStep` in front of a sub-workflow handler | `Dispatch`, `Claim`, `Suspend` |
| `scheduleWaitTimeout` | `Arm`, in `ArmTimer` and in `Timer`: the queue may refuse, which is only logged |
| `startSubWorkflow`, `bridgeSubWorkflow` | `StartChild` (refused, or answered at once), `EndChild`, `Bridge` |
| `resumeStep`, `timeoutStep` | `Resume`, `Timer` (too early: armed again for the rest), then `Write`, `Settle`, `Finish` |
| `expireIfPastDeadline`, `cancelWorkflow` | `Close` |
| `retryWorkflow` | `Retry`, `Reopen` |

A read and the write it leads to are two actions. A child run is its verdict; what a parent
does with its rows otherwise is in `Engine`. A timer's delay is exact, as is its expiry.
`Crash` is the death of the suspending call after the mark, before the timer or before the
child; `Redeliver` a second delivery of a timer. A call that dies in a dispatch transaction
takes the mark with it, and is no step. `lost` keeps what the present suspension will never
get: its last timer, its child. Calls with a verdict in hand do not die here (section 5 has
the timeout job that does).

*`StepGate`* - `Deliver`, then `AcquireLease`, `ConsumeToken`, `GiveBack` (`gate.ts` of
`store-pg`) or `AcquireInMemory` (`core/gate.ts`); `Defer` when refused; `Claim`, `Settle`
or `PutBack` and `Resend` (the engine); `Release`. `Tick` lets leases expire and tokens come
back. `Crash`, `Redeliver` and `Recover` (the sweeper) are what a lease has to survive. One
step type; the advisory lock makes the purge, the count and the insert one action.

*`Heartbeat`* - `Claim` starts the clocks; `TimerFires` and `HandlerBeats` send a beat unless
one is under way or the throttle forbids it; `Land` writes `heartbeatAt` or learns that the
row is no longer the worker's and aborts; `LoseBeat`, `Return`, `Crash`, `Cancel`; `Sweep` is
`findStuckSteps` with the narrowest window and then the step's own. Time does not pass a
moment at which something is due (`Tick`).

*`StartOnce`* - `CronFires` puts the schedule's one payload in the queue, `Fetch` takes a
batch, `CreateWorkflow` resolves the key (`resolveStartIdempotencyKey`) and inserts, or waits
for the transaction that holds the key, or finds the run; `EnqueueRoots`, `Commit`,
`EndBatch`. A batch fails as a whole (`Fail`), and may outlive its expiry (`Expire`), when it
is fetched again while the first worker goes on.

*`StepWorker`* - `Fetch`, `TakeJob`, `Return` / `Throw`, `EndBatch` (which settles per job),
`Crash`, `Expire`; `DeadLetter` is the worker of the dead-letter queue.

*`Preparation`* - `Call`, `EnterScope` (`withDispatchScope`), `EnsurePrepared` and `AwaitOver`
(the two memoised promises), `CreateQueues`, `FillCache`, `SetUpFails` (which clears the
memos), `Begin`, `SendTimer`, `Send`, `Commit`.

*`PgStore`, `MemStore`* - an operator per call of `WorkflowStore`, under the name of the call.
On Postgres a call is one statement (`Query`, `QueryRun`), or the transactions of
`completeStep`/`failStep` (`Settle`, `Count`, `Commit`) and `createWorkflow` (`Existing` after
a conflict, `Rollback`). A statement waits for the rows another transaction has written.

*`Definition`* - `Check`, `Visit`, `Conclude`. *`StepCall`* - `BuildContext`, `Guard`,
`Handler`, `Walk` (along `cause`), `Decide`; schemas and predicates are their verdicts.
*`Quota`* - `CountRunning`, `CountDay`, `CountMonth`, `Create`, one await each; `Complete`,
`Fail`, `Cancel`; `Retry`, which reopens a failed run and asks nobody (`retryWorkflow`, one
action here; `Engine` has its steps); `RollUp` (the hook, which nobody awaits), `NewDay`. Runs
are counted; `again` are the running ones that were retried.

A few operators next to an action (`GiveNothingBack`, `InsertUnseen`, ...) are the action with
one line of the code missing; they show that the properties notice.

## 3. The runs

The `Budgets` of a run bound how often each event of the environment occurs (a bad
outcome of a handler, a crash, a duplicate delivery, a dead letter, a refused enqueue, a
throw, the deadline, an operator's call, a sweep): a behaviour picks one budget at the
start. `MaxQueued` = 2 copies of a job are told apart. Deadlock is not checked: a run that
is over stops.

| Run | Instance | Shows |
|---|---|---|
| `algorithms` | every acyclic graph of 3 steps, every join rule, every snapshot; every acyclic graph of 4 rows; definitions of up to 3 steps; errors with three causes; two tenants or one on two connections, two calls; two racing starters, two retries | readiness ends with exactly the unreachable steps planned; the order of undoing is complete and dependents come first; a definition is accepted exactly when it can be run; no guess overrides a marker or a predicate; each tenant's Postgres store does what an in-memory store does; a quota is exceeded by less than the starts that race and the runs retried |
| `races` | 3 workers, diamond, 2 fatal failures, compensation, 1 duplicate delivery | type invariant, exclusive claims, handlers on settled dependencies, verdict and counters, order of undoing, no stranded run, `ImplementsDagRun` |
| `recovery` | join of 3, 2 crashes with 3 sweeps, or 2 transient failures and a duplicate | `ImplementsLiveDagRun`: the run ends as `DagRun` does, with what it must undo undone (`EndsClean`) |
| `waits` | diamond, two waits (one guarded), an event, deadlines, a duplicate | either answer may come first: the run ends, nothing starts or settles out of turn |
| `branches` | write-then-enqueue, `any` join, declined guard and duplicate; or a crash with `onStuckStep: 'fail'` | the run takes the branches `DagRun` allows and ends; the counters are those of the rows |
| `faults` | three parallel steps and one fault: throw, cancel, deadline, refused retry, crash with a refused sweep | the run ends with every step settled (`FinishesSettled`) |
| `retries` | chain, write-then-enqueue: retry of a failed run, dead letter, or lost dispatch with a duplicate | counters and verdict stay those of the rows; nothing settled revives (`NothingRevives`) |
| `services` | a map of two items or none, 3 workers; a wait or a child run, 2 calls, budget 3 ticks, timers refused and the call dying; a gate of one slot and one token for two steps; a beat every 2 ticks and a window of 6; two ticks of a schedule, 2 workers; two jobs, 2 workers; three dispatches | see below |
| `strand_declined`, `undo_twice`, `late_answer`, `swept_item` | see section 5 | counterexamples to what comments and docs say |

`services` checks, part by part: a map is completed out of all its items and settles as one
step of `DagRun` would (`AggregatesEveryItem`, `ImplementsOneStep`, `MapEnds`); no deadline is
obeyed before its suspension has lasted it, and every wait ends that has not lost its last
timer and its child (`NeverEarly`, `EveryWaitEnds`); a gate loses no slot and is a semaphore (`SlotsAccountedFor`,
`ImplementsSemaphore`); a worker that beats is never swept (`KeptWhileBeating`); a gate starves
nobody, a dead worker is found and a cancelled one told (`NobodyIsForgotten`); one key has one
run and every tick's run gets its roots (`OneRunPerKey`, `EveryTickRuns`); a job is settled on its own outcome and
leaves the queue (`OwnOutcome`, `EveryJobEnds`); no dispatch waits for ever for a connection
or a set-up (`EveryDispatchEnds`).

Where a promise needs a hypothesis the code does not ensure, the case that breaks it is left
out of the run and described in section 5: map deaths between insert and dispatch, a gate's
duplicate delivery on Postgres, a beat that takes time and is lost, refused root enqueues on
Postgres while progress is asked, a wait with a deadline inside a single-connection
transaction. Lost timers are in the run: `EveryWaitEnds` excepts the wait that lost its last one,
and asks of a child's parent that it ends by its child if its timer is lost, by its timer if
its child is.

*Why the bounds are enough.* The interleavings that matter are between two calls that
advance one run (two arms of a join, the last two items of a map), and a third that is late with an old snapshot: a
diamond and three threads have them. Cascades and unblocking need a level of steps below
the one that settles, order of undoing needs a step between two: four steps. A second
crash or sweep meets the repair of the first one; a third repeats it. A timer left from one
suspension needs a retry and a second suspension; a lease or a key is contended by two; a
batch of two has a neighbour; the memo of a set-up has an owner, one who waits and one who
comes after. Faults are taken one or two at a time because combinations of them do break
promises (section 5).

*Fairness.* `Fairness` of `Engine` and `MapFanOut` has a call in progress go on (`WF` on its
steps) and some idle thread take up queued jobs, dead letters and the scheduled sweep (`WF`
on `\E i : Start(i)`): pg-boss workers poll, and the docs ask for a recurring sweep. `StepGate`
has it for each call, each step's job and sweep, and the clock. The other modules around a
run have one weak fairness condition, on the union of what their calls, workers and clocks
do by themselves (`Progress`): whatever can go on, something does. Nothing is owed by
handlers' good outcomes beyond the budget of bad ones, by operators, or by the environment.
Two hypotheses go beyond the engine's own code and are part of it: a child run ends
(`Suspension`), and a handler on the step queue returns (`StepWorker`); `Heartbeat` needs no
handler to return. `SYMMETRY` is used only in `races`, over workers, without liveness.

## 4. What is proved

For every value of the constants (sizes, graphs, limits, budgets, numbers of calls):

* `Algorithms_proofs!SkipPlanIsExact` - `SkipPlan` holds exactly the pending steps that
  no completion of the snapshot runs.
* `Algorithms_proofs!LoopEndsWithTheLeastPlan`, `LoopSkipsExactly` - the loop of
  `computeReadiness` ends with that plan (`LoopIsLeastFixpoint`, `SkipsExactlyTheUnreachable`).
  The invariant (`LoopInv`): what is skipped so far lies in every closed set, and if the pass has
  not progressed, the rows already visited have nothing to add. With it `LoopTypesOK`.
* `Algorithms_proofs!UndoOrderIsRight` - `reverseTopologicalOrder` lists every step to undo
  once, and before the dependencies it was built on. The invariant (`SagaInv`): what is placed
  is a list without repetition in which dependencies come first, and the passes begun are no
  more than the rows placed, but for the one under way while it has found nothing to place
  (`PassesPlace`). A pass that ends without placing a row would leave a set of rows each waiting
  for another of it, which an acyclic graph has not; so the guard never stops the loop early and
  nothing is left over.
* `Algorithms_proofs!CheckIsExact` - `validateDefinition` accepts exactly the definitions that
  can be run. The invariant (`CheckInv`): the keys visited have an order of their
  dependencies, an in-degree is the number of dependencies not visited, and the queue holds the
  keys not visited that have none. Of what is left when the queue is empty, the first in any
  order would have a dependency before it.
* `Algorithms_proofs!DecisionsStand` - an attempt ends as whoever said something of its error
  decided (`NoDecisionOverridden`). The invariant (`CallInv`): the errors the walk has passed
  are the first of the chain and carry no marker (`Walked`), and what is to be decided upon is
  the verdict of `toStepError` on the outermost marker (`Judged`). Where the chain ends or comes
  back nothing new follows, so stopping there loses no marker.
* `Algorithms_proofs!OverrunIsBounded` - racing starts exceed the concurrent limit by less than
  their number, retried runs apart: running plus admitted stays below the limit plus the
  starters plus the running ones that a retry reopened. Nothing bounds the last (section 5); a
  start does count them, so a retry never lets more starts in.
* `Algorithms_proofs!PostgresIsReference` - to each tenant the Postgres store is the in-memory
  store of its own rows (`ImplementsReference`), for any number of tenants, connections and rows.
  A call of one statement takes effect there and then; the lemmas say of each that what it hits,
  writes and returns is what the reference store would, and nothing of another tenant. A
  transaction takes effect when it commits, and by then the tables have moved on; so the
  invariant (`StoreInv`) says what each open transaction may still rely on: the step it settles
  and the counter it wrote are as it read them (`Settles`, `Counts`), the ids it adds are free
  (`Adds`), no run has its key (`Creates`), the run with the key is still there; and no two
  transactions write one row or insert one key (`TxApart`). What the others do keeps all of it
  (`Keeps`), because every write waits for the row locks and a run is never deleted.
* `Engine_proofs!TypeCorrect` - `Spec => []TypeOK`, one lemma per action. Beyond types it
  says that an activation always holds the step and the snapshot it acts on, and that the
  open completion transaction is the one of a thread about to commit.
* `Engine_proofs!ClaimsAreExclusive` - `Spec => []HandlerExclusive`: two calls never
  run one step's handler at the same time, whatever is redelivered, dead-lettered, thrown,
  lost or killed. `HandlerExclusive` is not inductive: the claim tests the row, so one must
  know that a held row is not `pending` (`ClaimsHeld`) and that no sweep is about to make it
  so (`SweptIsFree`). `ClaimInv` is that strengthening. The theorem assumes one sweeper at a
  time and no retry of the run (`OneSweeper`, `Unretried`), and needs both: two sweepers act
  on one stale list, a retry resets a step an older call still runs.
* `Engine_proofs!HandlersSeeSettledDependencies` - a handler runs only on dependencies that are
  completed (or, at an any-join, skipped), whichever calls die, whatever is redelivered,
  declined, swept or cancelled. It is stated for one sweeper and an `Orderly` run: no step
  waits, no run is retried, no job is given up by the queue, no call or send fails, and
  if something is compensable no deadline expires; without each of these section 5 has a
  case. The argument is of rely and guarantee. What a call relies on (`GoodCall`: the step it
  would start may start, the steps it is to skip are doomed, what its snapshot shows settled
  still is) is kept by every `Lawful` change of the rows (`GoodCallStays`), and every action
  `Plays` by those rules; `RowInv` adds that owners are alone, swept rows unowned, and that a
  queued step may start.
* `Engine_proofs!CountersAreKept` - in every such run `CountsMatchRows`: each action changes at
  most one row that counts, and the counter with it (`Shows`, a part of `Plays`).
* `Engine_proofs!VerdictsAreJustified`, `NothingComesBack`, `SettledRowsStay` - if moreover
  nobody cancels and no deadline passes (`Uninterrupted`), the verdict is the one of the rows,
  is written once, and a settled row changes only to be undone in a failed run
  (`RunRowMatchesSteps`, `NothingRevives`, `TerminalStays`). `EndInv` is the strengthening: a
  verdict stands only over rows that have all settled, and whoever undoes does so in a failed
  run. A settle that is late writes the verdict again, but of rows that cannot differ: its
  snapshot showed every step settled (`SeenSettled`).
* `Engine_proofs!EngineImplementsPromise` - under the same hypotheses `Spec => ImplementsDagRun`.
  Until every step has settled the rows are those of `DagRun`; an action changes one of them,
  and what `GoodCall` knows of the snapshot it acts on is what the guard of `Start`, `Prune` or
  `Settle` asks of the rows of that moment. Undoing is a stutter.
* `Engine_proofs!UndoneInOrder` - in every orderly run no step is undone while a compensable
  step that depends on it is in place: what is in place is on the list of every call that
  undoes (`UndoInv`).
* `Engine_proofs!FailedRunsAreUndone`, `RunsEndClean` - if no call dies either (`Undisturbed`),
  a run that is over and quiet has every step settled and, if it failed, everything compensable
  undone (`UndoneCleanly`, `EndsClean`): somebody is still undoing what is left (`CleanInv`). A
  call that dies while undoing breaks this (section 5).
* `Engine_proofs!NoRunIsStranded` - no run under way is left with nothing to move it
  (`NoStrandedRun`), for every acyclic graph, any number of calls, both modes of dispatch,
  failures, retries of steps, duplicates, sweeps, a cancellation and, if nothing is compensable,
  a deadline. The property speaks of quiet states only, so the invariant (`MoveInv`) has to say
  of every state who will see to what the run owes (`Tended`). It owes three things: a job for each step that is `Due`,
  the skip of each step that is doomed, the verdict once all have settled; and each is seen to
  by a job in the queue, by a call that has read what it takes (`Launches`, `Prunes`,
  `Concludes`), or by one that has yet to read all rows, such as that of a completed step's job
  delivered again (`Driven`). What is not obvious about it:
  - A completion commits a plan it read earlier, under a lock that keeps out other completions
    and failures but neither claims nor skips. It still covers whatever those make due or
    doomed (`Abreast`): only a failure dooms a step that was not doomed (`NothingNewDoomed`), a
    skip that lands meanwhile was in the plan, and a step that is claimed meanwhile is not the
    dependent of one that still runs.
  - A call that dies loses what it saw to. Its job is queued again, which makes up for it only
    if the step had completed, or was never claimed, or is `running` for a sweep to find
    (`Linked`); a call that dies after failing its step leaves dependents nobody skips.
  - A run being cancelled or past its deadline owes nothing, as somebody is to end it
    (`Interrupted`).

  Hence the hypotheses beyond those of `RowInv` (`Attended`): an acyclic graph with steps, which
  `validateDefinition` ensures (`engine.ts:475`); no guard declines, no caller of `cancel` or of
  a sweep dies half-way, and no run has both calls that die and handlers that fail. Section 5 has
  a run that is stranded for each of the last three. `races` and `recovery` are within them.
* `MapFanOut_proofs!MapIsTyped` - `Spec => []TypeOK` of a map, under every fault.
* `MapFanOut_proofs!MapAggregatesEveryItem` - a map is completed only when all of its children
  are, for any list, number of calls at once and numbers of retries. What completes a map is a
  child that finds its siblings completed, so the invariant (`MapInv`) has to keep every other
  hand off it: the map's own call, which would fan out again or end it with an empty list, and
  a call that fails it alone. It says that a row has one owner (`Owned`); that a map with
  children is not run again (`FannedOutOnce`); that of the children still to be enqueued nobody
  has heard (`Unborn`, `Unsent`); that a map somebody fails has a child that can never complete
  any more, failed or never queued (`Blocked`, `Anchored`), so that nobody completes it too; that a
  row is failed alone only when nobody will take it up again (`GivenUp`); and, while a job can
  still be dead-lettered, that each row has one job, one dead letter or one call (`Mortal`).
* `MapFanOut_proofs!MapIsOneStep` - `Spec => ImplementsOneStep`: under `MapInv` an action either
  leaves the map and the run alone or moves them as `DagRun` lets a single step move (`Moves`).
  Both assume that the faults of a run are `Compatible`: no second delivery and no sweep beside a
  dead letter, and no sweep after a death between the insertion of the children and the mark. A
  dead letter fails its row without asking who else is at it, and a swept map starts over
  beside its children; for every combination left out TLC has a run that breaks one of the two.
* `StepGate_proofs!SlotsAreAccountedFor` - no slot of a gate is lost or counted twice: the
  in-memory count is the number of the calls it admitted, whatever is redelivered or retried;
  in Postgres a lease exists for exactly the calls admitted, whatever dies or is deferred, as
  long as no step has two deliveries at a time. A lease is keyed by its step, so a duplicate, or
  an attempt retried before the last one has released, breaks it (section 5). The invariant says just that (`OneCall`), and that the
  in-memory gate takes slot and token in one step (`AtOnce`).
* `StepGate_proofs!GateIsASemaphore` - `Spec => ImplementsSemaphore`: no more than `Cap` handlers
  at once, none that was not let in, one for a step. A claim is `Enter`, the end or death of a
  handler `Leave`, the rest a stutter. That there is room for the one that claims follows from
  the accounts: its slot is in use and no handler's, and no more than `Cap` are (`AtMostCap`);
  in Postgres a slot is a lease, so this needs that the leases counted are those of other
  steps, in memory that the count is the number of calls. The row tells that a step has one
  handler (`OneHandler`). Besides the hypotheses of the accounts it takes the steps to be
  finitely many.
* `Services_proofs!BeatsKeepTheStep` - the sweeper takes no step from a handler that runs
  (`KeptWhileBeating`), for every interval, window, latency and number of lost beats that the
  window has room for (`BeatInstance`): an interval and one more for each beat that may be lost
  if beats take no time; nearly two intervals, twice the latency and one for each lost beat if
  they do (section 5, *Heartbeats*). So a window of three intervals has room for two lost beats
  only without latency, and with it for none. The invariant (`Punctual`) bounds how long
  the step can be silent before the next beat lands: it is due at the timer's next firing, or
  the one after if that is throttled, or is under way. Without latency the throttle and the
  timer stay in phase until a beat is lost (`InPhase`), which is where the interval is saved. That
  one worker has the step at a time (`OneWorker`) follows with it: a step that were swept
  under a handler would be claimed by another.
* `Suspension_proofs!DeadlinesAreNeverEarly` - no deadline ends a suspension before it has
  lasted its budget. A timer says nothing of the suspension it was armed for, so the proof
  has to know where a call with a verdict in hand comes from: there is one suspension under way
  at a time (`OneSuspension`), a call that retries or dispatches is the only one of its kind
  (`Alone`, `Apart`), and a call about to answer for a deadline read an age that had reached
  the budget and cannot have become younger (`Due`).
* `StartOnce_proofs!OneRunForAKey` - what is returned and kept for one key is one run,
  through redeliveries, expired batches and rollbacks. The invariant: at most one open or
  committed row has a key (`UniqueKeys`), every open row belongs to the worker that inserted
  it (`Holders`), and what was returned for a tick carries its key (`Returned`).
* `StepWorker_proofs!JobsKeepTheirOutcomes` - a job is completed only if its handler returned,
  and dead-lettered only after as many failures of its own as it may have, unless one of its
  deliveries outlived its expiry. The invariant places every job of a batch in exactly one of
  the three: not taken, in a lane, with a result (`Placed`), has results speak the truth
  (`Truthful`), and relates deliveries to failures (`Counted`).
* `Services_proofs` carries these, of the map and the parts after it, over to `Services`: a step
  of the composition is a step of the part or leaves it alone, and a part with nothing to do
  satisfies its invariant. Heartbeats are proved about there to begin with.

The hypotheses are the named assumptions of the modules (`EngineAssumption`, `MapAssumption`),
`Acyclic` graphs where stated, and operators called `Instance` (in `Algorithms_proofs`
`DefinitionsTyped`, `AttemptsTyped`, `QuotaTyped`, `StoreTyped`: the tables start with their
columns and every step with the run it refers to, the foreign key of `ddl.ts:49`) that say of
what sort the constants of a part are and that its cases are well formed; of a map, that its
budgets are `Compatible`.

The library's induction theorems take an operator as a parameter, which the provers cannot
instantiate. Where a statement needs an induction over data, the proof takes a least
counterexample instead (`Algorithms_proofs!Least`, from the well-foundedness of `<` on the
naturals): so for the chain of causes, whose recursive function is shown to exist first
(`ChainExists`), and for what the check of a definition leaves out.

*Only model-checked:* liveness, which is outside what the installed provers handle; the
refinement of `DagRun` by runs with waits; the engine under retries, refused sends, throws and
dead letters (but for types and claims); the set-up of queues.

## 5. Where the code departs from what it says

Four are runs of this project, with the counterexample TLC finds:

* `strand_declined` - one guard declines while its sibling's completion transaction is open, in
  front of an `any` join, transactional dispatch, no fault. The settle after the skip reads the
  rows before the completion commits and sees the sibling running; the completion read them
  before the skip. Neither dispatches the join, which stays `pending` with no job
  (`NoStrandedRun`; `engine.ts:791` against `engine.ts:219-221`).
* `undo_twice` - two settles of a failed run both read `running`, both finish it, both run
  the compensate handlers (`CompensatedOnce`; `engine.ts:1036-1045` against 1203-1206).
* `late_answer` - `resumeStep` and `timeoutStep` both find the step waiting and both write:
  it fails, then it completes (`TerminalStays`; `engine.ts:1305` against `deadlines.md:53-54`).
* `swept_item` - the sweeper fails an item whose worker died on its last attempt, but not the
  map: the map stays `mapping`, which no sweep looks at, and the run stays open
  (`NoStrandedRun`; `engine.ts:1453` against `cancellation-and-recovery.md:52` and
  `fan-out-and-map.md:52`). Any other terminal failure goes through `failStepTerminal`.

The following were met in the same way. Each is reproduced by giving `MCEngine` (from
`MapFanOut` on, `MCMapFanOut` with `Attempts1`; at the end, `Saga`) the named constants, the
budget standing for a record of `Events` that is 0 elsewhere, and
asking for the property:

| Constants | Property | What happens |
|---|---|---|
| `Fork`, `OkTransient`, budget `[crash 1, transient 1, sweep 2]`, `Attempts1` | `NoStrandedRun` | a worker dies between `failStep` and the settle: dependents stay `pending`, the redelivered job is a no-op |
| `Join`, budget `[crash 1, callercrash 1, sweep 3]`, `Attempts3` | `NoStrandedRun` | the sweeper dies between putting a step back and enqueueing it |
| `Flat`, a wait with a timeout, budget `[crash 1]` | `NoStrandedRun` | the call of a timeout job dies after the last completion: the redelivered job finds nothing `waiting` and the run stays open |
| `Chain`, budget `[deadletter 1]` | `NoStrandedRun` | the last delivery of a job dies after its completion: the dead-letter worker finds it completed and does not advance the run |
| `Diamond`, `Waits = {b}`, budget `[cancel 1]` | `SettledWhenOver` | a completion that read the rows before the cancel suspends a skipped wait of the cancelled run |
| `Chain`, `Compensable`, budget `[deadline 1, sweep 1]` | `SettledWhenOver` | a step claimed before the expiry finds its input undone and stays `running` in a failed run, where the sweeper does not look |
| `Fork`, budget `[throw 1]` | `TerminalStays` | an error while settling after a committed completion fails the completed step |
| `Flat`, `OkTransient`, `Attempts2`, budget `[transient 2]` | `AttemptsWithinBudget` | a duplicate job that read `attempts` before another attempt runs attempt three of two |
| `Diamond`, budget `[deadline 1, sweep 1]` | `VerdictIsFinal` | the run completes between the skip and the finish of an expiry (or a cancel), which overwrites the verdict |
| `Fork`, `Sweepers = {t1, t2}`, budget `[crash 2, sweep 3]` | `TerminalStays` | a second sweeper puts back a step that was re-run and completed |
| `Diamond`, `AnyJoin = {d}`, `Waits = {b, c}`, `AtomicDispatch = FALSE`, budget `[redeliver 1, resume 1]` | `TerminalStays` | a second dispatch of a frontier suspends a wait that has been resumed |
| `Chain`, `OkFatal`, `Compensable = {a}`, budget `[fatal 1, crash 1]` | `EndsClean` | the call dies after the run is marked failed and before, or while, it undoes: the redelivered job finds the run failed and nothing resumes the compensation |
| `Chain`, `Compensable`, budget `[fatal 1, retry 1]` | `RunsOnSettledDependencies` | a retry starts before the failed run's compensation has read its rows |
| `Flat`, budget `[fatal 1, retry 1]` | `SettledWhenOver` | a settle of the first life, past its status check, finishes the reopened run |
| `Join`, `OkTransient`, budget `[transient 1, sendfail 1]` | `TerminalStays` | a duplicate claims the step between `pending` and the refused enqueue, whose call then fails a running step |
| `MapFanOut`, budget `[deadletter 1]` | `NoStrandedRun` | the dead-letter worker fails an item and not its map, as the sweeper does |
| `MapFanOut`, budget `[latecrash 1, sweep 1]` | `NoStrandedRun` | the map's worker dies after the children are inserted: the next attempt inserts the same keys and fails, or the map is `mapping` and a child never gets a job |
| `MapFanOut`, budget `[sendfail 1]` | `NoStrandedRun` | a child whose enqueue is refused is only logged: it stays `pending`, its map `mapping` |
| `MapFanOut`, budget `[fatal 1, transient 1]`, `Attempts2` | `SettledWhenOver` | an item claimed after `failMapParent` listed it as pending is skipped while it runs, the run ends, and its retry leaves the item `pending` for ever |
| `MapFanOut`, budget `[fatal 1]` | `NoItemInFlight` | the same stale skip lets the verdict be written while an item's handler runs, which `engine.ts:1031-1033` says is avoided |
| `MapFanOut`, no event | `SettlesOnce` | the last two items complete together, both read every sibling completed and both complete the map: the step counter of the run counts it twice |
| `Saga`, `N = 3` | `UndoneBeforeAncestors` | a completed step without a handler between two that have one breaks the chain (`engine.ts:83`): if the definition lists the dependent first, its ancestor is undone before it, against `engine.ts:71-72` |

The modules around a run show the following, each by adding the event to a case of
`MCServices` (or `MCAlgorithms`), or by reading the action:

* *Gate.* A lease is keyed by the step (`store-pg/gate.ts:107`): a duplicate delivery shares
  it, and the first to release frees it while the other is still inside. `Gated(TRUE,
  [redeliver |-> 1, ...])` breaks `SlotsAccountedFor`. The retry of a failed attempt, queued
  before the `finally` that releases, shares the lease likewise unless its delay outlasts it.
* *Gate.* A deferred step whose re-enqueue is refused is only logged (`engine.ts:690`): it
  stays `pending` with no job.
* *Waits.* A timer the queue refuses is only logged (`engine.ts:425-429`), when the step is
  suspended and when `timeoutStep` arms the rest of a budget (`engine.ts:1293`, whose delivered
  job is then consumed); a call that dies between the mark and the timer
  (`engine.ts:400-403`) leaves none either, unless the mark was part of a transaction. Nothing
  sends it again, and the step waits for ever, where `deadlines.md:12` has it that a wait with
  `timeoutMs` "cannot wait forever" and `engine.ts:408-409` that the deadline survives a restart.
  `Wait("event", "fail", [unsent |-> 1])` or `[crash |-> 1]` breaks
  `Suspension!NoWaitIsForEver`.
* *Child runs.* A parent whose call dies before it has started the child
  (`engine.ts:1165-1166`) waits for a run that does not exist, with a deadline until that passes.
* *Child runs.* A child of an earlier life of its parent ends after the step was retried:
  `bridgeSubWorkflow` tests only that the step waits (`engine.ts:1187`), and the old answer
  settles the new suspension (`Suspension!OwnAnswer`).
* *Child runs.* A crash after a child run is finished and before the bridge
  (`engine.ts:1051`, `1074`) leaves the parent waiting for ever.
* *Heartbeats.* The throttle counts from when a write landed (`engine.ts:302`, `326`), the timer
  from when it was sent: after a beat that takes any time the timer's next one is throttled, and
  beats come at two intervals. One lost beat is then enough for a live worker to be swept
  (`Beating(Window, 1, [lost |-> 1])` breaks `KeptWhileBeating`), where `engine.ts:98-103`
  leaves room for two.
* *Start.* In write-then-enqueue mode a crash after the insert strands the run: the next
  delivery finds the key and enqueues nothing (`engine.ts:602`). In one transaction, a refused
  enqueue of a root is only logged: the start commits with a root that has no job, or its
  poisoned transaction is rolled back while `startWorkflow` returns ok, although
  `engine.ts:584-586` says that a queue failure rolls the run back rather than stranding it.
* *Scheduler.* A start payload that does not parse is logged and its job completed
  (`scheduler.ts:146-149`); with `batchSize` above 1 one failing start fails the batch, and the
  others are delivered again (without a key, they start twice).
* *Worker.* A dead-letter handler that throws is logged, and the job is gone. A delivery
  that outlived its expiry still settles: its outcome is taken for the next delivery's. A
  finished job's outcome waits for the slowest of its batch, and is lost if the worker dies.
* *Set-up.* A ready wait with a deadline, dispatched inside a transaction on a
  single-connection database, enqueues its timer outside the transaction and waits for itself;
  `dispatcher.ts:43-55` says that preparing the queues leaves nothing to deadlock on.
* *Stores.* The in-memory store accepts children whose keys repeat; Postgres refuses them.
  `listWorkflows` counts and reads in two statements, between which rows may change.
* *Quota.* `retryWorkflow` reopens a failed run (`engine.ts:1533`) without the check, which only
  `startWorkflow` makes (`engine.ts:550-551`): with a limit of one, A fails, B starts, A is
  retried, and two run, where `quota.ts` has `maxConcurrentWorkflows` as "Max
  simultaneously-running workflows". Nothing bounds how many. `Quota!OverrunBounded` without
  `again` fails.
* *Quota.* Between the completion of a run and its roll-up it is in no window; a hook called
  twice counts twice, and a run may be in both the running and the daily count.

## 6. What is left

In the order in which it would add most:

1. `MapFanOut`: the retry that deletes the children, a cancellation and a deadline.
2. `Engine`: the path of a step type without a handler; a gate, a timer's delay and a child run
   as actions of it rather than next to it.
3. Proofs: waits and retries in `RowInv`; `NoStrandedRun` where calls die and fail, of every run
   in which no call died after it had failed its step.
4. Larger instances: five steps with two joins, three tenants, a second gated type.

## 7. Not modelled

* Lifecycle hooks, observability and the event sink: notifications whose failures are
  swallowed; no state of a run depends on them. (The roll-up of the quota hangs on a hook, and
  `Quota` has it.)
* The public view and `listWorkflows`: projections of rows for display, paging included.
* The backoff's arithmetic; usage and cost of AI calls, which are sums over recorded events.
* The synchronisation of schedules with pg-boss, queue options, the schemas of payloads, DDL and
  the mapping of columns: plumbing with no step of its own that another could meet.
* The types of the step builders, which have no behaviour at run time.
* The demo, the examples and the website.
