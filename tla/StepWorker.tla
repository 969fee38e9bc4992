----------------------------- MODULE StepWorker -----------------------------
(***************************************************************************)
(* The pg-boss workers of the step queue and of its dead-letter queue: a   *)
(* batch is drained by lanes, and each job of it is settled on its own     *)
(* outcome when the whole batch is over.                                   *)
(***************************************************************************)
EXTENDS Naturals, FiniteSets

CONSTANTS
  Workers,     \* worker processes on the step queue
  Jobs,        \* step jobs
  Lanes,       \* bound: lanes of a worker
  RetryLimit,  \* StepQueueConfig.retryLimit
  None,        \* a model value: a lane without a job
  Cases        \* batch size, lanes in use, the jobs that parse, bounds of the events

Events == {"throw", "crash", "expire", "dlq"}

VARIABLES
  batchSize, concurrency,
  valid,      \* the jobs whose payload the schema accepts
  job,        \* where each job is
  delivered,  \* deliveries of each job
  failed,     \* deliveries of it that failed: a throw, a dead worker, an expiry
  handled,    \* jobs whose handler has returned
  fetched,    \* fetched[w]: the batch the worker works on
  pending,    \* pending[w]: the jobs of it no lane has taken
  lane,       \* lane[w][l]: the job a lane is at
  results,    \* results[w]: the outcomes so far, <<job, status>>
  misreported,  \* dead letters whose handler threw or died
  late,       \* jobs one of whose deliveries has outlived its expiry
  budget

config == <<batchSize, concurrency, valid>>
queueVars == <<job, delivered, failed, handled>>
workerVars == <<fetched, pending, lane, results>>
vars == <<config, queueVars, workerVars, misreported, late, budget>>

Spend(e) == budget[e] > 0 /\ budget' = [budget EXCEPT ![e] = @ - 1]
Least(x, y) == IF x < y THEN x ELSE y
NoLane == [l \in Lanes |-> None]

Init ==
  /\ \E c \in Cases : /\ batchSize = c.batchSize /\ concurrency = c.concurrency
                      /\ valid = c.valid /\ budget = c.budget
  /\ job = [j \in Jobs |-> "queued"]
  /\ delivered = [j \in Jobs |-> 0]
  /\ failed = [j \in Jobs |-> 0]
  /\ handled = {} /\ misreported = {} /\ late = {}
  /\ fetched = [w \in Workers |-> {}]
  /\ pending = [w \in Workers |-> {}]
  /\ lane = [w \in Workers |-> NoLane]
  /\ results = [w \in Workers |-> {}]

-----------------------------------------------------------------------------
Queued == {j \in Jobs : job[j] = "queued"}

Fetch(w) ==
  /\ fetched[w] = {} /\ Queued # {}
  /\ \E B \in SUBSET Queued :
       /\ Cardinality(B) = Least(batchSize, Cardinality(Queued))
       /\ fetched' = [fetched EXCEPT ![w] = B]
       /\ pending' = [pending EXCEPT ![w] = B]
       /\ job' = [j \in Jobs |-> IF j \in B THEN "active" ELSE job[j]]
       /\ delivered' = [j \in Jobs |-> IF j \in B THEN delivered[j] + 1 ELSE delivered[j]]
  /\ UNCHANGED <<config, failed, handled, lane, results, misreported, late, budget>>

Busy(w) == {l \in Lanes : lane[w][l] # None}

\* A lane takes the next job; one that does not parse never reaches a handler.
TakeJob(w, l) ==
  /\ lane[w][l] = None /\ Cardinality(Busy(w)) < concurrency
  /\ \E j \in pending[w] :
       /\ pending' = [pending EXCEPT ![w] = @ \ {j}]
       /\ IF j \in valid
            THEN lane' = [lane EXCEPT ![w][l] = j] /\ UNCHANGED results
            ELSE results' = [results EXCEPT ![w] = @ \cup {<<j, "deadletter">>}] /\ UNCHANGED lane
  /\ UNCHANGED <<config, queueVars, fetched, misreported, late, budget>>

Result(w, l, status) ==
  /\ results' = [results EXCEPT ![w] = @ \cup {<<lane[w][l], status>>}]
  /\ lane' = [lane EXCEPT ![w][l] = None]

Return(w, l) ==
  /\ lane[w][l] # None
  /\ Result(w, l, "completed")
  /\ handled' = handled \cup {lane[w][l]}
  /\ UNCHANGED <<config, job, delivered, failed, fetched, pending, misreported, late, budget>>

Throw(w, l) ==
  /\ lane[w][l] # None /\ Spend("throw")
  /\ Result(w, l, "failed")
  /\ failed' = [failed EXCEPT ![lane[w][l]] = @ + 1]
  /\ UNCHANGED <<config, job, delivered, handled, fetched, pending, misreported, late>>

\* pg-boss: a failed delivery is repeated, or the job dead-lettered.
AfterFailure(j) == IF delivered[j] <= RetryLimit THEN "queued" ELSE "dead"

\* without perJobResults
VerdictOfBatch(w, j) ==
  IF \E r \in results[w] : r[2] # "completed" THEN AfterFailure(j) ELSE "done"

Verdict(w, j) ==
  CASE <<j, "completed">> \in results[w] -> "done"
    [] <<j, "failed">> \in results[w] -> AfterFailure(j)
    [] OTHER -> "dead"

Drained(w) == fetched[w] # {} /\ pending[w] = {} /\ Busy(w) = {}

Release(w) ==
  /\ fetched' = [fetched EXCEPT ![w] = {}]
  /\ pending' = [pending EXCEPT ![w] = {}]
  /\ lane' = [lane EXCEPT ![w] = NoLane]
  /\ results' = [results EXCEPT ![w] = {}]

EndBatchWithoutFailures(w) ==
  /\ Drained(w)
  /\ job' = [j \in Jobs |-> IF <<j, "completed">> \in results[w] /\ job[j] = "active"
                             THEN "done" ELSE job[j]]
  /\ Release(w)
  /\ UNCHANGED <<config, delivered, failed, handled, misreported, late, budget>>

\* perJobResults; a late outcome settles whatever delivery is active.
EndBatch(w) ==
  /\ Drained(w)
  /\ job' = [j \in Jobs |-> IF j \in fetched[w] /\ job[j] = "active"
                             THEN Verdict(w, j) ELSE job[j]]
  /\ Release(w)
  /\ UNCHANGED <<config, delivered, failed, handled, misreported, late, budget>>

\* The process dies: no outcome of its batch is reported, and every job of it
\* expires.
Lost(w) == {j \in fetched[w] : job[j] = "active"}
Unreported(w) ==
  /\ job' = [j \in Jobs |-> IF j \in Lost(w) THEN AfterFailure(j) ELSE job[j]]
  /\ failed' = [j \in Jobs |-> IF j \in Lost(w) /\ <<j, "failed">> \notin results[w]
                                THEN failed[j] + 1 ELSE failed[j]]

Crash(w) ==
  /\ fetched[w] # {} /\ Spend("crash")
  /\ Unreported(w)
  /\ Release(w)
  /\ UNCHANGED <<config, delivered, handled, misreported, late>>

\* expireInSeconds pass before a slow batch is over; its handlers go on.
Expire(w) ==
  /\ Lost(w) # {} /\ Spend("expire")
  /\ Unreported(w)
  /\ late' = late \cup Lost(w)
  /\ UNCHANGED <<config, delivered, handled, workerVars, misreported>>

-----------------------------------------------------------------------------
\* The dead-letter worker.  Its queue has no retries: a handler that throws is
\* logged, and one whose process dies is not called again.
DeadLetter(j) ==
  /\ job[j] = "dead"
  /\ \/ job' = [job EXCEPT ![j] = IF j \in valid THEN "reported" ELSE "dropped"]
        /\ UNCHANGED <<misreported, budget>>
     \/ /\ j \in valid /\ Spend("dlq")
        /\ job' = [job EXCEPT ![j] = "dropped"]
        /\ misreported' = misreported \cup {j}
  /\ UNCHANGED <<config, delivered, failed, handled, workerVars, late>>

Next ==
  \/ \E w \in Workers : Fetch(w) \/ EndBatch(w) \/ Crash(w) \/ Expire(w)
  \/ \E w \in Workers, l \in Lanes : TakeJob(w, l) \/ Return(w, l) \/ Throw(w, l)
  \/ \E j \in Jobs : DeadLetter(j)

\* Some worker polls or drains what it fetched; a handler comes to an end.
Progress ==
  \/ \E w \in Workers : Fetch(w) \/ EndBatch(w)
  \/ \E w \in Workers, l \in Lanes : TakeJob(w, l) \/ Return(w, l)
  \/ \E j \in Jobs : DeadLetter(j)

Fairness == WF_vars(Progress)

Spec == Init /\ [][Next]_vars /\ Fairness

-----------------------------------------------------------------------------
\* A job is settled on its own outcome, never on its neighbours': completed
\* only when its handler returned, dead-lettered only after failing in every
\* delivery it may have (unless one of them outlived its expiry), and unreported
\* only if its report itself failed.
OwnOutcome ==
  \A j \in Jobs :
    /\ job[j] = "done" => j \in handled
    /\ job[j] \in {"dead", "reported"} /\ j \in valid => failed[j] > RetryLimit \/ j \in late
    /\ job[j] = "dropped" => j \notin valid \/ j \in misreported
    /\ j \in handled => j \in valid

\* No job stays behind in a batch or in a queue.
EveryJobEnds == <>(\A j \in Jobs : job[j] \in {"done", "reported", "dropped"})

=============================================================================
