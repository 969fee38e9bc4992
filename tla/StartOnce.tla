----------------------------- MODULE StartOnce -----------------------------
(***************************************************************************)
(* From the ticks of a cron schedule to the runs they start: the start     *)
(* queue, its workers, the idempotency key each delivery resolves, and     *)
(* startWorkflow on Postgres, where the unique index on the key makes a    *)
(* second insert wait for the transaction that holds the first.            *)
(***************************************************************************)
EXTENDS Naturals, FiniteSets, Sequences

CONSTANTS
  Workers,     \* start workers
  MaxTicks,    \* bound: ticks of the schedule
  MaxRuns,     \* bound: ids the run table hands out
  RetryLimit,  \* deliveries of a start job after its first
  None,        \* a model value: no key, no run
  Cases        \* payload of the schedule, dispatch mode, batch size, bounds of the events

Events == {"fail", "expire", "refuse"}
Ticks == 1..MaxTicks
Ids == 1..MaxRuns

VARIABLES
  payload,   \* which of the two idempotency fields the stored payload sets
  atomic,    \* transactional dispatch, or write-then-enqueue
  batch,     \* batchSize
  job,       \* the start job of each tick
  tries,     \* deliveries of each job so far
  run,       \* run[i]: the row with id i: [state, key, roots]
  at,        \* what each worker does: [pc, jobs, n, id]
  got,       \* got[t]: the runs startWorkflow returned to deliveries of tick t
  refused,   \* a root's enqueue came back refused
  budget

vars == <<payload, atomic, batch, job, tries, run, at, got, refused, budget>>
fixed == <<payload, atomic, batch>>

Spend(e) == budget[e] > 0 /\ budget' = [budget EXCEPT ![e] = @ - 1]

Idle == [pc |-> "idle", jobs |-> <<>>, n |-> 1, id |-> None]
Unused == [state |-> "unused", key |-> None, roots |-> FALSE]
Carrying(w) == {at[w].jobs[n] : n \in DOMAIN at[w].jobs}
Tick(w) == at[w].jobs[at[w].n]

Init ==
  /\ \E c \in Cases : /\ payload = c.payload /\ atomic = c.atomic /\ batch = c.batch
                      /\ budget = c.budget
  /\ job = [t \in Ticks |-> "none"]
  /\ tries = [t \in Ticks |-> 0]
  /\ run = [i \in Ids |-> Unused]
  /\ at = [w \in Workers |-> Idle]
  /\ got = [t \in Ticks |-> {}]
  /\ refused = FALSE

-----------------------------------------------------------------------------
\* resolveStartIdempotencyKey: a verbatim key wins over a prefix; a prefix is
\* completed with the id of the job, which all its deliveries share.
Key(t) == IF payload.key THEN 0 ELSE IF payload.prefix THEN t ELSE None

\* The same payload rides every tick of the schedule.
CronFires(t) ==
  /\ job[t] = "none" /\ \A u \in Ticks : u < t => job[u] # "none"
  /\ job' = [job EXCEPT ![t] = "queued"]
  /\ UNCHANGED <<fixed, tries, run, at, got, refused, budget>>

Queued == {t \in Ticks : job[t] = "queued"}

Fetch(w) ==
  /\ at[w].pc = "idle" /\ Queued # {}
  /\ \E B \in SUBSET Queued :
       /\ Cardinality(B) = IF Cardinality(Queued) < batch THEN Cardinality(Queued) ELSE batch
       /\ \E s \in [1..Cardinality(B) -> B] :
            /\ \A m, n \in DOMAIN s : m < n => s[m] < s[n]
            /\ at' = [at EXCEPT ![w] = [Idle EXCEPT !.pc = "start", !.jobs = s]]
       /\ job' = [t \in Ticks |-> IF t \in B THEN "active" ELSE job[t]]
       /\ tries' = [t \in Ticks |-> IF t \in B THEN tries[t] + 1 ELSE tries[t]]
  /\ UNCHANGED <<fixed, run, got, refused, budget>>

\* startWorkflow answered with run i: on to the next job of the batch.
Answer(w, i) ==
  /\ got' = [got EXCEPT ![Tick(w)] = @ \cup {i}]
  /\ at' = [at EXCEPT ![w].pc = "start", ![w].n = @ + 1, ![w].id = None]

With(k, states) == {i \in Ids : k # None /\ run[i].key = k /\ run[i].state \in states}
Fresh == {i \in Ids : run[i].state = "unused"}

\* INSERT .. ON CONFLICT DO NOTHING: waits while the key is held by an open
\* transaction, finds a committed one, or takes the next id.
InsertUnseen(w) ==
  \/ \E i \in With(Key(Tick(w)), {"committed"}) : Answer(w, i) /\ UNCHANGED run
  \/ /\ With(Key(Tick(w)), {"committed"}) = {}
     /\ \E i \in Fresh :
          /\ \A j \in Fresh : i <= j
          /\ run' = [run EXCEPT ![i] = [state |-> IF atomic THEN "open" ELSE "committed",
                                        key |-> Key(Tick(w)), roots |-> FALSE]]
          /\ at' = [at EXCEPT ![w].pc = "enqueue", ![w].id = i]
     /\ UNCHANGED got

Insert(w) == With(Key(Tick(w)), {"open"}) = {} /\ InsertUnseen(w)

CreateWorkflow(w) ==
  /\ at[w].pc = "start" /\ at[w].n <= Len(at[w].jobs)
  /\ Insert(w)
  /\ UNCHANGED <<fixed, job, tries, refused, budget>>

\* Outside the transaction, when it is over.
EnqueueAlone(w) ==
  /\ at[w].pc = "enqueue"
  /\ run' = [run EXCEPT ![at[w].id].roots = TRUE]
  /\ Answer(w, at[w].id)
  /\ UNCHANGED <<fixed, job, tries, refused, budget>>

\* write-then-enqueue although both halves could share a transaction
CommitFirst(w) ==
  /\ at[w].pc = "enqueue" /\ run[at[w].id].state = "open"
  /\ run' = [run EXCEPT ![at[w].id].state = "committed"]
  /\ UNCHANGED <<fixed, job, tries, at, got, refused, budget>>

EnqueueAfterCommit(w) ==
  CommitFirst(w) \/ (at[w].id # None /\ run[at[w].id].state # "open" /\ EnqueueAlone(w))

(***************************************************************************)
(* The roots are enqueued.  A refused enqueue is logged: the run is        *)
(* returned all the same, and its transaction commits without the job, or, *)
(* when a statement failed, is rolled back by its own COMMIT.              *)
(***************************************************************************)
EnqueueRoots(w) ==
  /\ at[w].pc = "enqueue"
  /\ \/ run' = [run EXCEPT ![at[w].id].roots = TRUE] /\ UNCHANGED <<refused, budget>>
     \/ Spend("refuse") /\ refused' = TRUE
        /\ \/ UNCHANGED run
           \/ atomic /\ run' = [run EXCEPT ![at[w].id].state = "gone"]
  /\ IF atomic THEN at' = [at EXCEPT ![w].pc = "commit"] /\ UNCHANGED got
               ELSE Answer(w, at[w].id)
  /\ UNCHANGED <<fixed, job, tries>>

Commit(w) ==
  /\ at[w].pc = "commit"
  /\ run' = IF run[at[w].id].state = "open" THEN [run EXCEPT ![at[w].id].state = "committed"]
            ELSE run
  /\ Answer(w, at[w].id)
  /\ UNCHANGED <<fixed, job, tries, refused, budget>>

\* The whole batch is answered, and its jobs completed.
EndBatch(w) ==
  /\ at[w].pc = "start" /\ at[w].n > Len(at[w].jobs)
  /\ job' = [t \in Ticks |-> IF t \in Carrying(w) /\ job[t] = "active" THEN "done" ELSE job[t]]
  /\ at' = [at EXCEPT ![w] = Idle]
  /\ UNCHANGED <<fixed, tries, run, got, refused, budget>>

-----------------------------------------------------------------------------
\* pg-boss delivers a job again until its retries are spent.
Again(B) == [t \in Ticks |-> IF t \in B /\ job[t] = "active"
                              THEN IF tries[t] <= RetryLimit THEN "queued" ELSE "failed"
                              ELSE job[t]]

\* A throw of the start callback or the death of the worker fails the whole
\* batch; its open transaction is rolled back.
Fail(w) ==
  /\ at[w].pc # "idle" /\ Spend("fail")
  /\ run' = [i \in Ids |-> IF i = at[w].id /\ run[i].state = "open"
                            THEN [run[i] EXCEPT !.state = "gone"] ELSE run[i]]
  /\ job' = Again(Carrying(w))
  /\ at' = [at EXCEPT ![w] = Idle]
  /\ UNCHANGED <<fixed, tries, got, refused>>

\* A slow batch outlives its jobs' expiry: they are delivered to another worker.
Expire(w) ==
  /\ at[w].pc # "idle" /\ Spend("expire")
  /\ \E t \in Carrying(w) : job[t] = "active"
  /\ job' = Again(Carrying(w))
  /\ UNCHANGED <<fixed, tries, run, at, got, refused>>

Work(w) == CreateWorkflow(w) \/ EnqueueRoots(w) \/ Commit(w) \/ EndBatch(w)

Next ==
  \/ \E t \in Ticks : CronFires(t)
  \/ \E w \in Workers : \/ Fetch(w) \/ CreateWorkflow(w) \/ EnqueueRoots(w) \/ Commit(w)
                        \/ EndBatch(w) \/ Fail(w) \/ Expire(w)

\* Some worker fetches a queued job or goes on with what it fetched; the cron
\* need not fire.
Fairness == WF_vars(\E w \in Workers : Fetch(w) \/ Work(w))

Spec == Init /\ [][Next]_vars /\ Fairness

-----------------------------------------------------------------------------
\* The runs returned to the deliveries of a tick whose start was not rolled back.
Kept(t) == {i \in got[t] : run[i].state # "gone"}

\* What the two forms of key promise, however a tick is redelivered: with a
\* prefix every tick has a run of its own, and only one; with a verbatim key
\* all ticks share one.
OneRunPerKey ==
  /\ payload.key \/ payload.prefix => \A t \in Ticks : Cardinality(Kept(t)) <= 1
  /\ payload.key => Cardinality(UNION {Kept(t) : t \in Ticks}) <= 1
  /\ payload.prefix /\ ~payload.key =>
       \A t, u \in Ticks : t # u => Kept(t) \cap Kept(u) = {}

\* In the end a tick that fired has a run with its roots queued, unless its job
\* used up its deliveries or an enqueue was refused.
Running(t) == \E i \in got[t] : run[i].state = "committed" /\ run[i].roots

EveryTickRuns ==
  []<>(refused \/ \A t \in Ticks : job[t] \in {"none", "failed"} \/ Running(t))

=============================================================================
