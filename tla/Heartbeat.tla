----------------------------- MODULE Heartbeat -----------------------------
(***************************************************************************)
(* The heartbeat of one step with a liveness window: the engine's timer in *)
(* the worker that runs the handler, the beat's write and its throttle,    *)
(* the sweeper that takes a silent step away, and the next invocation.     *)
(* Clocks are the ticks since something, or until something; what is due   *)
(* at a moment happens before time passes on.                              *)
(***************************************************************************)
EXTENDS Naturals, FiniteSets

CONSTANTS
  Invocations,  \* calls of executeStep for the step, one after the other
  None,         \* a model value: no write in flight
  Interval,     \* ticks between the timer's beats
  Window,       \* heartbeatTimeoutMs, in ticks
  Cases         \* narrowest window of any step type, latency of a write, bounds of the events

Events == {"lost", "crash", "cancel"}

VARIABLES
  narrowest,  \* narrowestLivenessWindowMs
  latency,    \* how long a write may take
  row,        \* the status of the step
  silence,    \* ticks since heartbeat_at, or since started_at without a beat
  live,       \* the run is not over
  pc,         \* pc[i]: where an invocation is
  timer,      \* timer[i]: ticks until its timer fires
  since,      \* since[i]: ticks since its lastWriteMs, up to Interval
  flight,     \* flight[i]: ticks its write has been under way, or None
  budget

clocks == <<silence, timer, since, flight>>
vars == <<narrowest, latency, row, live, pc, clocks, budget>>

Spend(e) == budget[e] > 0 /\ budget' = [budget EXCEPT ![e] = @ - 1]
Become(i, p) == pc' = [pc EXCEPT ![i] = p]
Handling == {i \in Invocations : pc[i] = "handler"}

Init ==
  /\ \E k \in Cases : narrowest = k.narrowest /\ latency = k.latency /\ budget = k.budget
  /\ row = "pending" /\ silence = 0 /\ live = TRUE
  /\ pc = [i \in Invocations |-> "none"]
  /\ timer = [i \in Invocations |-> 0]
  /\ since = [i \in Invocations |-> 0]
  /\ flight = [i \in Invocations |-> None]

-----------------------------------------------------------------------------
\* markStepRunning clears the last beat; startHeartbeat starts the clocks.
Claim(i) ==
  /\ pc[i] = "none" /\ row = "pending" /\ live
  /\ row' = "running" /\ silence' = 0
  /\ Become(i, "handler")
  /\ timer' = [timer EXCEPT ![i] = Interval]
  /\ since' = [since EXCEPT ![i] = 0]
  /\ UNCHANGED <<narrowest, latency, live, flight, budget>>

\* One write at a time, and not before an interval has passed since the last.
Beat(i) ==
  flight' = IF flight[i] = None /\ since[i] >= Interval THEN [flight EXCEPT ![i] = 0]
            ELSE flight

TimerFires(i) ==
  /\ pc[i] = "handler" /\ timer[i] = 0
  /\ timer' = [timer EXCEPT ![i] = Interval]
  /\ Beat(i)
  /\ UNCHANGED <<narrowest, latency, row, live, pc, silence, since, budget>>

\* ctx.heartbeat(), whenever the handler likes.
HandlerBeats(i) ==
  /\ pc[i] = "handler"
  /\ Beat(i)
  /\ UNCHANGED <<narrowest, latency, row, live, pc, silence, timer, since, budget>>

\* The write lands, with the time it was sent; answered `false`, it aborts.
LandAnyway(i) ==
  /\ flight[i] # None
  /\ IF row = "running" THEN silence' = flight[i] ELSE UNCHANGED silence
  /\ since' = [since EXCEPT ![i] = 0]
  /\ flight' = [flight EXCEPT ![i] = None]
  /\ UNCHANGED <<narrowest, latency, row, live, pc, timer, budget>>

Land(i) ==
  /\ flight[i] # None
  /\ IF row = "running" /\ live
       THEN silence' = flight[i] /\ UNCHANGED pc
       ELSE UNCHANGED silence /\ IF pc[i] = "handler" THEN Become(i, "aborted") ELSE UNCHANGED pc
  /\ since' = [since EXCEPT ![i] = 0]
  /\ flight' = [flight EXCEPT ![i] = None]
  /\ UNCHANGED <<narrowest, latency, row, live, timer, budget>>

\* A failed beat is no verdict, and does not count as a write.
LoseBeat(i) ==
  /\ flight[i] # None /\ Spend("lost")
  /\ flight' = [flight EXCEPT ![i] = None]
  /\ UNCHANGED <<narrowest, latency, row, live, pc, silence, timer, since>>

\* The handler ends; one that lost its claim has its outcome discarded.
Return(i) ==
  /\ pc[i] = "handler"
  /\ row' = "settled"
  /\ Become(i, "over")
  /\ UNCHANGED <<narrowest, latency, live, clocks, budget>>

Crash(i) ==
  /\ pc[i] = "handler" /\ Spend("crash")
  /\ Become(i, "dead")
  /\ flight' = [flight EXCEPT ![i] = None]
  /\ UNCHANGED <<narrowest, latency, row, live, silence, timer, since>>

-----------------------------------------------------------------------------
(***************************************************************************)
(* recoverStuckWorkflows looks at steps silent for longer than the         *)
(* narrowest window and takes those that have outlived their own.          *)
(***************************************************************************)
TooSilent == silence > narrowest

SweepOnFirstLook ==
  /\ live /\ row = "running" /\ TooSilent
  /\ row' = "pending"
  /\ UNCHANGED <<narrowest, latency, live, pc, clocks, budget>>

Sweep == silence >= Window /\ SweepOnFirstLook

\* cancelWorkflow, or the run's deadline.
Cancel ==
  /\ live /\ Spend("cancel")
  /\ live' = FALSE
  /\ row' = IF row = "pending" THEN "skipped" ELSE row
  /\ UNCHANGED <<narrowest, latency, pc, clocks>>

\* Timers fire on time and a write takes no longer than its latency.
Tick ==
  /\ \A i \in Handling : timer[i] > 0
  /\ \A i \in Invocations : flight[i] # None => flight[i] < latency
  /\ row = "running" \/ Handling # {}
  /\ silence' = IF silence <= Window THEN silence + 1 ELSE silence
  /\ timer' = [i \in Invocations |-> IF timer[i] > 0 THEN timer[i] - 1 ELSE 0]
  /\ since' = [i \in Invocations |-> IF since[i] < Interval THEN since[i] + 1 ELSE Interval]
  /\ flight' = [i \in Invocations |-> IF flight[i] = None THEN None ELSE flight[i] + 1]
  /\ UNCHANGED <<narrowest, latency, row, live, pc, budget>>

Next ==
  \/ \E i \in Invocations : \/ Claim(i) \/ TimerFires(i) \/ HandlerBeats(i) \/ Land(i)
                            \/ LoseBeat(i) \/ Return(i) \/ Crash(i)
  \/ Sweep \/ Cancel \/ Tick

\* Time passes, timers fire, writes land, the sweeper runs and the queued job
\* of a step is delivered; no handler need ever return.
Progress ==
  \/ \E i \in Invocations : TimerFires(i) \/ Land(i) \/ Claim(i)
  \/ Sweep \/ Tick

Fairness == WF_vars(Progress)

Spec == Init /\ [][Next]_vars /\ Fairness

-----------------------------------------------------------------------------
\* The sweeper takes no step from a worker that is beating: not when a beat is
\* throttled, slow or (without latency) twice lost ("two beats can be lost").
KeptWhileBeating == [][Sweep => Handling = {}]_vars

\* What a beat is for.  A step whose worker died does not stay with it, and a
\* handler that no longer has a run to work for does not go on for ever.
Orphaned == live /\ row = "running" /\ Handling = {}

SilenceIsHeard == []<>(IF live THEN ~Orphaned ELSE Handling = {})

=============================================================================
