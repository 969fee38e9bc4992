------------------------------ MODULE StepGate ------------------------------
(***************************************************************************)
(* The admission gate in front of executeStep's claim, for one step type:  *)
(* the Postgres gate (a lease per step with an expiry, and a token bucket, *)
(* shared by all workers) and the in-memory one (a counter and a bucket in *)
(* one process).  A lease belongs to a step, not to the delivery that took *)
(* it.  Time passes in ticks of one lease unit and one token.              *)
(***************************************************************************)
EXTENDS Naturals, FiniteSets

CONSTANTS
  Steps,      \* steps of the gated type
  Calls,      \* calls of executeStep that may be in progress at once
  None,       \* a model value: no step
  Cap,        \* maxConcurrent
  Burst,      \* capacity of the token bucket
  Ttl,        \* leaseTtlSeconds, in ticks
  MaxQueued,  \* bound: copies of one job the queue counts
  Cases       \* which gate, and bounds: how often each event may occur

Events == {"transient", "crash", "redeliver", "sendfail"}

VARIABLES
  shared,   \* the gate is the Postgres one
  row,      \* the status of the step rows
  jobs,     \* jobs[s]: copies of the job of s waiting to be delivered
  lease,    \* lease[s]: ticks until the lease of s expires, 0 without one
  running,  \* the in-memory gate's count of held slots
  tokens,   \* whole tokens in the bucket
  call,     \* call[c]: where a call is, and for which step
  died,     \* history: steps a call of which died inside the gate
  budget    \* what is left of the budget chosen at the start

gate == <<lease, running, tokens>>
vars == <<shared, row, jobs, gate, call, died, budget>>

Idle == [pc |-> "idle", step |-> None]

At(c, p) == call[c].pc = p
Become(c, p) == call' = [call EXCEPT ![c] = [@ EXCEPT !.pc = p]]
Rest(c) == call' = [call EXCEPT ![c] = Idle]
Spend(e) == budget[e] > 0 /\ budget' = [budget EXCEPT ![e] = @ - 1]
Put(s) == jobs' = [jobs EXCEPT ![s] = IF @ < MaxQueued THEN @ + 1 ELSE @]

Init ==
  /\ \E k \in Cases : shared = k.shared /\ budget = k.budget
  /\ row = [s \in Steps |-> "pending"]
  /\ jobs = [s \in Steps |-> 1]
  /\ lease = [s \in Steps |-> 0]
  /\ running = 0
  /\ tokens = Burst
  /\ call = [c \in Calls |-> Idle]
  /\ died = {}

-----------------------------------------------------------------------------
Deliver(c, s) ==
  /\ At(c, "idle")
  /\ jobs[s] > 0
  /\ jobs' = [jobs EXCEPT ![s] = @ - 1]
  /\ call' = [call EXCEPT ![c] = IF row[s] = "pending" THEN [pc |-> "acquire", step |-> s]
                                 ELSE Idle]
  /\ UNCHANGED <<shared, died, row, gate, budget>>

(***************************************************************************)
(* The Postgres gate takes a lease under an advisory lock, expired leases  *)
(* and the step's own not counting, and then a token.  A step that gets    *)
(* the one and not the other gives its lease back.                         *)
(***************************************************************************)
Held == {s \in Steps : lease[s] > 0}

OthersHeldNone(s) == {}

OthersHeld(s) == Held \ {s}

AcquireLease(c) ==
  LET s == call[c].step IN
  /\ At(c, "acquire") /\ shared
  /\ IF Cardinality(OthersHeld(s)) < Cap
       THEN lease' = [lease EXCEPT ![s] = Ttl] /\ Become(c, "token")
       ELSE Become(c, "defer") /\ UNCHANGED lease
  /\ UNCHANGED <<shared, died, row, jobs, running, tokens, budget>>

ConsumeToken(c) ==
  /\ At(c, "token")
  /\ IF tokens >= 1
       THEN tokens' = tokens - 1 /\ Become(c, "claim")
       ELSE Become(c, "giveBack") /\ UNCHANGED tokens
  /\ UNCHANGED <<shared, died, row, jobs, lease, running, budget>>

GiveNothingBack(c) ==
  /\ At(c, "giveBack")
  /\ Become(c, "defer")
  /\ UNCHANGED <<shared, died, row, jobs, gate, budget>>

GiveBack(c) ==
  /\ At(c, "giveBack")
  /\ lease' = [lease EXCEPT ![call[c].step] = 0]
  /\ Become(c, "defer")
  /\ UNCHANGED <<shared, died, row, jobs, running, tokens, budget>>

(***************************************************************************)
(* The in-memory gate does both without an await in between.               *)
(***************************************************************************)
AcquireInMemory(c) ==
  /\ At(c, "acquire") /\ ~shared
  /\ IF running < Cap /\ tokens >= 1
       THEN running' = running + 1 /\ tokens' = tokens - 1 /\ Become(c, "claim")
       ELSE Become(c, "defer") /\ UNCHANGED <<running, tokens>>
  /\ UNCHANGED <<shared, died, row, jobs, lease, budget>>

\* Not admitted: the job is queued again, with a delay; a refusal is only logged.
Defer(c) ==
  /\ At(c, "defer")
  /\ \/ Put(call[c].step) /\ UNCHANGED budget
     \/ Spend("sendfail") /\ UNCHANGED jobs
  /\ Rest(c)
  /\ UNCHANGED <<shared, died, row, gate>>

(***************************************************************************)
(* The claim, the handler, and release in the `finally` of executeStep,    *)
(* for the loser of a claim too.                                           *)
(***************************************************************************)
Claim(c) ==
  LET s == call[c].step IN
  /\ At(c, "claim")
  /\ IF row[s] = "pending"
       THEN row' = [row EXCEPT ![s] = "running"] /\ Become(c, "handler")
       ELSE Become(c, "release") /\ UNCHANGED row
  /\ UNCHANGED <<shared, died, jobs, gate, budget>>

Settle(c) ==
  /\ At(c, "handler")
  /\ row' = [row EXCEPT ![call[c].step] = "settled"]
  /\ Become(c, "release")
  /\ UNCHANGED <<shared, died, jobs, gate, budget>>

PutBack(c) ==
  /\ At(c, "handler")
  /\ Spend("transient")
  /\ row' = [row EXCEPT ![call[c].step] = "pending"]
  /\ Become(c, "resend")
  /\ UNCHANGED <<shared, died, jobs, gate>>

Resend(c) ==
  /\ At(c, "resend")
  /\ Put(call[c].step)
  /\ Become(c, "release")
  /\ UNCHANGED <<shared, died, row, gate, budget>>

Release(c) ==
  /\ At(c, "release")
  /\ IF shared
       THEN lease' = [lease EXCEPT ![call[c].step] = 0] /\ UNCHANGED running
       ELSE running' = running - 1 /\ UNCHANGED lease
  /\ Rest(c)
  /\ UNCHANGED <<shared, died, row, jobs, tokens, budget>>

-----------------------------------------------------------------------------
(***************************************************************************)
(* The environment.  leaseTtlSeconds is longer than a call takes: time     *)
(* does not pass the expiry of a lease while a call of its step goes on.   *)
(* A worker dies, its lease stays and its job comes back; after that, its  *)
(* threshold being longer, the sweeper puts a claimed row back.            *)
(***************************************************************************)
Inside(s) == \E c \in Calls : call[c].step = s /\ ~At(c, "acquire")

Tick ==
  /\ \E s \in Steps : lease[s] > 0 \/ tokens < Burst
  /\ \A s \in Steps : lease[s] = 1 => ~Inside(s)
  /\ lease' = [s \in Steps |-> IF lease[s] > 0 THEN lease[s] - 1 ELSE 0]
  /\ tokens' = IF tokens < Burst THEN tokens + 1 ELSE tokens
  /\ UNCHANGED <<shared, died, row, jobs, running, call, budget>>

Crash(c) ==
  /\ shared /\ ~At(c, "idle")
  /\ Spend("crash")
  /\ Put(call[c].step)
  /\ Rest(c)
  /\ died' = died \cup {call[c].step}
  /\ UNCHANGED <<shared, row, gate>>

Redeliver(c) ==
  /\ ~At(c, "idle")
  /\ Spend("redeliver")
  /\ Put(call[c].step)
  /\ UNCHANGED <<shared, died, row, gate, call>>

Recover(s) ==
  /\ row[s] = "running" /\ jobs[s] = 0
  /\ \A c \in Calls : call[c].step # s
  /\ row' = [row EXCEPT ![s] = "pending"]
  /\ Put(s)
  /\ UNCHANGED <<shared, died, gate, call, budget>>

Step(c) ==
  \/ AcquireLease(c) \/ ConsumeToken(c) \/ GiveBack(c) \/ AcquireInMemory(c) \/ Defer(c)
  \/ Claim(c) \/ Settle(c) \/ PutBack(c) \/ Resend(c) \/ Release(c)

Next ==
  \/ \E c \in Calls : Step(c) \/ Crash(c) \/ Redeliver(c) \/ \E s \in Steps : Deliver(c, s)
  \/ \E s \in Steps : Recover(s)
  \/ Tick

\* Calls go on, jobs are delivered, the sweeper runs and time passes.
Fairness ==
  /\ \A c \in Calls : WF_vars(Step(c))
  /\ \A s \in Steps : WF_vars(Recover(s)) /\ WF_vars(\E c \in Calls : Deliver(c, s))
  /\ WF_vars(Tick)

Spec == Init /\ [][Next]_vars /\ Fairness

-----------------------------------------------------------------------------
Pcs == {"idle", "acquire", "token", "giveBack", "defer", "claim", "handler", "resend", "release"}

TypeOK ==
  /\ shared \in BOOLEAN
  /\ row \in [Steps -> {"pending", "running", "settled"}]
  /\ jobs \in [Steps -> Nat]
  /\ lease \in [Steps -> 0..Ttl] /\ running \in Nat /\ tokens \in 0..Burst
  /\ call \in [Calls -> [pc : Pcs, step : Steps \cup {None}]]
  /\ died \subseteq Steps
  /\ budget \in [Events -> Nat]

Holding(c) == call[c].pc \in {"token", "giveBack", "claim", "handler", "resend", "release"}

\* No slot is lost and none is counted twice: the in-memory count is the number
\* of calls it has admitted; an admitted call has a lease, and a lease has a call
\* in progress unless one died ("a rate denial doesn't waste a slot").
SlotsAccountedFor ==
  IF shared
    THEN /\ \A c \in Calls : Holding(c) => lease[call[c].step] > 0
         /\ \A s \in Held \ died : \E c \in Calls : Holding(c) /\ call[c].step = s
    ELSE running = Cardinality({c \in Calls : Holding(c)})

RunningSteps == {s \in Steps : \E c \in Calls : At(c, "handler") /\ call[c].step = s}

\* The gate is a semaphore: no more than Cap handlers run at once, none that was not
\* let in, and one for a step; in memory whatever is redelivered or retried, on
\* Postgres whatever dies or is deferred, while no step has two deliveries at a time.
Promise == INSTANCE Semaphore WITH
  inside  <- RunningSteps,
  waiting <- {s \in Steps : row[s] # "settled"} \ RunningSteps

ImplementsSemaphore == Promise!Spec

\* Every step gets its turn.
NobodyStarves == Promise!NobodyStarves

=============================================================================
