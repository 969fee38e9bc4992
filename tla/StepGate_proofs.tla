--------------------------- MODULE StepGate_proofs ---------------------------
(***************************************************************************)
(* No slot of a gate is lost or counted twice, for every number of steps   *)
(* and calls, every cap, rate and lease: with the in-memory gate whatever  *)
(* is redelivered or retried, with the Postgres gate whatever dies, if no  *)
(* step has two deliveries at a time.                                      *)
(***************************************************************************)
EXTENDS StepGate, FiniteSetTheorems, TLAPS

\* Sorts of the constants; a lease belongs to a step, so that two deliveries of
\* one step share it: the Postgres gate is given no case that makes them.
Instance ==
  /\ IsFiniteSet(Calls) /\ None \notin Steps
  /\ Ttl \in Nat \ {0}
  /\ \A k \in Cases : /\ k.shared \in BOOLEAN /\ k.budget \in [Events -> Nat]
                      /\ k.shared => k.budget["redeliver"] = 0 /\ k.budget["transient"] = 0

Typed ==
  /\ shared \in BOOLEAN
  /\ jobs \in [Steps -> Nat] /\ lease \in [Steps -> 0..Ttl]
  /\ call \in [Calls -> [pc : Pcs, step : Steps \cup {None}]]
  /\ \A c \in Calls : At(c, "idle") <=> call[c].step = None
  /\ budget \in [Events -> Nat]

\* What a lease keyed by the step relies on: neither a duplicate nor the next
\* attempt of a step is delivered while a call of it goes on.
OneCall ==
  shared =>
    /\ budget["redeliver"] = 0 /\ budget["transient"] = 0
    /\ \A c \in Calls : ~At(c, "resend")
    /\ \A c, d \in Calls : call[c].step = call[d].step /\ ~At(c, "idle") => c = d
    /\ \A s \in Steps : /\ jobs[s] <= 1
                        /\ jobs[s] = 1 => \A c \in Calls : call[c].step # s

\* The in-memory gate takes slot and token at once.
AtOnce == ~shared => \A c \in Calls : ~At(c, "token") /\ ~At(c, "giveBack")

Crew == {c \in Calls : Holding(c)}

IInv == Typed /\ OneCall /\ AtOnce /\ SlotsAccountedFor

USE DEF At, Pcs, Events

-----------------------------------------------------------------------------
\* One call takes a step, the others stay where they are.
Goes(c, p, q) ==
  /\ c \in Calls /\ At(c, p) /\ p # "idle" /\ q \in Pcs \ {"idle", "resend"}
  /\ call' = [call EXCEPT ![c] = [@ EXCEPT !.pc = q]]
  /\ ~shared => q \notin {"token", "giveBack"}
  /\ UNCHANGED <<shared, jobs, budget>>

LEMMA GoingKeeps ==
  ASSUME Instance, IInv, NEW c, NEW p, NEW q, Goes(c, p, q), lease' \in [Steps -> 0..Ttl]
  PROVE  Typed' /\ OneCall' /\ AtOnce'
<1>1. /\ call'[c].step = call[c].step /\ call'[c].pc = q
      /\ \A d \in Calls \ {c} : call'[d] = call[d]
      /\ call' \in [Calls -> [pc : Pcs, step : Steps \cup {None}]]
  BY DEF Goes, IInv, Typed
<1>2. Typed'
  BY <1>1 DEF Goes, IInv, Typed
<1>3. OneCall'
  BY <1>1 DEF Goes, IInv, OneCall, Typed
<1>4. AtOnce'
  BY <1>1 DEF Goes, IInv, AtOnce
<1> QED BY <1>2, <1>3, <1>4

\* Where a call holds a slot.
Inner == {"token", "giveBack", "claim", "handler", "resend", "release"}

\* A call that goes on inside the gate changes nothing of its slot.
LEMMA GoingOnInside ==
  ASSUME Instance, IInv, NEW c, NEW p \in Inner, NEW q \in Inner, Goes(c, p, q),
         UNCHANGED <<lease, running, died>>
  PROVE  IInv'
<1>1. Typed' /\ OneCall' /\ AtOnce'
  BY GoingKeeps DEF IInv, Typed
<1>2. \A d \in Calls : (Holding(d)' <=> Holding(d)) /\ call'[d].step = call[d].step
  BY DEF Goes, IInv, Typed, Holding, Inner
<1>3. Crew' = Crew /\ Held' = Held
  BY <1>2 DEF Crew, Held
<1>4. SlotsAccountedFor'
  BY <1>2, <1>3 DEF SlotsAccountedFor, IInv, Goes, Crew
<1> QED BY <1>1, <1>4 DEF IInv

LEMMA ClaimKeeps == ASSUME Instance, IInv, NEW c \in Calls, Claim(c) PROVE IInv'
<1>1. \E q \in {"handler", "release"} : Goes(c, "claim", q)
  BY DEF Claim, Become, Goes
<1> QED BY <1>1, GoingOnInside DEF Claim, Inner, gate

LEMMA SettleKeeps == ASSUME Instance, IInv, NEW c \in Calls, Settle(c) PROVE IInv'
<1>1. Goes(c, "handler", "release")
  BY DEF Settle, Become, Goes
<1> QED BY <1>1, GoingOnInside DEF Settle, Inner, gate

LEMMA ConsumeKeeps == ASSUME Instance, IInv, NEW c \in Calls, ConsumeToken(c) PROVE IInv'
<1>1. shared
  BY DEF IInv, AtOnce, Typed, ConsumeToken
<1>2. \E q \in {"claim", "giveBack"} : Goes(c, "token", q)
  BY <1>1 DEF ConsumeToken, Become, Goes
<1> QED BY <1>2, GoingOnInside DEF ConsumeToken, Inner

-----------------------------------------------------------------------------
\* Taking and giving back a lease.
LEMMA LeaseKeeps == ASSUME Instance, IInv, NEW c \in Calls, AcquireLease(c) PROVE IInv'
<1> DEFINE s == call[c].step
<1>0. shared /\ s \in Steps
  BY DEF AcquireLease, IInv, Typed
<1>1. CASE Cardinality(OthersHeld(s)) < Cap
  <2>1. Goes(c, "acquire", "token") /\ lease' = [lease EXCEPT ![s] = Ttl]
    BY <1>0, <1>1 DEF AcquireLease, Become, Goes
  <2>2. Typed' /\ OneCall' /\ AtOnce'
    BY <1>0, <2>1, GoingKeeps DEF IInv, Typed, Instance
  <2>3. \A d \in Calls : (Holding(d)' <=> Holding(d) \/ d = c) /\ call'[d].step = call[d].step
    BY <2>1 DEF Goes, IInv, Typed, Holding
  <2>4. SlotsAccountedFor'
    BY <1>0, <2>1, <2>3 DEF SlotsAccountedFor, IInv, AcquireLease, Held, Typed, Instance
  <2> QED BY <2>2, <2>4 DEF IInv
<1>2. CASE ~(Cardinality(OthersHeld(s)) < Cap)
  <2>1. Goes(c, "acquire", "defer") /\ UNCHANGED lease
    BY <1>2 DEF AcquireLease, Become, Goes
  <2>2. Typed' /\ OneCall' /\ AtOnce'
    BY <2>1, GoingKeeps DEF IInv, Typed
  <2>3. \A d \in Calls : (Holding(d)' <=> Holding(d)) /\ call'[d].step = call[d].step
    BY <2>1 DEF Goes, IInv, Typed, Holding
  <2>4. SlotsAccountedFor'
    BY <1>0, <2>1, <2>3 DEF SlotsAccountedFor, IInv, AcquireLease, Held
  <2> QED BY <2>2, <2>4 DEF IInv
<1> QED BY <1>1, <1>2

LEMMA GiveBackKeeps == ASSUME Instance, IInv, NEW c \in Calls, GiveBack(c) PROVE IInv'
<1> DEFINE s == call[c].step
<1>0. shared /\ s \in Steps
  BY DEF GiveBack, IInv, Typed, AtOnce
<1>1. Goes(c, "giveBack", "defer") /\ lease' = [lease EXCEPT ![s] = 0]
  BY <1>0 DEF GiveBack, Become, Goes
<1>2. Typed' /\ OneCall' /\ AtOnce'
  BY <1>0, <1>1, GoingKeeps DEF IInv, Typed, Instance
<1>3. \A d \in Calls : (Holding(d)' <=> Holding(d) /\ d # c) /\ call'[d].step = call[d].step
  BY <1>1 DEF Goes, IInv, Typed, Holding
<1>4. \A d \in Calls : Holding(d) /\ d # c => call[d].step # s
  BY <1>0 DEF IInv, OneCall, Holding
<1>5. SlotsAccountedFor'
  BY <1>0, <1>1, <1>3, <1>4 DEF SlotsAccountedFor, IInv, GiveBack, Held, Typed
<1> QED BY <1>2, <1>5 DEF IInv

-----------------------------------------------------------------------------
\* The in-memory count.
LEMMA InMemoryKeeps == ASSUME Instance, IInv, NEW c \in Calls, AcquireInMemory(c) PROVE IInv'
<1>0. ~shared /\ ~Holding(c) /\ lease' = lease
  BY DEF AcquireInMemory, Holding
<1>1. CASE running < Cap /\ tokens >= 1
  <2>1. Goes(c, "acquire", "claim") /\ running' = running + 1
    BY <1>0, <1>1 DEF AcquireInMemory, Become, Goes
  <2>2. Typed' /\ OneCall' /\ AtOnce'
    BY <1>0, <2>1, GoingKeeps DEF IInv, Typed
  <2>3. Crew' = Crew \cup {c}
    BY <2>1 DEF Goes, IInv, Typed, Holding, Crew
  <2>4. IsFiniteSet(Crew)
    BY FS_Subset DEF Crew, Instance
  <2>5. Cardinality(Crew') = Cardinality(Crew) + 1
    BY <1>0, <2>3, <2>4, FS_AddElement DEF Crew
  <2>6. SlotsAccountedFor'
    BY <1>0, <2>1, <2>5 DEF SlotsAccountedFor, IInv, AcquireInMemory, Crew
  <2> QED BY <2>2, <2>6 DEF IInv
<1>2. CASE ~(running < Cap /\ tokens >= 1)
  <2>1. Goes(c, "acquire", "defer") /\ running' = running
    BY <1>0, <1>2 DEF AcquireInMemory, Become, Goes
  <2>2. Typed' /\ OneCall' /\ AtOnce'
    BY <1>0, <2>1, GoingKeeps DEF IInv, Typed
  <2>3. Crew' = Crew
    BY <2>1 DEF Goes, IInv, Typed, Holding, Crew
  <2>4. SlotsAccountedFor'
    BY <1>0, <2>1, <2>3 DEF SlotsAccountedFor, IInv, AcquireInMemory, Crew
  <2> QED BY <2>2, <2>4 DEF IInv
<1> QED BY <1>1, <1>2

-----------------------------------------------------------------------------
\* A call that is over.
Leaves(c) ==
  /\ c \in Calls /\ ~At(c, "idle")
  /\ call' = [call EXCEPT ![c] = Idle]
  /\ UNCHANGED shared

LEMMA LeavingKeeps ==
  ASSUME Instance, IInv, NEW c, Leaves(c), lease' \in [Steps -> 0..Ttl],
         \/ UNCHANGED <<jobs, budget>>
         \/ Put(call[c].step) /\ (UNCHANGED budget \/ Spend("crash"))
         \/ UNCHANGED jobs /\ Spend("sendfail")
  PROVE  Typed' /\ OneCall' /\ AtOnce'
<1>1. /\ call'[c] = Idle /\ call[c].step \in Steps
      /\ \A d \in Calls \ {c} : call'[d] = call[d]
      /\ call' \in [Calls -> [pc : Pcs, step : Steps \cup {None}]]
  BY DEF Leaves, IInv, Typed, Idle
<1>2. /\ jobs' \in [Steps -> Nat] /\ budget' \in [Events -> Nat]
      /\ budget'["redeliver"] = budget["redeliver"] /\ budget'["transient"] = budget["transient"]
      /\ \A s \in Steps : s # call[c].step => jobs'[s] = jobs[s]
  BY <1>1 DEF Put, Spend, IInv, Typed
<1>3. jobs[call[c].step] = 0 => jobs'[call[c].step] \in {0, 1}
  BY <1>1 DEF Put, IInv, Typed
<1>4. Typed'
  BY <1>1, <1>2 DEF Leaves, IInv, Typed, Idle
<1>5. OneCall'
  <2> SUFFICES ASSUME shared PROVE OneCall'
    BY DEF OneCall, Leaves
  <2>1. jobs[call[c].step] = 0
    <3> DEFINE s == call[c].step
    <3>1. jobs[s] \in Nat /\ jobs[s] <= 1 /\ jobs[s] # 1
      BY <1>1 DEF IInv, OneCall, Typed, Leaves
    <3> QED BY <3>1
  <2>2. \A d \in Calls \ {c} : call[d].step # call[c].step
    BY DEF IInv, OneCall, Leaves
  <2> QED BY <1>1, <1>2, <1>3, <2>1, <2>2 DEF Leaves, IInv, OneCall, Typed, Idle, Instance
<1>6. AtOnce'
  BY <1>1 DEF Leaves, IInv, AtOnce, Idle
<1> QED BY <1>4, <1>5, <1>6

LEMMA DeferKeeps == ASSUME Instance, IInv, NEW c \in Calls, Defer(c) PROVE IInv'
<1>1. Leaves(c) /\ ~Holding(c)
  BY DEF Defer, Leaves, Rest, Holding
<1>2. Typed' /\ OneCall' /\ AtOnce'
  BY <1>1, LeavingKeeps DEF Defer, IInv, Typed, gate
<1>3. \A d \in Calls : (Holding(d)' <=> Holding(d)) /\ (d # c => call'[d].step = call[d].step)
  BY <1>1 DEF Leaves, IInv, Typed, Holding, Idle
<1>4. Crew' = Crew /\ Held' = Held
  BY <1>3 DEF Crew, Held, Defer, gate
<1>5. SlotsAccountedFor'
  BY <1>1, <1>3, <1>4 DEF SlotsAccountedFor, IInv, Defer, gate, Crew, Leaves
<1> QED BY <1>2, <1>5 DEF IInv

LEMMA ReleaseKeeps == ASSUME Instance, IInv, NEW c \in Calls, Release(c) PROVE IInv'
<1> DEFINE s == call[c].step
<1>1. Leaves(c) /\ Holding(c) /\ s \in Steps
  BY DEF Release, Leaves, Rest, Holding, IInv, Typed
<1>2. Typed' /\ OneCall' /\ AtOnce'
  BY <1>1, LeavingKeeps DEF Release, IInv, Typed, Instance
<1>3. \A d \in Calls : /\ Holding(d)' <=> Holding(d) /\ d # c
                       /\ d # c => call'[d].step = call[d].step
  BY <1>1 DEF Leaves, IInv, Typed, Holding, Idle
<1>4. CASE shared
  <2>1. lease' = [lease EXCEPT ![s] = 0]
    BY <1>4 DEF Release
  <2>2. \A d \in Calls : Holding(d) /\ d # c => call[d].step # s
    BY <1>4, <1>1 DEF IInv, OneCall, Leaves
  <2>3. SlotsAccountedFor'
    BY <1>1, <1>3, <1>4, <2>1, <2>2 DEF SlotsAccountedFor, IInv, Release, Held, Typed, Leaves
  <2> QED BY <1>2, <2>3 DEF IInv
<1>5. CASE ~shared
  <2>1. Crew' = Crew \ {c} /\ c \in Crew
    BY <1>1, <1>3 DEF Crew
  <2>2. IsFiniteSet(Crew)
    BY FS_Subset DEF Crew, Instance
  <2>3. Cardinality(Crew') = Cardinality(Crew) - 1
    BY <2>1, <2>2, FS_RemoveElement
  <2>4. SlotsAccountedFor'
    BY <1>1, <1>5, <2>3 DEF SlotsAccountedFor, IInv, Release, Crew, Leaves
  <2> QED BY <1>2, <2>4 DEF IInv
<1> QED BY <1>4, <1>5

LEMMA CrashKeeps == ASSUME Instance, IInv, NEW c \in Calls, Crash(c) PROVE IInv'
<1>1. Leaves(c) /\ shared
  BY DEF Crash, Leaves, Rest
<1>2. Typed' /\ OneCall' /\ AtOnce'
  BY <1>1, LeavingKeeps DEF Crash, IInv, Typed, gate
<1>3. \A d \in Calls : /\ Holding(d)' <=> Holding(d) /\ d # c
                       /\ d # c => call'[d].step = call[d].step
  BY <1>1 DEF Leaves, IInv, Typed, Holding, Idle
<1>4. SlotsAccountedFor'
  BY <1>1, <1>3 DEF SlotsAccountedFor, IInv, Crash, gate, Held, Leaves
<1> QED BY <1>2, <1>4 DEF IInv

-----------------------------------------------------------------------------
\* The rest of the world.
LEMMA DeliverKeeps ==
  ASSUME Instance, IInv, NEW c \in Calls, NEW s \in Steps, Deliver(c, s) PROVE IInv'
<1>1. /\ call'[c] \in {Idle, [pc |-> "acquire", step |-> s]} /\ call[c].step = None
      /\ \A d \in Calls \ {c} : call'[d] = call[d]
      /\ call' \in [Calls -> [pc : Pcs, step : Steps \cup {None}]]
      /\ jobs' = [jobs EXCEPT ![s] = @ - 1] /\ jobs[s] > 0
      /\ UNCHANGED <<shared, lease, running, died, budget>>
  BY DEF Deliver, IInv, Typed, Idle, gate
<1>2. Typed'
  BY <1>1 DEF IInv, Typed, Idle, Instance
<1>3. OneCall'
  <2> SUFFICES ASSUME shared PROVE OneCall'
    BY <1>1 DEF OneCall
  <2>1. jobs[s] = 1 /\ jobs'[s] = 0 /\ \A d \in Calls : call[d].step # s
    BY <1>1 DEF IInv, OneCall, Typed
  <2>2. \A d \in Calls : \/ call'[d] = call[d]
                          \/ (d = c /\ call'[d].pc = "idle" /\ call'[d].step = None)
                          \/ (d = c /\ call'[d].pc = "acquire" /\ call'[d].step = s)
    BY <1>1 DEF Idle
  <2>3. \A u \in Steps : u # s => jobs'[u] = jobs[u]
    BY <1>1 DEF IInv, Typed
  <2>4. \A d, e \in Calls : call'[d].step = call'[e].step /\ ~At(d, "idle")' => d = e
    BY <1>1, <2>1, <2>2 DEF IInv, OneCall, Typed, Instance
  <2>5. \A u \in Steps : jobs'[u] <= 1 /\ (jobs'[u] = 1 => \A d \in Calls : call'[d].step # u)
    BY <1>1, <2>1, <2>2, <2>3 DEF IInv, OneCall, Typed, Instance
  <2>6. /\ budget'["redeliver"] = 0 /\ budget'["transient"] = 0
        /\ \A d \in Calls : ~At(d, "resend")'
    BY <1>1, <2>2 DEF IInv, OneCall
  <2> QED BY <2>4, <2>5, <2>6 DEF OneCall
<1>4. AtOnce'
  BY <1>1 DEF IInv, AtOnce, Idle
<1>5. \A d \in Calls : (Holding(d)' <=> Holding(d)) /\ (Holding(d) => call'[d].step = call[d].step)
  BY <1>1 DEF Holding, Deliver, Idle
<1>6. Crew' = Crew /\ Held' = Held
  BY <1>1, <1>5 DEF Crew, Held
<1>7. SlotsAccountedFor'
  BY <1>1, <1>5, <1>6 DEF SlotsAccountedFor, IInv, Crew
<1> QED BY <1>2, <1>3, <1>4, <1>7 DEF IInv

LEMMA RecoverKeeps == ASSUME Instance, IInv, NEW s \in Steps, Recover(s) PROVE IInv'
<1>0. /\ jobs' \in [Steps -> Nat] /\ jobs'[s] \in {0, 1}
      /\ \A u \in Steps : u # s => jobs'[u] = jobs[u]
      /\ UNCHANGED <<shared, lease, running, died, call, budget>>
  BY DEF Recover, Put, gate, IInv, Typed
<1>1. Typed' /\ AtOnce'
  BY <1>0 DEF IInv, Typed, AtOnce
<1>3. OneCall'
  BY <1>0 DEF Recover, IInv, OneCall
<1>2. SlotsAccountedFor'
  BY DEF Recover, gate, IInv, SlotsAccountedFor, Holding, Held
<1> QED BY <1>1, <1>2, <1>3 DEF IInv

LEMMA RedeliverKeeps == ASSUME Instance, IInv, NEW c \in Calls, Redeliver(c) PROVE IInv'
<1>1. ~shared
  BY DEF Redeliver, Spend, IInv, OneCall, Typed
<1>2. call[c].step \in Steps
  BY DEF Redeliver, IInv, Typed
<1>5. jobs' \in [Steps -> Nat] /\ budget' \in [Events -> Nat] /\ UNCHANGED <<shared, lease, call>>
  BY <1>2 DEF Redeliver, Put, Spend, gate, IInv, Typed
<1>3. Typed' /\ OneCall' /\ AtOnce'
  BY <1>1, <1>5 DEF IInv, Typed, OneCall, AtOnce
<1>4. SlotsAccountedFor'
  BY DEF Redeliver, gate, IInv, SlotsAccountedFor, Holding, Held
<1> QED BY <1>3, <1>4 DEF IInv

LEMMA PutBackKeeps == ASSUME Instance, IInv, NEW c \in Calls, PutBack(c) PROVE IInv'
<1>1. ~shared
  BY DEF PutBack, Spend, IInv, OneCall, Typed
<1>2. /\ call'[c].step = call[c].step /\ call'[c].pc = "resend"
      /\ \A d \in Calls \ {c} : call'[d] = call[d]
      /\ call' \in [Calls -> [pc : Pcs, step : Steps \cup {None}]]
  BY DEF PutBack, Become, IInv, Typed
<1>6. budget' \in [Events -> Nat] /\ UNCHANGED <<shared, jobs, lease>>
  BY DEF PutBack, Spend, gate, IInv, Typed
<1>3. Typed' /\ OneCall' /\ AtOnce'
  BY <1>1, <1>2, <1>6 DEF PutBack, IInv, Typed, OneCall, AtOnce
<1>4. Crew' = Crew
  BY <1>2 DEF Crew, Holding, PutBack
<1>5. SlotsAccountedFor'
  BY <1>1, <1>4 DEF SlotsAccountedFor, IInv, PutBack, gate, Crew
<1> QED BY <1>3, <1>5 DEF IInv

LEMMA ResendKeeps == ASSUME Instance, IInv, NEW c \in Calls, Resend(c) PROVE IInv'
<1>1. ~shared
  BY DEF Resend, IInv, OneCall, Typed
<1>2. /\ call'[c].step = call[c].step /\ call'[c].pc = "release" /\ call[c].step \in Steps
      /\ \A d \in Calls \ {c} : call'[d] = call[d]
      /\ call' \in [Calls -> [pc : Pcs, step : Steps \cup {None}]]
  BY DEF Resend, Become, IInv, Typed
<1>3. Typed' /\ OneCall' /\ AtOnce'
  BY <1>1, <1>2 DEF Resend, Put, gate, IInv, Typed, OneCall, AtOnce
<1>4. Crew' = Crew
  BY <1>2 DEF Crew, Holding, Resend
<1>5. SlotsAccountedFor'
  BY <1>1, <1>4 DEF SlotsAccountedFor, IInv, Resend, gate, Crew
<1> QED BY <1>3, <1>5 DEF IInv

\* No lease a call relies on expires.
LEMMA TickKeeps == ASSUME Instance, IInv, Tick PROVE IInv'
<1>1. \A s \in Steps : lease'[s] = IF lease[s] > 0 THEN lease[s] - 1 ELSE 0
  BY DEF Tick
<1>2. Typed' /\ OneCall' /\ AtOnce'
  BY DEF Tick, IInv, Typed, OneCall, AtOnce, Instance
<1>3. \A c \in Calls : /\ Holding(c)' <=> Holding(c)
                       /\ call'[c] = call[c]
                       /\ Holding(c) => call[c].step \in Steps /\ lease[call[c].step] # 1
  BY DEF Tick, Holding, Inside, IInv, Typed
<1>4. Crew' = Crew
  BY <1>3 DEF Crew
<1>5. Held' \subseteq Held
  BY <1>1 DEF Held, IInv, Typed
<1>8. UNCHANGED <<shared, running, died>>
  BY DEF Tick
<1>6. CASE shared
  <2>1. \A c \in Calls : Holding(c)' => lease'[call'[c].step] > 0
    <3> SUFFICES ASSUME NEW c \in Calls, Holding(c)' PROVE lease'[call[c].step] > 0
      BY <1>3
    <3>1. call[c].step \in Steps /\ lease[call[c].step] # 1 /\ lease[call[c].step] > 0
      BY <1>3, <1>6 DEF IInv, SlotsAccountedFor
    <3>2. lease[call[c].step] \in Nat
      BY <3>1 DEF IInv, Typed
    <3> QED BY <1>1, <3>1, <3>2
  <2>2. \A s \in (Held \ died)' : \E c \in Calls : Holding(c)' /\ call'[c].step = s
    <3> SUFFICES ASSUME NEW s \in Held', s \notin died
                 PROVE  \E c \in Calls : Holding(c)' /\ call'[c].step = s
      BY <1>8
    <3>1. \E c \in Calls : Holding(c) /\ call[c].step = s
      BY <1>5, <1>6 DEF IInv, SlotsAccountedFor
    <3> QED BY <1>3, <3>1
  <2> QED BY <1>2, <1>6, <1>8, <2>1, <2>2 DEF IInv, SlotsAccountedFor
<1>7. CASE ~shared
  <2>1. running = Cardinality(Crew)
    BY <1>7 DEF IInv, SlotsAccountedFor, Crew
  <2>2. ~shared' /\ running' = Cardinality(Crew')
    BY <1>4, <1>7, <1>8, <2>1
  <2> QED BY <1>2, <2>2 DEF IInv, SlotsAccountedFor, Crew
<1> QED BY <1>6, <1>7

LEMMA InitHolds == ASSUME Instance, Init PROVE IInv
<1>1. Typed /\ OneCall /\ AtOnce
  BY DEF Init, Instance, Typed, OneCall, AtOnce, Idle
<1>2. Crew = {} /\ Held = {}
  BY DEF Init, Crew, Holding, Idle, Held
<1>3. SlotsAccountedFor
  BY <1>2, FS_EmptySet DEF Init, SlotsAccountedFor, Crew, Holding, Idle
<1> QED BY <1>1, <1>3 DEF IInv

LEMMA NextKeeps == ASSUME Instance, IInv, [Next]_vars PROVE IInv'
<1>1. ASSUME Next PROVE IInv'
  BY <1>1, LeaseKeeps, ConsumeKeeps, GiveBackKeeps, InMemoryKeeps, DeferKeeps,
     ClaimKeeps, SettleKeeps, PutBackKeeps, ResendKeeps, ReleaseKeeps, CrashKeeps,
     RedeliverKeeps, DeliverKeeps, RecoverKeeps, TickKeeps DEF Next, Step
<1>2. CASE UNCHANGED vars
  BY <1>2 DEF vars, gate, IInv, Typed, OneCall, AtOnce, SlotsAccountedFor, Holding, Held
<1> QED BY <1>1, <1>2

(***************************************************************************)
(* The in-memory count is the number of the calls it admitted; an admitted *)
(* call has a lease, no lease is left behind but by a death, and none      *)
(* expires under its call (acquireLease, releaseLease; the in-memory gate  *)
(* of core/gate.ts).                                                       *)
(***************************************************************************)
THEOREM SlotsAreAccountedFor == ASSUME Instance PROVE Spec => []SlotsAccountedFor
<1>1. Init => IInv
  BY InitHolds
<1>2. IInv /\ [Next]_vars => IInv'
  BY NextKeeps
<1>3. IInv => SlotsAccountedFor
  BY DEF IInv
<1> QED BY <1>1, <1>2, <1>3, PTL DEF Spec

-----------------------------------------------------------------------------
(***************************************************************************)
(* The gate implements the semaphore.                                      *)
(***************************************************************************)
SemaphoreInstance == Instance /\ IsFiniteSet(Steps) /\ Cap \in Nat

RowsTyped == row \in [Steps -> {"pending", "running", "settled"}]

\* Only one call runs the handler of a step, and the row says that it runs.
OneHandler ==
  \A c \in Calls : At(c, "handler") =>
    /\ row[call[c].step] = "running"
    /\ \A d \in Calls : At(d, "handler") /\ call[d].step = call[c].step => c = d

\* The gate has given out no more slots than it has.
AtMostCap == IF shared THEN Cardinality(Held) <= Cap ELSE running <= Cap

GateInv == IInv /\ RowsTyped /\ OneHandler /\ AtMostCap

Unsettled == {s \in Steps : row[s] # "settled"}

\* Where the handlers are, and what they were called for, is as before.
HandlersStay ==
  /\ \A c \in Calls :
       /\ At(c, "handler")' <=> At(c, "handler")
       /\ At(c, "handler") => /\ call'[c].step = call[c].step
                              /\ row'[call[c].step] = row[call[c].step]
  /\ RowsTyped' /\ Unsettled' = Unsettled

LEMMA StayingKeeps ==
  ASSUME GateInv, HandlersStay
  PROVE  OneHandler' /\ RowsTyped' /\ UNCHANGED <<Unsettled, RunningSteps>>
<1>1. OneHandler'
  BY DEF HandlersStay, GateInv, OneHandler
<1>2. RunningSteps' = RunningSteps
  BY DEF HandlersStay, RunningSteps
<1> QED BY <1>1, <1>2 DEF HandlersStay

\* No slot is given out.
LEMMA NoSlotTaken ==
  ASSUME SemaphoreInstance, GateInv, shared' = shared, Held' \subseteq Held,
         running' \in {running, running - 1}
  PROVE  AtMostCap'
<1>1. CASE shared
  <2>1. IsFiniteSet(Held)
    BY FS_Subset DEF Held, SemaphoreInstance
  <2>2. Cardinality(Held') <= Cardinality(Held) /\ Cardinality(Held) \in Nat
    BY <2>1, FS_Subset, FS_CardinalityType
  <2>3. Cardinality(Held') \in Nat
    BY <2>1, FS_Subset, FS_CardinalityType
  <2> QED BY <1>1, <2>2, <2>3 DEF AtMostCap, GateInv, SemaphoreInstance
<1>2. CASE ~shared
  <2>1. IsFiniteSet(Crew)
    BY FS_Subset DEF Crew, SemaphoreInstance, Instance
  <2>2. running = Cardinality(Crew) /\ Cardinality(Crew) \in Nat
    BY <1>2, <2>1, FS_CardinalityType DEF GateInv, IInv, SlotsAccountedFor, Crew
  <2> QED BY <1>2, <2>2 DEF AtMostCap, GateInv, SemaphoreInstance
<1> QED BY <1>1, <1>2

-----------------------------------------------------------------------------
\* The ways into the gate.
LEMMA LeaseWithinCap ==
  ASSUME SemaphoreInstance, GateInv, NEW c \in Calls, AcquireLease(c)
  PROVE  HandlersStay /\ AtMostCap'
<1> DEFINE s == call[c].step
<1>0. shared /\ shared' = shared /\ s \in Steps /\ At(c, "acquire") /\ row' = row
      /\ running' = running
  BY DEF AcquireLease, GateInv, IInv, Typed
<1>1. HandlersStay
  BY <1>0 DEF AcquireLease, Become, HandlersStay, GateInv, IInv, Typed, RowsTyped, Unsettled
<1>2. CASE Cardinality(OthersHeld(s)) < Cap
  <2>1. lease' = [lease EXCEPT ![s] = Ttl]
    BY <1>2 DEF AcquireLease
  <2>2. Held' = OthersHeld(s) \cup {s}
    BY <1>0, <2>1 DEF Held, OthersHeld, GateInv, IInv, Typed, SemaphoreInstance, Instance
  <2>3. IsFiniteSet(OthersHeld(s)) /\ s \notin OthersHeld(s)
    BY FS_Subset DEF Held, OthersHeld, SemaphoreInstance
  <2>4. Cardinality(Held') = Cardinality(OthersHeld(s)) + 1 /\ Cardinality(OthersHeld(s)) \in Nat
    BY <2>2, <2>3, FS_AddElement, FS_CardinalityType
  <2>5. Cardinality(Held') <= Cap
    BY <1>2, <2>4 DEF SemaphoreInstance
  <2> QED BY <1>0, <1>1, <2>5 DEF AtMostCap
<1>3. CASE ~(Cardinality(OthersHeld(s)) < Cap)
  <2>1. Held' = Held
    BY <1>3 DEF AcquireLease, Held
  <2> QED BY <1>0, <1>1, <2>1, NoSlotTaken
<1> QED BY <1>2, <1>3

LEMMA SlotWithinCap ==
  ASSUME SemaphoreInstance, GateInv, NEW c \in Calls, AcquireInMemory(c)
  PROVE  HandlersStay /\ AtMostCap'
<1>0. ~shared /\ shared' = shared /\ At(c, "acquire") /\ row' = row /\ lease' = lease
  BY DEF AcquireInMemory
<1>1. HandlersStay
  BY <1>0 DEF AcquireInMemory, Become, HandlersStay, GateInv, IInv, Typed, RowsTyped, Unsettled
<1>2. CASE running < Cap /\ tokens >= 1
  <2>1. IsFiniteSet(Crew)
    BY FS_Subset DEF Crew, SemaphoreInstance, Instance
  <2>2. running \in Nat
    BY <1>0, <2>1, FS_CardinalityType DEF GateInv, IInv, SlotsAccountedFor, Crew
  <2> QED BY <1>0, <1>1, <1>2, <2>2 DEF AcquireInMemory, AtMostCap, SemaphoreInstance
<1>3. CASE ~(running < Cap /\ tokens >= 1)
  <2>1. Held' = Held /\ running' = running
    BY <1>0, <1>3 DEF AcquireInMemory, Held
  <2> QED BY <1>0, <1>1, <2>1, NoSlotTaken
<1> QED BY <1>2, <1>3

\* The steps that leave the handlers alone and take no slot.
LEMMA OthersStay ==
  ASSUME SemaphoreInstance, GateInv, NEW c \in Calls,
         \/ ConsumeToken(c) \/ GiveBack(c) \/ Defer(c) \/ Resend(c) \/ Release(c)
         \/ Redeliver(c) \/ \E s \in Steps : Deliver(c, s)
  PROVE  HandlersStay /\ AtMostCap'
<1>1. /\ row' = row /\ shared' = shared
      /\ ~At(c, "handler") \/ call' = call
      /\ call' = call \/ \E p \in Pcs \ {"handler"}, s \in Steps \cup {None} :
                           call' = [call EXCEPT ![c] = [pc |-> p, step |-> s]]
  BY DEF ConsumeToken, GiveBack, Defer, Resend, Release, Redeliver, Deliver, Become, Rest, Idle,
         GateInv, IInv, Typed, gate
<1>2. HandlersStay
  BY <1>1 DEF HandlersStay, GateInv, IInv, Typed, RowsTyped, Unsettled
<1>3. Held' \subseteq Held /\ running' \in {running, running - 1}
  BY DEF ConsumeToken, GiveBack, Defer, Resend, Release, Redeliver, Deliver, gate, Held,
         GateInv, IInv, Typed
<1>4. shared' = shared
  BY DEF ConsumeToken, GiveBack, Defer, Resend, Release, Redeliver, Deliver
<1> QED BY <1>2, <1>3, <1>4, NoSlotTaken

LEMMA TimeStays ==
  ASSUME SemaphoreInstance, GateInv, Tick PROVE HandlersStay /\ AtMostCap'
<1>1. HandlersStay
  BY DEF Tick, HandlersStay, GateInv, RowsTyped, Unsettled
<1>2. Held' \subseteq Held /\ running' = running /\ shared' = shared
  BY DEF Tick, Held
<1> QED BY <1>1, <1>2, NoSlotTaken

LEMMA SweeperStays ==
  ASSUME SemaphoreInstance, GateInv, NEW s \in Steps, Recover(s) PROVE HandlersStay /\ AtMostCap'
<1>1. HandlersStay
  BY DEF Recover, HandlersStay, GateInv, RowsTyped, Unsettled
<1>2. Held' \subseteq Held /\ running' = running /\ shared' = shared
  BY DEF Recover, Held, gate
<1> QED BY <1>1, <1>2, NoSlotTaken

-----------------------------------------------------------------------------
\* A call that is about to claim holds a slot no handler has.
LEMMA RoomForOne ==
  ASSUME SemaphoreInstance, GateInv, NEW c \in Calls, At(c, "claim"),
         row[call[c].step] = "pending"
  PROVE  Cardinality(RunningSteps) < Cap
<1> DEFINE s == call[c].step
           H == {d \in Calls : At(d, "handler")}
<1>0. s \in Steps
  BY DEF GateInv, IInv, Typed
<1>1. s \notin RunningSteps
  BY DEF GateInv, OneHandler, RunningSteps
<1>2. CASE shared
  <2>1. RunningSteps \cup {s} \subseteq Held
    BY <1>0, <1>2 DEF GateInv, IInv, SlotsAccountedFor, Holding, Held, RunningSteps
  <2>2. IsFiniteSet(Held)
    BY FS_Subset DEF Held, SemaphoreInstance
  <2>3. IsFiniteSet(RunningSteps) /\ IsFiniteSet(RunningSteps \cup {s})
    BY <2>1, <2>2, FS_Subset
  <2>4. Cardinality(RunningSteps \cup {s}) = Cardinality(RunningSteps) + 1
        /\ Cardinality(RunningSteps) \in Nat
    BY <1>1, <2>3, FS_AddElement, FS_CardinalityType
  <2>5. Cardinality(RunningSteps \cup {s}) <= Cardinality(Held) /\ Cardinality(Held) \in Nat
    BY <2>1, <2>2, FS_Subset, FS_CardinalityType
  <2> QED BY <1>2, <2>4, <2>5 DEF GateInv, AtMostCap, SemaphoreInstance
<1>3. CASE ~shared
  <2>1. IsFiniteSet(Crew)
    BY FS_Subset DEF Crew, SemaphoreInstance, Instance
  <2>2. H \cup {c} \subseteq Crew /\ c \notin H
    BY DEF Crew, Holding
  <2>3. IsFiniteSet(H) /\ IsFiniteSet(H \cup {c})
    BY <2>1, <2>2, FS_Subset
  <2>4. Cardinality(H \cup {c}) = Cardinality(H) + 1 /\ Cardinality(H) \in Nat
    BY <2>2, <2>3, FS_AddElement, FS_CardinalityType
  <2>5. Cardinality(H \cup {c}) <= Cardinality(Crew) /\ Cardinality(Crew) \in Nat
    BY <2>1, <2>2, FS_Subset, FS_CardinalityType
  <2>6. [d \in H |-> call[d].step] \in Surjection(H, RunningSteps)
    BY DEF Surjection, RunningSteps, GateInv, IInv, Typed
  <2>7. Cardinality(RunningSteps) <= Cardinality(H) /\ IsFiniteSet(RunningSteps)
    BY <2>3, <2>6, FS_Surjection
  <2>8. Cardinality(RunningSteps) \in Nat
    BY <2>7, FS_CardinalityType
  <2>9. running = Cardinality(Crew)
    BY <1>3 DEF GateInv, IInv, SlotsAccountedFor, Crew
  <2> QED BY <1>3, <2>4, <2>5, <2>7, <2>8, <2>9 DEF GateInv, AtMostCap, SemaphoreInstance
<1> QED BY <1>2, <1>3

\* What a step of the gate keeps, and what it is for the semaphore.
Moves ==
  /\ RowsTyped' /\ OneHandler' /\ AtMostCap'
  /\ \/ UNCHANGED <<Unsettled, RunningSteps>>
     \/ \E s \in Unsettled \ RunningSteps :
          /\ Cardinality(RunningSteps) < Cap
          /\ RunningSteps' = RunningSteps \cup {s} /\ Unsettled' = Unsettled
     \/ \E s \in RunningSteps :
          RunningSteps' = RunningSteps \ {s} /\ Unsettled' \in {Unsettled, Unsettled \ {s}}

LEMMA ClaimMoves ==
  ASSUME SemaphoreInstance, GateInv, NEW c \in Calls, Claim(c) PROVE Moves
<1> DEFINE s == call[c].step
<1>0. s \in Steps /\ At(c, "claim") /\ UNCHANGED <<shared, lease, running>>
  BY DEF Claim, GateInv, IInv, Typed, gate
<1>1. AtMostCap'
  BY <1>0, NoSlotTaken DEF Held
<1>2. CASE row[s] = "pending"
  <2>1. /\ row' = [row EXCEPT ![s] = "running"]
        /\ call' = [call EXCEPT ![c] = [@ EXCEPT !.pc = "handler"]]
    BY <1>2 DEF Claim, Become
  <2>2. /\ \A d \in Calls \ {c} : call'[d] = call[d]
        /\ call'[c].pc = "handler" /\ call'[c].step = s
    BY <2>1 DEF GateInv, IInv, Typed
  <2>3. RowsTyped' /\ Unsettled' = Unsettled
    BY <1>0, <1>2, <2>1 DEF GateInv, RowsTyped, Unsettled
  <2>4. \A d \in Calls : At(d, "handler") => call[d].step # s /\ call[d].step \in Steps
    BY <1>2 DEF GateInv, OneHandler, IInv, Typed
  <2>5. OneHandler'
    BY <1>0, <2>1, <2>2, <2>4 DEF GateInv, OneHandler, RowsTyped
  <2>6. RunningSteps' = RunningSteps \cup {s}
    BY <1>0, <2>2 DEF RunningSteps
  <2>7. s \in Unsettled \ RunningSteps
    BY <1>0, <1>2, <2>4 DEF Unsettled, RunningSteps
  <2>8. Cardinality(RunningSteps) < Cap
    BY <1>0, <1>2, RoomForOne
  <2> QED BY <1>1, <2>3, <2>5, <2>6, <2>7, <2>8 DEF Moves
<1>3. CASE row[s] # "pending"
  <2>1. HandlersStay
    BY <1>0, <1>3 DEF Claim, Become, HandlersStay, GateInv, IInv, Typed, RowsTyped, Unsettled
  <2> QED BY <1>1, <2>1, StayingKeeps DEF Moves
<1> QED BY <1>2, <1>3

\* A handler ends, fails, or dies with its worker.
LEMMA LeavingMoves ==
  ASSUME SemaphoreInstance, GateInv, NEW c \in Calls, At(c, "handler"),
         Settle(c) \/ PutBack(c) \/ Crash(c)
  PROVE  Moves
<1> DEFINE s == call[c].step
<1>0. s \in Steps /\ s \in RunningSteps
  BY DEF GateInv, IInv, Typed, RunningSteps
<1>1. /\ \A d \in Calls \ {c} : call'[d] = call[d]
      /\ call'[c].pc # "handler"
      /\ \E q \in {"settled", "pending", "running"} : row' = [row EXCEPT ![s] = q]
      /\ UNCHANGED <<shared, lease, running>>
  BY <1>0 DEF Settle, PutBack, Crash, Become, Rest, Idle, GateInv, IInv, Typed, RowsTyped, gate,
              OneHandler
<1>2. AtMostCap'
  BY <1>1, NoSlotTaken DEF Held
<1>3. \A d \in Calls \ {c} : At(d, "handler") => call[d].step # s /\ call[d].step \in Steps
  BY DEF GateInv, OneHandler, IInv, Typed
<1>4. RowsTyped' /\ Unsettled' \in {Unsettled, Unsettled \ {s}}
  BY <1>0, <1>1 DEF GateInv, RowsTyped, Unsettled, OneHandler
<1>5. OneHandler'
  BY <1>0, <1>1, <1>3 DEF GateInv, OneHandler, RowsTyped
<1>6. RunningSteps' = RunningSteps \ {s}
  BY <1>0, <1>1, <1>3 DEF RunningSteps
<1> QED BY <1>0, <1>2, <1>4, <1>5, <1>6 DEF Moves

LEMMA DeathOutside ==
  ASSUME SemaphoreInstance, GateInv, NEW c \in Calls, Crash(c), ~At(c, "handler")
  PROVE  Moves
<1>1. /\ UNCHANGED <<row, shared, lease, running>> /\ call' = [call EXCEPT ![c] = Idle]
  BY DEF Crash, Rest, gate
<1>2. HandlersStay
  BY <1>1 DEF HandlersStay, Idle, GateInv, IInv, Typed, RowsTyped, Unsettled
<1>3. AtMostCap'
  BY <1>1, NoSlotTaken DEF Held
<1> QED BY <1>2, <1>3, StayingKeeps DEF Moves

LEMMA NextMoves == ASSUME SemaphoreInstance, GateInv, [Next]_vars PROVE Moves
<1>1. ASSUME HandlersStay, AtMostCap' PROVE Moves
  BY <1>1, StayingKeeps DEF Moves
<1>2. ASSUME NEW c \in Calls, Step(c) \/ Crash(c) \/ Redeliver(c) \/ \E s \in Steps : Deliver(c, s)
      PROVE  Moves
  <2>1. CASE AcquireLease(c)
    BY <1>1, <2>1, LeaseWithinCap
  <2>2. CASE AcquireInMemory(c)
    BY <1>1, <2>2, SlotWithinCap
  <2>3. CASE \/ ConsumeToken(c) \/ GiveBack(c) \/ Defer(c) \/ Resend(c) \/ Release(c)
             \/ Redeliver(c) \/ \E s \in Steps : Deliver(c, s)
    BY <1>1, <2>3, OthersStay
  <2>4. CASE Claim(c)
    BY <2>4, ClaimMoves
  <2>5. CASE Settle(c) \/ PutBack(c)
    BY <2>5, LeavingMoves DEF Settle, PutBack
  <2>6. CASE Crash(c)
    BY <2>6, LeavingMoves, DeathOutside
  <2> QED BY <1>2, <2>1, <2>2, <2>3, <2>4, <2>5, <2>6 DEF Step
<1>3. CASE \E s \in Steps : Recover(s)
  BY <1>1, <1>3, SweeperStays
<1>4. CASE Tick
  BY <1>1, <1>4, TimeStays
<1>5. CASE UNCHANGED vars
  <2>1. HandlersStay
    BY <1>5 DEF vars, gate, HandlersStay, GateInv, RowsTyped, Unsettled
  <2>2. AtMostCap'
    BY <1>5 DEF vars, gate, AtMostCap, Held, GateInv
  <2> QED BY <1>1, <2>1, <2>2
<1> QED BY <1>2, <1>3, <1>4, <1>5 DEF Next

LEMMA GateInvStarts == ASSUME SemaphoreInstance, Init PROVE GateInv /\ Promise!Init
<1>1. IInv
  BY InitHolds DEF SemaphoreInstance
<1>2. RowsTyped /\ OneHandler
  BY DEF Init, RowsTyped, OneHandler, Idle
<1>3. Held = {} /\ running = 0 /\ RunningSteps = {}
  BY DEF Init, Held, RunningSteps, Idle
<1>4. AtMostCap
  BY <1>3, FS_EmptySet DEF AtMostCap, SemaphoreInstance
<1>5. Promise!Init
  BY <1>3 DEF Promise!Init
<1> QED BY <1>1, <1>2, <1>4, <1>5 DEF GateInv

LEMMA GateInvStays == ASSUME SemaphoreInstance, GateInv, [Next]_vars PROVE GateInv'
BY NextKeeps, NextMoves DEF GateInv, Moves, SemaphoreInstance

LEMMA MovesImplement ==
  ASSUME GateInv, Moves PROVE [Promise!Next]_(Promise!vars)
<1>0. RunningSteps \subseteq Steps
  BY DEF RunningSteps
<1>1. CASE UNCHANGED <<Unsettled, RunningSteps>>
  BY <1>1 DEF Promise!vars, Unsettled
<1>2. ASSUME NEW s \in Unsettled \ RunningSteps, Cardinality(RunningSteps) < Cap,
             RunningSteps' = RunningSteps \cup {s}, Unsettled' = Unsettled
      PROVE  Promise!Next
  <2>1. Unsettled' \ RunningSteps' = (Unsettled \ RunningSteps) \ {s}
    BY <1>2
  <2>2. Promise!Cardinality(RunningSteps) = Cardinality(RunningSteps)
    BY DEF Promise!Cardinality, Cardinality
  <2>3. Promise!Enter(s)
    BY <1>2, <2>1, <2>2 DEF Promise!Enter, Unsettled
  <2> QED BY <2>3 DEF Promise!Next, Unsettled
<1>3. ASSUME NEW s \in RunningSteps, RunningSteps' = RunningSteps \ {s},
             Unsettled' \in {Unsettled, Unsettled \ {s}}
      PROVE  Promise!Next
  <2>1. s \in Unsettled
    BY DEF RunningSteps, GateInv, OneHandler, Unsettled
  <2>2. Promise!Leave(s)
    BY <1>3, <2>1 DEF Promise!Leave, Unsettled
  <2> QED BY <1>0, <2>2 DEF Promise!Next
<1> QED BY <1>1, <1>2, <1>3 DEF Moves

(***************************************************************************)
(* No more than maxConcurrent handlers of a type run at once, no handler   *)
(* runs that was not let in, and one step has one handler (executeStep and *)
(* its gate): in memory however calls are redelivered, retried or          *)
(* deferred, on Postgres whichever die or are deferred, of steps that have *)
(* one delivery at a time (Instance).                                      *)
(***************************************************************************)
THEOREM GateIsASemaphore == ASSUME SemaphoreInstance PROVE Spec => ImplementsSemaphore
<1>1. Init => GateInv /\ Promise!Init
  BY GateInvStarts
<1>2. GateInv /\ [Next]_vars => GateInv'
  BY GateInvStays
<1>3. GateInv /\ [Next]_vars => [Promise!Next]_(Promise!vars)
  BY NextMoves, MovesImplement
<1> QED BY <1>1, <1>2, <1>3, PTL DEF Spec, ImplementsSemaphore, Promise!Spec

=============================================================================
