---------------------------- MODULE Preparation ----------------------------
(***************************************************************************)
(* Queue set-up and transactional dispatch on one database.  The engine    *)
(* and the pg-boss dispatcher each remember, as a promise, that the queue  *)
(* has been prepared.  On an embedded database with a single connection a  *)
(* transaction holds that connection, and everything that does not go      *)
(* through the transaction waits for it.                                   *)
(***************************************************************************)
EXTENDS Naturals

CONSTANTS
  Calls,    \* dispatches, each made at most MaxTries times
  MaxTries,
  Cases     \* kind of each call, single connection or not, bounds of the events

VARIABLES
  kind,     \* kind[c]: "transaction", "direct" (enqueueStep alone), "wait" (a ready wait with a deadline)
  single,   \* the database has a single connection
  engine,   \* the engine's memo, withDispatchScope
  memo,     \* the dispatcher's
  queues,   \* the queue exists
  cached,   \* pg-boss has the queue's row in its cache
  holder,   \* the calls that hold a connection
  pc,
  tries,
  budget

vars == <<kind, single, engine, memo, queues, cached, holder, pc, tries, budget>>

Spend(e) == budget[e] > 0 /\ budget' = [budget EXCEPT ![e] = @ - 1]
Goto(c, p) == pc' = [pc EXCEPT ![c] = p]
InTransaction(c) == c \in holder

\* pg-boss has a connection of its own, or there is a single one and it is free.
Free == single => holder = {}

Init ==
  /\ \E k \in Cases : kind = k.kind /\ single = k.single /\ budget = k.budget
  /\ engine = "none" /\ memo = "none"
  /\ queues = FALSE /\ cached = FALSE /\ holder = {}
  /\ pc = [c \in Calls |-> "idle"]
  /\ tries = [c \in Calls |-> 0]

-----------------------------------------------------------------------------
Call(c) ==
  /\ pc[c] \in {"idle", "failed"} /\ tries[c] < MaxTries
  /\ tries' = [tries EXCEPT ![c] = @ + 1]
  /\ Goto(c, IF kind[c] = "direct" THEN "prepare" ELSE "scope")
  /\ UNCHANGED <<kind, single, engine, memo, queues, cached, holder, budget>>

EnterUnprepared(c) ==
  /\ pc[c] = "scope"
  /\ Goto(c, "begin")
  /\ UNCHANGED <<kind, single, engine, memo, queues, cached, holder, tries, budget>>

\* withDispatchScope: nothing of the set-up is left for the transaction.
EnterScope(c) ==
  /\ pc[c] = "scope"
  /\ CASE engine = "done" -> Goto(c, "begin") /\ UNCHANGED engine
       [] engine = "running" -> Goto(c, "awaitEngine") /\ UNCHANGED engine
       [] OTHER -> Goto(c, "prepare") /\ engine' = "running"
  /\ UNCHANGED <<kind, single, memo, queues, cached, holder, tries, budget>>

\* The call goes on after ensurePrepared.
Prepared(c) == IF pc[c] = "prepare" /\ ~InTransaction(c) /\ kind[c] # "direct" THEN "begin" ELSE "send"

\* ensurePrepared of the dispatcher.
EnsurePrepared(c) ==
  /\ pc[c] = "prepare"
  /\ CASE memo = "done" ->
            /\ Goto(c, Prepared(c))
            /\ engine' = IF Prepared(c) = "begin" THEN "done" ELSE engine
            /\ UNCHANGED memo
       [] memo = "running" -> Goto(c, "awaitSetUp") /\ UNCHANGED <<engine, memo>>
       [] OTHER -> Goto(c, "ddl") /\ memo' = "running" /\ UNCHANGED engine
  /\ UNCHANGED <<kind, single, queues, cached, holder, tries, budget>>

\* A promise that has settled wakes the calls that share it.
AwaitOver(c) ==
  /\ \/ pc[c] = "awaitEngine" /\ engine = "done" /\ Goto(c, "begin")
     \/ pc[c] = "awaitSetUp" /\ memo = "done" /\ Goto(c, "prepare")
  /\ UNCHANGED <<kind, single, engine, memo, queues, cached, holder, tries, budget>>

\* The call that prepares for the engine is in the dispatcher's set-up, or waits for it.
EngineShares == \E d \in Calls : /\ kind[d] # "direct" /\ ~InTransaction(d)
                                  /\ pc[d] \in {"ddl", "fill", "awaitSetUp"}

\* A refused set-up fails every call that shares it, and is forgotten.
SetUpFails(c) ==
  /\ pc[c] \in {"ddl", "fill"} /\ Free /\ Spend("refuse")
  /\ LET sharing == {d \in Calls : \/ d = c \/ pc[d] = "awaitSetUp"
                                   \/ pc[d] = "awaitEngine" /\ EngineShares} IN
       /\ pc' = [d \in Calls |-> IF d \in sharing THEN "failed" ELSE pc[d]]
       /\ holder' = holder \ sharing
  /\ memo' = "none"
  /\ engine' = IF EngineShares THEN "none" ELSE engine
  /\ UNCHANGED <<kind, single, queues, cached, tries>>

\* ensureStepQueue creates what is missing, which evicts the cache entry.
CreateQueues(c) ==
  /\ pc[c] = "ddl" /\ Free
  /\ queues' = TRUE
  /\ cached' = (queues /\ cached)
  /\ Goto(c, "fill")
  /\ UNCHANGED <<kind, single, engine, memo, holder, tries, budget>>

FillNothing(c) ==
  /\ pc[c] = "fill" /\ Free
  /\ memo' = "done"
  /\ Goto(c, "prepare")
  /\ UNCHANGED <<kind, single, engine, queues, cached, holder, tries, budget>>

FillCache(c) ==
  /\ pc[c] = "fill" /\ Free
  /\ cached' = TRUE /\ memo' = "done"
  /\ Goto(c, "prepare")
  /\ UNCHANGED <<kind, single, engine, queues, holder, tries, budget>>

Begin(c) ==
  /\ pc[c] = "begin" /\ Free
  /\ holder' = holder \cup {c}
  /\ Goto(c, IF kind[c] = "wait" THEN "timer" ELSE "prepare")
  /\ UNCHANGED <<kind, single, engine, memo, queues, cached, tries, budget>>

\* suspendStep in a transaction: scheduleWaitTimeout does not send through it.
SendTimer(c) ==
  /\ pc[c] = "timer" /\ Free
  /\ Goto(c, "commit")
  /\ UNCHANGED <<kind, single, engine, memo, queues, cached, holder, tries, budget>>

\* boss.send reads a queue it has not cached on a connection of its own.
Send(c) ==
  /\ pc[c] = "send"
  /\ (cached /\ InTransaction(c)) \/ Free
  /\ cached' = TRUE
  /\ Goto(c, IF InTransaction(c) THEN "commit" ELSE "done")
  /\ UNCHANGED <<kind, single, engine, memo, queues, holder, tries, budget>>

Commit(c) ==
  /\ pc[c] = "commit"
  /\ holder' = holder \ {c}
  /\ Goto(c, "done")
  /\ UNCHANGED <<kind, single, engine, memo, queues, cached, tries, budget>>

Proceed(c) ==
  \/ EnterScope(c) \/ EnsurePrepared(c) \/ AwaitOver(c) \/ CreateQueues(c) \/ FillCache(c)
  \/ Begin(c) \/ SendTimer(c) \/ Send(c) \/ Commit(c)

Next == \E c \in Calls : Call(c) \/ Proceed(c) \/ SetUpFails(c)

\* Some call that can go on does.
Fairness == WF_vars(\E c \in Calls : Proceed(c))

Spec == Init /\ [][Next]_vars /\ Fairness

-----------------------------------------------------------------------------
\* No dispatch waits for ever: not for a connection that its own transaction
\* holds, and not for a set-up that has failed.
EveryDispatchEnds == []<>(\A c \in Calls : pc[c] \in {"idle", "failed", "done"})

=============================================================================
